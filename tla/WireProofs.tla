------------------------------ MODULE WireProofs ------------------------------
(* What goes over the wire: the text of trailers (TrailerText), and bodies cut  *)
(* anywhere (GrpcWebBody), for every size of a byte and whatever is sent.       *)
EXTENDS TrailerText, GrpcWebBody, SequenceTheorems, FiniteSetTheorems, WellFoundedInduction, TLAPS

-----------------------------------------------------------------------------
(* Natural numbers *)

\* A set of natural numbers that is not empty has a smallest element.
LEMMA LeastNat ==
  ASSUME NEW S \in SUBSET Nat, S # {}
  PROVE  Min(S) \in S /\ \A m \in S : Min(S) <= m
<1> DEFINE Less == OpToRel(<, Nat)
<1>1. IsWellFoundedOn(Less, Nat)
  BY NatLessThanWellFounded, Zenon
<1>2. \A x, y \in Nat : x < y => <<x, y>> \in Less
  BY SMT DEF OpToRel
<1> HIDE DEF Less
<1>3. PICK n \in S : \A m \in S : ~ (<<m, n>> \in Less)
  BY <1>1, WFMin
<1>4. ASSUME NEW m \in S PROVE n <= m
  <2>1. n \in Nat /\ m \in Nat
    OBVIOUS
  <2>2. ~ (m < n)
    BY <1>2, <1>3, <2>1, Zenon
  <2> QED
    BY <2>1, <2>2
<1> QED
  BY <1>3, <1>4 DEF Min

\* A bounded one has a largest.
LEMMA GreatestNat ==
  ASSUME NEW n \in Nat, NEW S \in SUBSET (0..n), S # {}
  PROVE  Max(S) \in S /\ \A m \in S : m <= Max(S)
<1> DEFINE T == {n - m : m \in S}
<1>1. T \subseteq Nat
  OBVIOUS
<1>0. T # {}
  OBVIOUS
<1>2. PICK m \in S : \A k \in S : n - m <= n - k
  <2>1. Min(T) \in T /\ \A t \in T : Min(T) <= t
    BY <1>0, <1>1, LeastNat
  <2> QED
    BY <2>1
<1>3. \A k \in S : m >= k
  BY <1>2
<1> QED
  BY <1>3 DEF Max

-----------------------------------------------------------------------------
(* Sequences *)

LEMMA Slice ==
  ASSUME NEW X, NEW s \in Seq(X), NEW a \in 1..Len(s) + 1, NEW b \in (a - 1)..Len(s)
  PROVE  /\ SubSeq(s, a, b) \in Seq(X)
         /\ Len(SubSeq(s, a, b)) = b - a + 1
         /\ \A i \in 1..(b - a + 1) : SubSeq(s, a, b)[i] = s[a + i - 1]
<1>1. Len(s) \in Nat /\ a \in Int /\ b \in Int
  OBVIOUS
<1>2. \A i \in a..b : s[i] \in X
  BY <1>1
<1> QED
  BY <1>1, <1>2, SubSeqProperties

-----------------------------------------------------------------------------
(* Words and how they are trimmed and escaped *)

Letter ==
  Tokens \cup Statuses \cup TrailerNames \cup Escapes
  \cup {STATUS, MESSAGE, ":", "SP", "CRLF", "%", "uni", "binary"}

Solid(s) == {i \in DOMAIN s : s[i] # "SP"}

\* The bounds of what trim leaves of a text that is not blank.
LEMMA SolidBounds ==
  ASSUME NEW s \in Seq(Letter), Solid(s) # {}
  PROVE  /\ Min(Solid(s)) \in Solid(s) /\ Max(Solid(s)) \in Solid(s)
         /\ \A i \in Solid(s) : Min(Solid(s)) <= i /\ i <= Max(Solid(s))
         /\ Solid(s) \subseteq 1..Len(s)
         /\ Trim(s) = SubSeq(s, Min(Solid(s)), Max(Solid(s)))
<1>1. Len(s) \in Nat /\ DOMAIN s = 1..Len(s)
  OBVIOUS
<1>2. Solid(s) \subseteq 1..Len(s)
  BY <1>1 DEF Solid
<1>4. Solid(s) \subseteq Nat
  BY <1>1, <1>2
<1>5. Solid(s) \subseteq 0..Len(s)
  BY <1>1, <1>2
<1>3. Trim(s) = SubSeq(s, Min(Solid(s)), Max(Solid(s)))
  BY DEF Trim, Solid
<1> QED
  BY <1>1, <1>2, <1>3, <1>4, <1>5, LeastNat, GreatestNat

LEMMA BlankTrimmed ==
  ASSUME NEW s, Solid(s) = {}
  PROVE  Trim(s) = <<>>
BY DEF Trim, Solid

\* The bounds are the only pair that is solid and has all solid places between.
LEMMA TrimIs ==
  ASSUME NEW s \in Seq(Letter), NEW a \in Solid(s), NEW b \in Solid(s),
         \A i \in Solid(s) : a <= i /\ i <= b
  PROVE  Trim(s) = SubSeq(s, a, b)
<1>1. Solid(s) # {}
  OBVIOUS
<1>2. Min(Solid(s)) = a /\ Max(Solid(s)) = b
  BY <1>1, SolidBounds
<1> QED
  BY <1>1, <1>2, SolidBounds

\* A space ahead of a text is trimmed.
LEMMA TrimAhead ==
  ASSUME NEW s \in Seq(Letter), NEW w \in Seq(Letter),
         Len(w) = Len(s) + 1, w[1] = "SP",
         \A i \in 1..Len(s) : w[i + 1] = s[i]
  PROVE  Trim(w) = Trim(s)
<1>1. Len(s) \in Nat /\ DOMAIN s = 1..Len(s)
  OBVIOUS
<1>0. DOMAIN w = 1..(Len(s) + 1)
  OBVIOUS
<1>2. \A i \in Solid(w) : i - 1 \in Solid(s)
  <2>1. SUFFICES ASSUME NEW i \in Solid(w) PROVE i - 1 \in Solid(s)
    OBVIOUS
  <2>2. i \in 1..(Len(s) + 1) /\ w[i] # "SP"
    BY <1>0 DEF Solid
  <2>3. i - 1 \in 1..Len(s) /\ (i - 1) + 1 = i
    BY <1>1, <2>2
  <2>4. w[i] = s[i - 1]
    BY <2>3
  <2> QED
    BY <1>1, <2>2, <2>3, <2>4 DEF Solid
<1>3. \A i \in Solid(s) : i + 1 \in Solid(w)
  <2>1. SUFFICES ASSUME NEW i \in Solid(s) PROVE i + 1 \in Solid(w)
    OBVIOUS
  <2>2. i \in 1..Len(s) /\ s[i] # "SP"
    BY <1>1 DEF Solid
  <2>3. i + 1 \in 1..(Len(s) + 1) /\ w[i + 1] = s[i]
    BY <1>1, <2>2
  <2> QED
    BY <1>0, <2>2, <2>3 DEF Solid
<1>4. CASE Solid(s) = {}
  BY <1>2, <1>4, BlankTrimmed
<1>5. CASE Solid(s) # {}
  <2> DEFINE a == Min(Solid(s))
             b == Max(Solid(s))
  <2>1. /\ a \in Solid(s) /\ b \in Solid(s) /\ Solid(s) \subseteq 1..Len(s)
        /\ \A i \in Solid(s) : a <= i /\ i <= b
        /\ Trim(s) = SubSeq(s, a, b)
    BY <1>5, SolidBounds
  <2> HIDE DEF a, b
  <2>2. a \in 1..Len(s) /\ b \in 1..Len(s) /\ a <= b
    BY <2>1
  <2>3. ASSUME NEW i \in Solid(w) PROVE a + 1 <= i /\ i <= b + 1
    <3>1. i \in 1..(Len(s) + 1)
      BY <1>0 DEF Solid
    <3>2. a <= i - 1 /\ i - 1 <= b
      BY <1>2, <2>1
    <3> QED
      BY <1>1, <2>2, <3>1, <3>2
  <2>4. Trim(w) = SubSeq(w, a + 1, b + 1)
    BY <1>3, <2>1, <2>3, TrimIs
  <2>5. SubSeq(w, a + 1, b + 1) = SubSeq(s, a, b)
    <3> DEFINE u == SubSeq(s, a, b)
               v == SubSeq(w, a + 1, b + 1)
    <3>1. /\ u \in Seq(Letter) /\ Len(u) = b - a + 1
          /\ \A i \in 1..(b - a + 1) : u[i] = s[a + i - 1]
      BY <1>1, <2>2, Slice
    <3>2. /\ v \in Seq(Letter) /\ Len(v) = b - a + 1
          /\ \A i \in 1..(b - a + 1) : v[i] = w[a + i]
      <4>1. /\ a + 1 \in 1..Len(w) + 1 /\ b + 1 \in ((a + 1) - 1)..Len(w)
            /\ (b + 1) - (a + 1) + 1 = b - a + 1
            /\ \A i \in 1..(b - a + 1) : (a + 1) + i - 1 = a + i
        BY <1>0, <1>1, <2>2
      <4>2. /\ v \in Seq(Letter) /\ Len(v) = (b + 1) - (a + 1) + 1
            /\ \A i \in 1..((b + 1) - (a + 1) + 1) : v[i] = w[(a + 1) + i - 1]
        <5> DEFINE lo == a + 1
                   hi == b + 1
        <5>1. w \in Seq(Letter) /\ lo \in 1..Len(w) + 1 /\ hi \in (lo - 1)..Len(w)
          BY <1>0, <4>1
        <5> HIDE DEF lo, hi
        <5>2. /\ SubSeq(w, lo, hi) \in Seq(Letter) /\ Len(SubSeq(w, lo, hi)) = hi - lo + 1
              /\ \A i \in 1..(hi - lo + 1) : SubSeq(w, lo, hi)[i] = w[lo + i - 1]
          BY <5>1, Slice
        <5> QED
          BY <5>2 DEF lo, hi
      <4> HIDE DEF v
      <4> QED
        BY <4>1, <4>2
    <3> HIDE DEF u, v
    <3>3. ASSUME NEW i \in 1..(b - a + 1) PROVE u[i] = v[i]
      <4>1. a + i - 1 \in 1..Len(s) /\ a + i = (a + i - 1) + 1
        BY <1>1, <2>2
      <4> QED
        BY <3>1, <3>2, <4>1
    <3>4. u = v
      BY <3>1, <3>2, <3>3, SeqEqual
    <3> QED
      BY <3>4 DEF u, v
  <2> QED
    BY <2>1, <2>4, <2>5
<1> QED
  BY <1>4, <1>5

\* Escaping changes no length and no blank, and leaves no line break and no bare
\* percent sign.
LEMMA Escaped ==
  ASSUME NEW s \in Seq(Letter)
  PROVE  /\ encodeGrpcMessage(s) \in Seq(Letter)
         /\ Len(encodeGrpcMessage(s)) = Len(s)
         /\ \A i \in 1..Len(s) :
              /\ encodeGrpcMessage(s)[i] \notin {"CRLF", "%", "uni"}
              /\ encodeGrpcMessage(s)[i] = "SP" <=> s[i] = "SP"
         /\ Solid(encodeGrpcMessage(s)) = Solid(s)
<1> DEFINE esc(x) == CASE x = "%" -> "%25"
                       [] x = "CRLF" -> "%0D%0A"
                       [] x = "uni" -> "%C3%A9"
                       [] OTHER -> x
<1>1. Len(s) \in Nat /\ DOMAIN s = 1..Len(s) /\ \A i \in 1..Len(s) : s[i] \in Letter
  OBVIOUS
<1>2. encodeGrpcMessage(s) = [i \in 1..Len(s) |-> esc(s[i])]
  BY <1>1 DEF encodeGrpcMessage
<1>3. \A x \in Letter : /\ esc(x) \in Letter /\ esc(x) \notin {"CRLF", "%", "uni"}
                        /\ esc(x) = "SP" <=> x = "SP"
  BY DEF Letter, Escapes
<1> HIDE DEF esc
<1>4. encodeGrpcMessage(s) \in Seq(Letter) /\ Len(encodeGrpcMessage(s)) = Len(s)
  <2>1. \A i \in 1..Len(s) : esc(s[i]) \in Letter
    BY <1>1, <1>3
  <2>2. encodeGrpcMessage(s) \in Seq(Letter)
    BY <1>1, <1>2, <2>1, IsASeq
  <2> QED
    BY <1>1, <1>2, <2>2
<1>5. \A i \in 1..Len(s) : encodeGrpcMessage(s)[i] = esc(s[i])
  BY <1>2
<1>6. DOMAIN encodeGrpcMessage(s) = DOMAIN s
  BY <1>1, <1>2
<1> QED
  BY <1>1, <1>3, <1>4, <1>5, <1>6 DEF Solid

\* Trimming and escaping may change places.
LEMMA TrimEscaped ==
  ASSUME NEW s \in Seq(Letter)
  PROVE  /\ Trim(s) \in Seq(Letter)
         /\ \A i \in 1..Len(Trim(s)) : \E j \in 1..Len(s) : Trim(s)[i] = s[j]
         /\ Trim(encodeGrpcMessage(s)) = encodeGrpcMessage(Trim(s))
<1> DEFINE e == encodeGrpcMessage(s)
<1>1. e \in Seq(Letter) /\ Len(e) = Len(s) /\ Solid(e) = Solid(s)
  BY Escaped
<1>2. CASE Solid(s) = {}
  <2>1. Trim(s) = <<>> /\ Trim(e) = <<>>
    BY <1>1, <1>2, BlankTrimmed
  <2>2. encodeGrpcMessage(<<>>) = <<>>
    BY DEF encodeGrpcMessage
  <2> QED
    BY <2>1, <2>2
<1>3. CASE Solid(s) # {}
  <2> DEFINE a == Min(Solid(s))
             b == Max(Solid(s))
             u == SubSeq(s, a, b)
             v == SubSeq(e, a, b)
  <2>1. /\ a \in Solid(s) /\ b \in Solid(s) /\ Solid(s) \subseteq 1..Len(s)
        /\ a <= b /\ Trim(s) = u
    BY <1>3, SolidBounds
  <2>2. Trim(e) = v
    BY <1>1, <1>3, SolidBounds
  <2> HIDE DEF a, b
  <2>3. a \in 1..Len(s) + 1 /\ b \in (a - 1)..Len(s) /\ Len(s) \in Nat
    BY <2>1
  <2>4. /\ u \in Seq(Letter) /\ Len(u) = b - a + 1
        /\ \A i \in 1..(b - a + 1) : u[i] = s[a + i - 1]
    BY <2>3, Slice
  <2>5. /\ v \in Seq(Letter) /\ Len(v) = b - a + 1
        /\ \A i \in 1..(b - a + 1) : v[i] = e[a + i - 1]
    BY <1>1, <2>3, Slice
  <2> HIDE DEF u, v
  <2>6. \A i \in 1..(b - a + 1) : a + i - 1 \in 1..Len(s)
    BY <2>3
  <2>7. v = encodeGrpcMessage(u)
    <3>1. encodeGrpcMessage(u) \in Seq(Letter) /\ Len(encodeGrpcMessage(u)) = b - a + 1
      BY <2>4, Escaped
    <3>2. \A i \in 1..(b - a + 1) : v[i] = encodeGrpcMessage(u)[i]
      <4>1. SUFFICES ASSUME NEW i \in 1..(b - a + 1) PROVE v[i] = encodeGrpcMessage(u)[i]
        OBVIOUS
      <4>2. i \in DOMAIN u /\ a + i - 1 \in DOMAIN s
        BY <2>4, <2>6
      <4>3. v[i] = e[a + i - 1] /\ u[i] = s[a + i - 1]
        BY <2>4, <2>5
      <4> QED
        BY <4>2, <4>3 DEF encodeGrpcMessage
    <3> QED
      BY <2>5, <3>1, <3>2, SeqEqual
  <2> QED
    BY <2>1, <2>2, <2>4, <2>6, <2>7
<1> QED
  BY <1>2, <1>3

\* What was escaped is read as it was.
LEMMA Unescaped ==
  ASSUME NEW s \in Seq(Letter), \A i \in 1..Len(s) : s[i] \notin Escapes
  PROVE  decodeGrpcMessage(encodeGrpcMessage(s)) = s
<1>1. DOMAIN s = 1..Len(s) /\ s = [i \in DOMAIN s |-> s[i]]
  OBVIOUS
<1> DEFINE esc(x) == CASE x = "%" -> "%25"
                       [] x = "CRLF" -> "%0D%0A"
                       [] x = "uni" -> "%C3%A9"
                       [] OTHER -> x
           dec(x) == CASE x = "%25" -> "%"
                       [] x = "%0D%0A" -> "CRLF"
                       [] x = "%C3%A9" -> "uni"
                       [] OTHER -> x
<1>2. \A x : x \notin Escapes => dec(esc(x)) = x
  BY DEF Escapes
<1>3. encodeGrpcMessage(s) = [i \in DOMAIN s |-> esc(s[i])]
  BY DEF encodeGrpcMessage
<1>4. DOMAIN encodeGrpcMessage(s) = DOMAIN s /\ \A i \in DOMAIN s : encodeGrpcMessage(s)[i] = esc(s[i])
  BY <1>3
<1>5. decodeGrpcMessage(encodeGrpcMessage(s)) = [i \in DOMAIN s |-> dec(encodeGrpcMessage(s)[i])]
  BY <1>4 DEF decodeGrpcMessage
<1> HIDE DEF esc, dec
<1>6. \A i \in DOMAIN s : dec(encodeGrpcMessage(s)[i]) = s[i]
  BY <1>1, <1>2, <1>4
<1> QED
  BY <1>1, <1>5, <1>6

-----------------------------------------------------------------------------
(* Lines *)

\* After place a of a text stands a line of name n, with the escaped value e.
LineAt(s, a, n, e) ==
  /\ a \in Nat /\ e \in Seq(Letter) /\ n \notin {"SP", ":", "CRLF"}
  /\ a + Len(e) + 4 <= Len(s)
  /\ s[a + 1] = n /\ s[a + 2] = ":" /\ s[a + 3] = "SP"
  /\ \A i \in 1..Len(e) : s[a + 3 + i] = e[i] /\ e[i] # "CRLF"
  /\ s[a + Len(e) + 4] = "CRLF"

\* A line ends at its end only.
LEMMA NoBreakInside ==
  ASSUME NEW s \in Seq(Letter), NEW a, NEW n, NEW e, LineAt(s, a, n, e)
  PROVE  \A j \in (a + 1)..(a + Len(e) + 3) : s[j] # "CRLF"
<1>1. SUFFICES ASSUME NEW j \in (a + 1)..(a + Len(e) + 3) PROVE s[j] # "CRLF"
  OBVIOUS
<1>2. a \in Nat /\ Len(e) \in Nat
  BY DEF LineAt
<1>3. CASE j <= a + 3
  <2>1. j \in {a + 1, a + 2, a + 3}
    BY <1>2, <1>3
  <2> QED
    BY <2>1 DEF LineAt
<1>4. CASE j > a + 3
  <2>1. j - (a + 3) \in 1..Len(e) /\ a + 3 + (j - (a + 3)) = j
    BY <1>2, <1>4
  <2> QED
    BY <2>1 DEF LineAt
<1> QED
  BY <1>2, <1>3, <1>4

\* A single word is what trim leaves of it.
LEMMA TrimWord ==
  ASSUME NEW w \in Seq(Letter), Len(w) = 1, w[1] # "SP"
  PROVE  Trim(w) = <<w[1]>>
<1>1. w = <<w[1]>> /\ DOMAIN w = {1}
  OBVIOUS
<1>2. Solid(w) = {1}
  BY <1>1 DEF Solid
<1>3. Trim(w) = SubSeq(w, 1, 1)
  <2>1. 1 \in Solid(w) /\ \A i \in Solid(w) : 1 <= i /\ i <= 1
    BY <1>2
  <2> QED
    BY <2>1, TrimIs
<1>4. SubSeq(w, 1, 1) = w
  BY SubSeqFull
<1> QED
  BY <1>1, <1>3, <1>4

\* A line is found under its name and under no other.
LEMMA NameOfLine ==
  ASSUME NEW s \in Seq(Letter), NEW a, NEW n, NEW e, LineAt(s, a, n, e),
         a = 0 \/ s[a] = "CRLF", NEW name
  PROVE  a + 1 \in LineStarts(s, name) <=> name = n
<1>1. a \in Nat /\ Len(e) \in Nat /\ Len(s) \in Nat /\ a + 4 <= Len(s) /\ DOMAIN s = 1..Len(s)
  BY DEF LineAt
<1>2. s[a + 1] = n /\ s[a + 2] = ":" /\ n \notin {"SP", ":", "CRLF"}
  BY DEF LineAt
<1>3. Trim(SubSeq(s, a + 1, a + 1)) = <<n>>
  <2> DEFINE w == SubSeq(s, a + 1, a + 1)
  <2>1. a + 1 \in 1..Len(s) + 1 /\ a + 1 \in ((a + 1) - 1)..Len(s)
    BY <1>1
  <2>2. /\ w \in Seq(Letter) /\ Len(w) = (a + 1) - (a + 1) + 1
        /\ \A i \in 1..((a + 1) - (a + 1) + 1) : w[i] = s[(a + 1) + i - 1]
    BY <2>1, Slice
  <2>3. Len(w) = 1 /\ w[1] = n
    BY <1>1, <1>2, <2>2
  <2> HIDE DEF w
  <2>4. Trim(w) = <<n>>
    BY <1>2, <2>2, <2>3, TrimWord
  <2> QED
    BY <2>4 DEF w
<1>4. ASSUME NEW j \in (a + 2)..Len(s), s[j] = ":",
             \A k \in (a + 1)..(j - 1) : s[k] \notin {":", "CRLF"}
      PROVE  j = a + 2
  BY <1>1, <1>2, <1>4
<1>5. ASSUME a + 1 \in LineStarts(s, name) PROVE name = n
  <2>1. PICK j \in (a + 1 + 1)..Len(s) :
           /\ s[j] = ":"
           /\ \A k \in (a + 1)..(j - 1) : s[k] \notin {":", "CRLF"}
           /\ Trim(SubSeq(s, a + 1, j - 1)) = <<name>>
    BY <1>5 DEF LineStarts
  <2>2. j = a + 2
    BY <1>1, <1>4, <2>1
  <2>3. j - 1 = a + 1
    BY <1>1, <2>2
  <2> QED
    BY <1>3, <2>1, <2>3
<1>6. ASSUME name = n PROVE a + 1 \in LineStarts(s, name)
  <2>1. /\ a + 1 \in DOMAIN s /\ (a + 1 = 1 \/ s[(a + 1) - 1] = "CRLF")
        /\ a + 2 \in (a + 1 + 1)..Len(s) /\ (a + 2) - 1 = a + 1
    BY <1>1
  <2>2. \A k \in (a + 1)..((a + 2) - 1) : s[k] \notin {":", "CRLF"}
    BY <1>1, <1>2
  <2> QED
    BY <1>2, <1>3, <1>6, <2>1, <2>2 DEF LineStarts
<1> QED
  BY <1>5, <1>6

\* The value of the only line of a name is read without its blanks.
LEMMA ReadLine ==
  ASSUME NEW s \in Seq(Letter), NEW a, NEW n, NEW e, LineAt(s, a, n, e),
         NEW name, LineStarts(s, name) = {a + 1}
  PROVE  decodeTrailers(s, name) = <<Trim(e)>>
<1> DEFINE end == a + Len(e) + 4
           ends == {j \in (a + 1)..Len(s) : s[j] = "CRLF"}
           colons == {j \in (a + 1)..(end - 1) : s[j] = ":"}
<1>1. a \in Nat /\ Len(e) \in Nat /\ Len(s) \in Nat /\ end <= Len(s) /\ e \in Seq(Letter)
  BY DEF LineAt
<1>2. Max({a + 1}) = a + 1
  BY <1>1 DEF Max
<1>3. Min(ends) = end
  <2>1. end \in ends
    BY <1>1 DEF LineAt
  <2>2. \A j \in ends : end <= j
    BY <1>1, NoBreakInside
  <2>3. \A j \in ends : j \in Nat
    BY <1>1
  <2>4. \A m \in ends : (\A j \in ends : m <= j) => m = end
    BY <1>1, <2>1, <2>2, <2>3
  <2> HIDE DEF ends
  <2> QED
    BY <2>1, <2>2, <2>4 DEF Min
<1>4. Min(colons) = a + 2
  <2>1. a + 2 \in colons /\ a + 1 \notin colons
    BY <1>1 DEF LineAt
  <2>2. \A j \in colons : a + 2 <= j
    BY <1>1, <2>1
  <2>3. \A m \in colons : (\A j \in colons : m <= j) => m = a + 2
    BY <1>1, <2>1, <2>2
  <2> HIDE DEF colons
  <2> QED
    BY <2>1, <2>2, <2>3 DEF Min
<1>5. ends # {}
  BY <1>1 DEF LineAt
<1> HIDE DEF ends, colons
<1> DEFINE p == (a + 2) + 1
           q == end - 1
           w == SubSeq(s, p, q)
<1>6. decodeTrailers(s, name) = <<Trim(w)>>
  <2>1. LineStarts(s, name) # {} /\ Max(LineStarts(s, name)) = a + 1
    BY <1>2
  <2> QED
    BY <1>3, <1>4, <1>5, <2>1 DEF decodeTrailers, ends, colons
<1>7. Trim(w) = Trim(e)
  <2>1. p \in 1..Len(s) + 1 /\ q \in (p - 1)..Len(s) /\ q - p + 1 = Len(e) + 1
    BY <1>1
  <2>2. p = a + 3
    BY <1>1
  <2> HIDE DEF p, q
  <2>3. /\ w \in Seq(Letter) /\ Len(w) = q - p + 1
        /\ \A i \in 1..(q - p + 1) : w[i] = s[p + i - 1]
    BY <2>1, Slice
  <2>4. Len(w) = Len(e) + 1 /\ w[1] = "SP"
    <3>1. 1 \in 1..(Len(e) + 1) /\ p + 1 - 1 = a + 3
      BY <1>1, <2>2
    <3> QED
      BY <2>1, <2>3, <3>1 DEF LineAt
  <2>5. ASSUME NEW i \in 1..Len(e) PROVE w[i + 1] = e[i]
    <3>1. i + 1 \in 1..(Len(e) + 1) /\ p + (i + 1) - 1 = a + 3 + i
      BY <1>1, <2>2
    <3>2. w[i + 1] = s[a + 3 + i]
      BY <2>1, <2>3, <3>1
    <3> QED
      BY <3>2 DEF LineAt
  <2> HIDE DEF w
  <2> QED
    BY <1>1, <2>3, <2>4, <2>5, TrimAhead
<1> QED
  BY <1>6, <1>7

\* Lines begin at the front of a text and after its breaks.
LEMMA LinesFollowBreaks ==
  ASSUME NEW s \in Seq(Letter), NEW B,
         \A j \in 1..Len(s) : s[j] = "CRLF" => j \in B,
         NEW name, NEW i \in LineStarts(s, name)
  PROVE  i \in 1..Len(s) /\ (i = 1 \/ (i - 1 \in B /\ s[i - 1] = "CRLF"))
<1>1. i \in 1..Len(s) /\ (i = 1 \/ s[i - 1] = "CRLF")
  BY DEF LineStarts
<1>2. i # 1 => i - 1 \in 1..Len(s)
  BY <1>1
<1> QED
  BY <1>1, <1>2

-----------------------------------------------------------------------------
(* Trailer frames *)

\* What a server may end a call with.
Trailers ==
  [status : Statuses, message : Seq(Tokens), name : TrailerNames, value : TrailerValues]

\* A line as it is written.
LEMMA WrittenLine ==
  ASSUME NEW n \in Letter, NEW v \in Seq(Letter)
  PROVE  /\ Line(n, v) \in Seq(Letter)
         /\ Len(Line(n, v)) = Len(v) + 4
         /\ Line(n, v)[1] = n /\ Line(n, v)[2] = ":" /\ Line(n, v)[3] = "SP"
         /\ \A i \in 1..Len(v) : Line(n, v)[3 + i] = encodeGrpcMessage(v)[i]
         /\ Line(n, v)[Len(v) + 4] = "CRLF"
<1> DEFINE h == <<n, ":", "SP">>
           e == encodeGrpcMessage(v)
           c == <<"CRLF">>
<1>1. e \in Seq(Letter) /\ Len(e) = Len(v) /\ Len(v) \in Nat
  BY Escaped
<1>2. /\ h \in Seq(Letter) /\ Len(h) = 3 /\ h[1] = n /\ h[2] = ":" /\ h[3] = "SP"
      /\ c \in Seq(Letter) /\ Len(c) = 1 /\ c[1] = "CRLF"
  BY DEF Letter
<1>3. Line(n, v) = (h \o e) \o c
  BY DEF Line
<1> HIDE DEF h, e, c
<1> DEFINE he == h \o e
           l == Len(v)
<1>4. /\ he \in Seq(Letter) /\ Len(he) = 3 + l
      /\ \A i \in 1..3 : he[i] = h[i]
      /\ \A i \in 1..l : he[3 + i] = e[i]
  <2> DEFINE k == 3
  <2>1. h \in Seq(Letter) /\ e \in Seq(Letter) /\ Len(h) = k /\ Len(e) = l /\ k \in Nat /\ l \in Nat
    BY <1>1, <1>2
  <2> HIDE DEF k, l
  <2>2. he \in Seq(Letter) /\ Len(he) = k + l
    BY <2>1
  <2>3. \A i \in 1..k : he[i] = h[i]
    BY <2>1
  <2>4. \A i \in 1..l : he[k + i] = e[i]
    BY <2>1
  <2> QED
    BY <2>2, <2>3, <2>4 DEF k
<1> HIDE DEF he
<1>5. /\ he \o c \in Seq(Letter) /\ Len(he \o c) = l + 4
      /\ \A i \in 1..(l + 3) : (he \o c)[i] = he[i]
      /\ (he \o c)[l + 4] = "CRLF"
  <2> DEFINE m == 3 + l
             k == 1
  <2>1. he \in Seq(Letter) /\ Len(he) = m /\ c \in Seq(Letter) /\ Len(c) = k /\ m \in Nat /\ k \in Nat
    BY <1>1, <1>2, <1>4
  <2> HIDE DEF m, k
  <2>2. he \o c \in Seq(Letter) /\ Len(he \o c) = m + k
    BY <2>1
  <2>3. \A i \in 1..m : (he \o c)[i] = he[i]
    BY <2>1
  <2>4. \A i \in 1..k : (he \o c)[m + i] = c[i]
    BY <2>1
  <2>5. m = l + 3 /\ m + k = l + 4 /\ 1 \in 1..k /\ m + 1 = l + 4
    BY <1>1 DEF m, k
  <2>6. (he \o c)[m + 1] = c[1]
    BY <2>4, <2>5
  <2> QED
    BY <1>2, <2>2, <2>3, <2>5, <2>6
<1>6. \A i \in 1..3 : i \in 1..(Len(v) + 3) /\ (he \o c)[i] = h[i]
  BY <1>1, <1>4, <1>5 DEF he
<1>7. ASSUME NEW i \in 1..Len(v) PROVE (he \o c)[3 + i] = e[i]
  <2>1. 3 + i \in 1..(Len(v) + 3)
    BY <1>1
  <2> QED
    BY <1>4, <1>5, <2>1 DEF he
<1>8. Line(n, v) = he \o c
  BY <1>3 DEF he
<1> QED
  BY <1>2, <1>5, <1>6, <1>7, <1>8 DEF e

\* A line inside a text.
LEMMA LineInside ==
  ASSUME NEW n \in Letter \ {"SP", ":", "CRLF"}, NEW v \in Seq(Letter),
         NEW s \in Seq(Letter), NEW a \in Nat, a + Len(v) + 4 <= Len(s),
         \A i \in 1..(Len(v) + 4) : s[a + i] = Line(n, v)[i]
  PROVE  LineAt(s, a, n, encodeGrpcMessage(v))
<1> DEFINE e == encodeGrpcMessage(v)
<1>1. e \in Seq(Letter) /\ Len(e) = Len(v) /\ Len(v) \in Nat /\ \A i \in 1..Len(v) : e[i] # "CRLF"
  BY Escaped
<1>2. s[a + 1] = n /\ s[a + 2] = ":" /\ s[a + 3] = "SP"
  <2>1. \A i \in {1, 2, 3} : s[a + i] = Line(n, v)[i]
    BY <1>1
  <2>2. Line(n, v)[1] = n /\ Line(n, v)[2] = ":" /\ Line(n, v)[3] = "SP"
    BY WrittenLine
  <2> QED
    BY <2>1, <2>2
<1>3. ASSUME NEW i \in 1..Len(v) PROVE s[a + 3 + i] = e[i]
  <2>1. 3 + i \in 1..(Len(v) + 4) /\ a + (3 + i) = a + 3 + i
    BY <1>1
  <2>2. s[a + 3 + i] = Line(n, v)[3 + i]
    BY <2>1
  <2> QED
    BY <2>2, WrittenLine
<1>4. s[a + Len(v) + 4] = "CRLF"
  <2>1. Len(v) + 4 \in 1..(Len(v) + 4) /\ a + (Len(v) + 4) = a + Len(v) + 4
    BY <1>1
  <2>2. s[a + Len(v) + 4] = Line(n, v)[Len(v) + 4]
    BY <2>1
  <2> QED
    BY <2>2, WrittenLine
<1> HIDE DEF e
<1>5. LineAt(s, a, n, e)
  BY <1>1, <1>2, <1>3, <1>4 DEF LineAt
<1> QED
  BY <1>5 DEF e

\* The status line, the message line and perhaps one more make up a frame.
LEMMA FrameLines ==
  ASSUME NEW t \in Trailers
  PROVE  LET F == trailerFrame(t)
             a == 5
             b == a + Len(t.message) + 4
         IN /\ F \in Seq(Letter) /\ Len(F) >= b
            /\ LineAt(F, 0, STATUS, encodeGrpcMessage(<<t.status>>))
            /\ LineAt(F, a, MESSAGE, encodeGrpcMessage(t.message))
            /\ IF t.name \in {STATUS, MESSAGE} \/ t.value = Binary THEN Len(F) = b
               ELSE /\ LineAt(F, b, t.name, encodeGrpcMessage(t.value))
                    /\ Len(F) = b + Len(t.value) + 4
<1> DEFINE F == trailerFrame(t)
           a == 5
           b == a + Len(t.message) + 4
           st == Line(STATUS, <<t.status>>)
           me == Line(MESSAGE, t.message)
           none == t.name \in {STATUS, MESSAGE} \/ t.value = Binary
           md == IF none THEN <<>> ELSE Line(t.name, t.value)
<1>1. /\ <<t.status>> \in Seq(Letter) /\ Len(<<t.status>>) = 1
      /\ t.message \in Seq(Letter) /\ Len(t.message) \in Nat
      /\ STATUS \in Letter \ {"SP", ":", "CRLF"} /\ MESSAGE \in Letter \ {"SP", ":", "CRLF"}
      /\ t.name \in Letter \ {"SP", ":", "CRLF"}
  <2>1. t.status \in Letter /\ t.name \in Letter /\ t.message \in Seq(Tokens) /\ t.name \in TrailerNames
    BY DEF Trailers, Letter
  <2>2. Tokens \subseteq Letter
    BY DEF Letter
  <2>3. t.message \in Seq(Letter)
    BY <2>1, <2>2, SeqMonotonic
  <2>4. t.name \notin {"SP", ":", "CRLF"}
    BY <2>1, TrailerTextAssumption
  <2> QED
    BY <2>1, <2>3, <2>4 DEF Letter, STATUS, MESSAGE
<1>2. ASSUME ~none PROVE t.value \in Seq(Letter) /\ Len(t.value) \in Nat
  <2>1. t.value \in Seq(Tokens)
    BY <1>2, TrailerTextAssumption DEF Trailers
  <2>2. Tokens \subseteq Letter
    BY DEF Letter
  <2> QED
    BY <2>1, <2>2, SeqMonotonic
<1>3. F = (st \o me) \o md
  BY DEF trailerFrame, trailerRecord
<1> HIDE DEF F, st, me, md, none
<1>4. st \in Seq(Letter) /\ Len(st) = 5
  <2> DEFINE v == <<t.status>>
  <2>0. v \in Seq(Letter) /\ STATUS \in Letter
    BY <1>1
  <2> HIDE DEF v
  <2>2. Line(STATUS, v) \in Seq(Letter) /\ Len(Line(STATUS, v)) = Len(v) + 4
    BY <2>0, WrittenLine
  <2>1. Line(STATUS, <<t.status>>) \in Seq(Letter) /\ Len(Line(STATUS, <<t.status>>)) = Len(<<t.status>>) + 4
    BY <2>2 DEF v
  <2> QED
    BY <1>1, <2>1 DEF st
<1>5. me \in Seq(Letter) /\ Len(me) = Len(t.message) + 4
  <2>1. MESSAGE \in Letter /\ t.message \in Seq(Letter)
    BY <1>1
  <2>2. Line(MESSAGE, t.message) \in Seq(Letter) /\ Len(Line(MESSAGE, t.message)) = Len(t.message) + 4
    BY <2>1, WrittenLine
  <2> QED
    BY <2>2 DEF me
<1> DEFINE l == Len(t.message) + 4
<1>6. st \in Seq(Letter) /\ me \in Seq(Letter) /\ Len(me) = l /\ l \in Nat /\ 5 \in Nat
  BY <1>1, <1>4, <1>5
<1> HIDE DEF l
<1> DEFINE sm == st \o me
<1>7. /\ sm \in Seq(Letter) /\ Len(sm) = 5 + l
      /\ \A i \in 1..5 : sm[i] = st[i]
      /\ \A i \in 1..l : sm[5 + i] = me[i]
  <2> DEFINE k == 5
  <2>1. st \in Seq(Letter) /\ me \in Seq(Letter) /\ Len(st) = k /\ Len(me) = l /\ k \in Nat /\ l \in Nat
    BY <1>4, <1>6
  <2> HIDE DEF k
  <2>2. sm \in Seq(Letter) /\ Len(sm) = k + l
    BY <2>1
  <2>3. \A i \in 1..k : sm[i] = st[i]
    BY <2>1
  <2>4. \A i \in 1..l : sm[k + i] = me[i]
    BY <2>1
  <2> QED
    BY <2>2, <2>3, <2>4 DEF k
<1> HIDE DEF sm
<1>8. F = sm \o md
  BY <1>3 DEF sm
<1>9. /\ md \in Seq(Letter) /\ Len(md) \in Nat
      /\ none => Len(md) = 0
      /\ ~none => md = Line(t.name, t.value) /\ Len(md) = Len(t.value) + 4
  <2>1. CASE none
    BY <2>1 DEF md
  <2>2. CASE ~none
    <3>1. t.name \in Letter /\ t.value \in Seq(Letter) /\ md = Line(t.name, t.value)
      BY <1>1, <1>2, <2>2 DEF md
    <3> QED
      BY <3>1, <2>2, WrittenLine
  <2> QED
    BY <2>1, <2>2
<1> DEFINE k == Len(md)
           m == 5 + l
<1>10. m \in Nat /\ k \in Nat /\ Len(sm) = m /\ Len(md) = k
  BY <1>6, <1>7, <1>9
<1>11. m = 9 + Len(t.message) /\ b = m /\ l = Len(t.message) + 4
  BY <1>1 DEF l
<1> HIDE DEF k, m
<1>12. /\ F \in Seq(Letter) /\ Len(F) = m + k
       /\ \A i \in 1..m : F[i] = sm[i]
       /\ \A i \in 1..k : F[m + i] = md[i]
  <2>1. sm \in Seq(Letter) /\ md \in Seq(Letter)
    BY <1>7, <1>9
  <2>2. sm \o md \in Seq(Letter) /\ Len(sm \o md) = m + k
    BY <1>10, <2>1
  <2>3. \A i \in 1..m : (sm \o md)[i] = sm[i]
    BY <1>10, <2>1
  <2>4. \A i \in 1..k : (sm \o md)[m + i] = md[i]
    BY <1>10, <2>1
  <2> QED
    BY <1>8, <2>2, <2>3, <2>4
<1>13. LineAt(F, 0, STATUS, encodeGrpcMessage(<<t.status>>))
  <2>1. \A i \in 1..5 : F[i] = st[i]
    <3>1. \A i \in 1..5 : i \in 1..m
      BY <1>1, <1>11
    <3> QED
      BY <1>7, <1>12, <3>1
  <2>2. \A i \in 1..5 : 0 + i = i
    OBVIOUS
  <2>3. \A i \in 1..5 : F[0 + i] = Line(STATUS, <<t.status>>)[i]
    BY <2>1, <2>2 DEF st
  <2>4. 0 + Len(<<t.status>>) + 4 <= Len(F) /\ Len(<<t.status>>) + 4 = 5
    BY <1>1, <1>10, <1>11, <1>12
  <2> QED
    BY <1>1, <1>12, <2>3, <2>4, LineInside
<1>14. LineAt(F, 5, MESSAGE, encodeGrpcMessage(t.message))
  <2>1. ASSUME NEW i \in 1..l PROVE F[5 + i] = me[i]
    <3>1. 5 + i \in 1..m
      BY <1>6, <1>11
    <3> QED
      BY <1>7, <1>12, <3>1
  <2>2. 5 + Len(t.message) + 4 <= Len(F)
    BY <1>1, <1>10, <1>11, <1>12
  <2>3. \A i \in 1..(Len(t.message) + 4) : F[5 + i] = Line(MESSAGE, t.message)[i]
    BY <1>11, <2>1 DEF me
  <2> QED
    BY <1>1, <1>12, <2>2, <2>3, LineInside
<1>15. ASSUME ~none
       PROVE  LineAt(F, b, t.name, encodeGrpcMessage(t.value)) /\ Len(F) = b + Len(t.value) + 4
  <2>1. Len(F) = b + Len(t.value) + 4 /\ b \in Nat
    <3>1. k = Len(t.value) + 4
      BY <1>9, <1>15 DEF k
    <3>2. Len(t.value) \in Nat
      BY <1>2, <1>15
    <3>3. b = m /\ m \in Nat /\ Len(F) = m + k
      BY <1>10, <1>11, <1>12
    <3> HIDE DEF b
    <3> QED
      BY <3>1, <3>2, <3>3
  <2>2. \A i \in 1..(Len(t.value) + 4) : F[b + i] = Line(t.name, t.value)[i]
    BY <1>9, <1>10, <1>11, <1>12, <1>15
  <2> HIDE DEF b
  <2>3. b + Len(t.value) + 4 <= Len(F)
    BY <1>2, <1>15, <2>1
  <2> QED
    BY <1>1, <1>2, <1>12, <1>15, <2>1, <2>2, <2>3, LineInside
<1>16. none => Len(F) = b
  BY <1>9, <1>10, <1>11, <1>12
<1>17. Len(F) >= b
  BY <1>10, <1>11, <1>12
<1> QED
  BY <1>12, <1>13, <1>14, <1>15, <1>16, <1>17 DEF F, none

\* The lines of a frame begin where it was written that they do.
LEMMA FrameStarts ==
  ASSUME NEW t \in Trailers
  PROVE  LET F == trailerFrame(t)
             b == Len(t.message) + 9
         IN /\ F \in Seq(Letter) /\ b \in Nat
            /\ LineStarts(F, STATUS) = {0 + 1} /\ LineStarts(F, MESSAGE) = {5 + 1}
            /\ LineAt(F, 0, STATUS, encodeGrpcMessage(<<t.status>>))
            /\ LineAt(F, 5, MESSAGE, encodeGrpcMessage(t.message))
            /\ t.name \notin {STATUS, MESSAGE} =>
                 IF t.value = Binary THEN LineStarts(F, t.name) = {}
                 ELSE /\ LineStarts(F, t.name) = {b + 1}
                      /\ LineAt(F, b, t.name, encodeGrpcMessage(t.value))
<1> DEFINE F == trailerFrame(t)
           b == Len(t.message) + 9
           l == Len(F)
           e0 == encodeGrpcMessage(<<t.status>>)
           e1 == encodeGrpcMessage(t.message)
           e2 == encodeGrpcMessage(t.value)
           none == t.name \in {STATUS, MESSAGE} \/ t.value = Binary
           B == {5, b, l}
<1>1. t.message \in Seq(Letter) /\ <<t.status>> \in Seq(Letter) /\ Len(<<t.status>>) = 1
  <2>1. t.status \in Letter /\ t.message \in Seq(Tokens) /\ Tokens \subseteq Letter
    BY DEF Trailers, Letter
  <2> QED
    BY <2>1, SeqMonotonic
<1>2. Len(e0) = 1 /\ Len(e1) = Len(t.message) /\ Len(t.message) \in Nat
  <2> DEFINE w == <<t.status>>
  <2>1. w \in Seq(Letter) /\ Len(w) = 1 /\ t.message \in Seq(Letter)
    BY <1>1
  <2> HIDE DEF w
  <2>2. Len(encodeGrpcMessage(w)) = 1 /\ Len(encodeGrpcMessage(t.message)) = Len(t.message)
    BY <2>1, Escaped
  <2> QED
    BY <2>1, <2>2 DEF w
<1>3. ~none => Len(e2) = Len(t.value) /\ Len(t.value) \in Nat
  <2>1. ASSUME ~none PROVE t.value \in Seq(Letter)
    <3>1. t.value \in Seq(Tokens) /\ Tokens \subseteq Letter
      BY <2>1, TrailerTextAssumption DEF Trailers, Letter
    <3> QED
      BY <3>1, SeqMonotonic
  <2> QED
    BY <2>1, Escaped
<1>4. b = 5 + Len(t.message) + 4 /\ b \in Nat
  BY <1>2
<1>5. F \in Seq(Letter) /\ LineAt(F, 0, STATUS, e0) /\ LineAt(F, 5, MESSAGE, e1)
  BY FrameLines
<1>6. none => l = b
  BY <1>4, FrameLines
<1>7. ~none => LineAt(F, b, t.name, e2) /\ l = b + Len(t.value) + 4
  BY <1>4, FrameLines
<1> HIDE DEF F, e0, e1, e2, none, b
<1>8. l \in Nat /\ DOMAIN F = 1..l
  BY <1>5
<1>9. F[5] = "CRLF" /\ F[b] = "CRLF"
  <2>1. 0 + Len(e0) + 4 = 5 /\ 5 + Len(e1) + 4 = b
    BY <1>2, <1>4
  <2>2. F[0 + Len(e0) + 4] = "CRLF" /\ F[5 + Len(e1) + 4] = "CRLF"
    BY <1>5 DEF LineAt
  <2> QED
    BY <2>1, <2>2
<1>10. ASSUME NEW j \in 1..l, F[j] = "CRLF" PROVE j \in B
  <2>1. \A k \in (0 + 1)..(0 + Len(e0) + 3) : F[k] # "CRLF"
    BY <1>5, NoBreakInside
  <2>2. \A k \in (5 + 1)..(5 + Len(e1) + 3) : F[k] # "CRLF"
    BY <1>5, NoBreakInside
  <2>3. ~none => \A k \in (b + 1)..(b + Len(e2) + 3) : F[k] # "CRLF"
    BY <1>5, <1>7, NoBreakInside
  <2>4. j >= 5
    BY <1>2, <1>10, <2>1
  <2>5. j = 5 \/ j >= b
    BY <1>2, <1>4, <1>10, <2>2, <2>4
  <2> HIDE DEF l
  <2>6. ASSUME none PROVE j = 5 \/ j = b
    BY <1>4, <1>6, <1>8, <2>5, <2>6
  <2>7. ASSUME ~none, j # b PROVE j = 5 \/ j = l
    <3>1. j <= l /\ l = b + Len(e2) + 4 /\ Len(e2) \in Nat
      BY <1>3, <1>7, <1>8, <2>7
    <3>2. j >= b + 1 => j > b + Len(e2) + 3
      BY <1>4, <1>10, <2>3, <2>7, <3>1
    <3>3. j \in Nat /\ b \in Nat
      BY <1>4, <1>8
    <3> QED
      BY <2>5, <2>7, <3>1, <3>2, <3>3
  <2> QED
    BY <2>6, <2>7
<1>11. ASSUME NEW name, NEW i \in LineStarts(F, name)
       PROVE  i = 0 + 1 \/ i = 5 + 1 \/ (i = b + 1 /\ ~none)
  <2>1. i \in 1..l /\ (i = 1 \/ i - 1 \in B)
    BY <1>5, <1>10, LinesFollowBreaks
  <2>2. i - 1 = l => FALSE
    BY <1>8, <2>1
  <2>3. none => i - 1 # b
    BY <1>6, <2>2
  <2> QED
    BY <1>4, <1>8, <2>1, <2>2, <2>3
<1>12. ASSUME NEW name PROVE (0 + 1 \in LineStarts(F, name) <=> name = STATUS)
  BY <1>5, NameOfLine
<1>13. ASSUME NEW name PROVE (5 + 1 \in LineStarts(F, name) <=> name = MESSAGE)
  BY <1>5, <1>9, NameOfLine
<1>14. ASSUME ~none, NEW name PROVE (b + 1 \in LineStarts(F, name) <=> name = t.name)
  BY <1>5, <1>7, <1>9, <1>14, NameOfLine
<1>15. STATUS # MESSAGE /\ (~none => t.name \notin {STATUS, MESSAGE})
  BY DEF STATUS, MESSAGE, none
<1>16. LineStarts(F, STATUS) = {0 + 1}
  BY <1>11, <1>12, <1>13, <1>14, <1>15
<1>17. LineStarts(F, MESSAGE) = {5 + 1}
  BY <1>11, <1>12, <1>13, <1>14, <1>15
<1>18. ASSUME t.name \notin {STATUS, MESSAGE}, none PROVE LineStarts(F, t.name) = {}
  BY <1>11, <1>12, <1>13, <1>18
<1>19. ASSUME ~none PROVE LineStarts(F, t.name) = {b + 1}
  BY <1>11, <1>12, <1>13, <1>14, <1>15, <1>19
<1>20. t.name \notin {STATUS, MESSAGE} => (none <=> t.value = Binary)
  BY DEF none
<1> QED
  BY <1>4, <1>5, <1>7, <1>16, <1>17, <1>18, <1>19, <1>20 DEF F, b, e0, e1, e2

\* What a frame says is read: the status, the message without its blanks, and
\* metadata that is text.
LEMMA FrameRead ==
  ASSUME NEW t \in Trailers
  PROVE  LET F == trailerFrame(t) IN
         /\ decodeTrailers(F, STATUS) = <<<<t.status>>>>
         /\ decodeTrailers(F, MESSAGE) = <<encodeGrpcMessage(Trim(t.message))>>
         /\ t.name \notin {STATUS, MESSAGE} =>
              decodeTrailers(F, t.name)
                = IF t.value = Binary THEN <<>> ELSE <<encodeGrpcMessage(Trim(t.value))>>
<1> DEFINE F == trailerFrame(t)
           b == Len(t.message) + 9
           w == <<t.status>>
<1>1. /\ F \in Seq(Letter) /\ b \in Nat
      /\ LineStarts(F, STATUS) = {0 + 1} /\ LineStarts(F, MESSAGE) = {5 + 1}
      /\ LineAt(F, 0, STATUS, encodeGrpcMessage(w))
      /\ LineAt(F, 5, MESSAGE, encodeGrpcMessage(t.message))
      /\ t.name \notin {STATUS, MESSAGE} =>
           IF t.value = Binary THEN LineStarts(F, t.name) = {}
           ELSE /\ LineStarts(F, t.name) = {b + 1}
                /\ LineAt(F, b, t.name, encodeGrpcMessage(t.value))
  BY FrameStarts
<1>2. w \in Seq(Letter) /\ t.message \in Seq(Letter) /\ Tokens \subseteq Letter
  <2>1. t.status \in Letter /\ t.message \in Seq(Tokens) /\ Tokens \subseteq Letter
    BY DEF Trailers, Letter
  <2> QED
    BY <2>1, SeqMonotonic
<1> HIDE DEF F, b
<1>3. Trim(encodeGrpcMessage(w)) = w
  <2>1. t.status \in Statuses
    BY DEF Trailers
  <2>2. t.status \notin {"SP", "%", "CRLF", "uni"}
    BY <2>1, TrailerTextAssumption
  <2>3. encodeGrpcMessage(w) = w
    BY <2>2 DEF encodeGrpcMessage
  <2>4. Trim(w) = <<w[1]>>
    BY <1>2, <2>2, TrimWord
  <2> QED
    BY <2>3, <2>4
<1>4. decodeTrailers(F, STATUS) = <<w>>
  BY <1>1, <1>3, ReadLine
<1>5. decodeTrailers(F, MESSAGE) = <<encodeGrpcMessage(Trim(t.message))>>
  <2>1. decodeTrailers(F, MESSAGE) = <<Trim(encodeGrpcMessage(t.message))>>
    BY <1>1, ReadLine
  <2> QED
    BY <1>2, <2>1, TrimEscaped
<1>6. ASSUME t.name \notin {STATUS, MESSAGE}, t.value = Binary
      PROVE  decodeTrailers(F, t.name) = <<>>
  BY <1>1, <1>6 DEF decodeTrailers
<1>7. ASSUME t.name \notin {STATUS, MESSAGE}, t.value # Binary
      PROVE  decodeTrailers(F, t.name) = <<encodeGrpcMessage(Trim(t.value))>>
  <2>1. decodeTrailers(F, t.name) = <<Trim(encodeGrpcMessage(t.value))>>
    BY <1>1, <1>7, ReadLine
  <2>2. t.value \in Seq(Tokens)
    BY <1>7, TrailerTextAssumption DEF Trailers
  <2>3. t.value \in Seq(Letter)
    BY <1>2, <2>2, SeqMonotonic
  <2> QED
    BY <2>1, <2>3, TrimEscaped
<1> QED
  BY <1>4, <1>5, <1>6, <1>7 DEF F

-----------------------------------------------------------------------------
(* The trailers of a call *)

\* What the reader is told: the frame of some trailers, or nothing yet.
TrailerInv ==
  \/ text = <<>> /\ heard = Unread
  \/ told \in Trailers /\ text = trailerFrame(told) /\ heard \in {Unread, Decode(text)}

LEMMA TrailerInit == InitTrailer => TrailerInv
BY DEF InitTrailer, TrailerInv

LEMMA TrailerStep == TrailerInv /\ [TrailerNext]_trailer => TrailerInv'
<1>1. SUFFICES ASSUME TrailerInv, [TrailerNext]_trailer PROVE TrailerInv'
  OBVIOUS
<1>2. CASE Tell
  <2>1. Words \subseteq Seq(Tokens)
    BY DEF Words
  <2>2. told' \in Trailers
    BY <1>2, <2>1 DEF Tell, Trailers
  <2>3. text = <<>> /\ heard = Unread /\ heard' = heard /\ text' = trailerFrame(told')
    <3>1. text = <<>>
      BY <1>2 DEF Tell
    <3>2. told \in Trailers /\ text = trailerFrame(told) => FALSE
      <4>1. ASSUME told \in Trailers, text = trailerFrame(told) PROVE FALSE
        <5>1. LineAt(text, 0, STATUS, encodeGrpcMessage(<<told.status>>))
          BY <4>1, FrameStarts
        <5>2. Len(text) >= 4
          BY <5>1 DEF LineAt
        <5> QED
          BY <3>1, <5>2
      <4> QED
        BY <4>1
    <3> QED
      BY <1>1, <1>2, <3>1, <3>2 DEF Tell, TrailerInv
  <2> QED
    BY <2>2, <2>3 DEF TrailerInv
<1>3. CASE Hear
  <2>1. told \in Trailers /\ text = trailerFrame(told)
    BY <1>1, <1>3 DEF Hear, TrailerInv
  <2>2. told' = told /\ text' = text /\ heard' = Decode(text)
    BY <1>3 DEF Hear
  <2>3. heard' = Decode(text)'
    BY <2>2 DEF Decode
  <2> QED
    BY <2>1, <2>2, <2>3 DEF TrailerInv
<1>4. CASE UNCHANGED trailer
  <2>1. told' = told /\ text' = text /\ heard' = heard
    BY <1>4 DEF trailer
  <2> QED
    BY <1>1, <2>1 DEF TrailerInv, Decode
<1> QED
  BY <1>1, <1>2, <1>3, <1>4 DEF TrailerNext

LEMMA TrailerKept == TrailerInv => StatusKept
<1>1. SUFFICES ASSUME told \in Trailers, text = trailerFrame(told), heard = Decode(text)
               PROVE  StatusKept
  BY DEF TrailerInv, StatusKept
<1> DEFINE e == encodeGrpcMessage(Trim(told.message))
<1>2. /\ decodeTrailers(text, STATUS) = <<<<told.status>>>>
      /\ decodeTrailers(text, MESSAGE) = <<e>>
      /\ told.name \notin {STATUS, MESSAGE} =>
           decodeTrailers(text, told.name)
             = IF told.value = Binary THEN <<>> ELSE <<encodeGrpcMessage(Trim(told.value))>>
  BY <1>1, FrameRead
<1>3. told.status \in Statuses /\ told.message \in Seq(Letter)
  <2>1. told.status \in Statuses /\ told.message \in Seq(Tokens) /\ Tokens \subseteq Letter
    BY <1>1 DEF Trailers, Letter
  <2> QED
    BY <2>1, SeqMonotonic
<1>4. Trim(told.message) \in Seq(Letter)
  BY <1>3, TrimEscaped
<1>5. \A i \in 1..Len(Trim(told.message)) : Trim(told.message)[i] \notin Escapes
  <2>1. \A j \in 1..Len(told.message) : told.message[j] \in Tokens
    BY <1>1 DEF Trailers
  <2> QED
    BY <1>3, <2>1, TrimEscaped, TrailerTextAssumption
<1>6. /\ decodeGrpcMessage(e) = Trim(told.message)
      /\ \A i \in DOMAIN e : e[i] # "%"
  <2>1. e \in Seq(Letter) /\ \A i \in 1..Len(Trim(told.message)) : e[i] # "%"
    BY <1>4, Escaped
  <2>2. DOMAIN e = 1..Len(Trim(told.message))
    BY <1>4, Escaped
  <2> QED
    BY <1>4, <1>5, <2>1, <2>2, Unescaped
<1> HIDE DEF e
<1>7. parseGrpcStatus(<<<<told.status>>>>)
  BY <1>3 DEF parseGrpcStatus
<1>8. heard = [outcome |-> "read", status |-> told.status, message |-> Trim(told.message),
               value |-> decodeTrailers(text, told.name)]
  <2>1. <<e>> # <<>> /\ <<e>>[1] = e /\ <<<<told.status>>>>[1][1] = told.status
    OBVIOUS
  <2> QED
    BY <1>1, <1>2, <1>6, <1>7, <2>1 DEF Decode
<1> QED
  BY <1>2, <1>8 DEF StatusKept

\* However long its messages and whatever they and the metadata say, a call ends
\* for the reader with the status the server set, its message but for the blanks
\* around it, and its metadata if it is text: no text of a server forges a status
\* (trailerFrame and decode of protocol_codec.ts, decodeTrailers of frame_codec.ts).
THEOREM StatusIsKept == InitTrailer /\ [][TrailerNext]_trailer => []StatusKept
<1>1. InitTrailer => TrailerInv
  BY TrailerInit
<1>2. TrailerInv /\ [TrailerNext]_trailer => TrailerInv'
  BY TrailerStep
<1>3. TrailerInv => StatusKept
  BY TrailerKept
<1> QED
  BY <1>1, <1>2, <1>3, PTL

-----------------------------------------------------------------------------
(* Bodies.  Numbers in bytes and in digits *)

Octet == 0..(Byte - 1)

\* A byte and a digit have more than one value.
LEMMA Bases ==
  /\ Byte \in Nat /\ Byte > 1 /\ Digit \in Nat /\ Digit > 1
  /\ \E k \in Nat : k > 1 /\ Digit = k * k * k /\ Byte = k * Digit
<1>1. PICK k \in 2..Digit : Digit = k * k * k /\ Byte = k * k * k * k
  BY GrpcWebBodyAssumption
<1>2. k \in Nat /\ k > 1 /\ Digit \in Nat /\ Digit > 1
  BY <1>1, GrpcWebBodyAssumption
<1>3. Byte = k * Digit
  BY <1>1, <1>2
<1>4. Byte \in Nat /\ Byte > 1
  BY <1>2, <1>3
<1> QED
  BY <1>1, <1>2, <1>3, <1>4

\* A quotient and a remainder are found again.
LEMMA Divided ==
  ASSUME NEW q \in Nat, NEW b \in Nat \ {0}, NEW r \in 0..(b - 1)
  PROVE  (q * b + r) \div b = q /\ (q * b + r) % b = r
<1>1. (q * b + r) \div b = q
  OBVIOUS
<1>2. (q * b + r) % b = r
  OBVIOUS
<1> QED
  BY <1>1, <1>2

\* A number is made of its quotient and its remainder.
LEMMA Remainder ==
  ASSUME NEW n \in Nat, NEW b \in Nat, b > 0
  PROVE  /\ n \div b \in Nat /\ n % b \in 0..(b - 1)
         /\ n = (n \div b) * b + (n % b)
<1>1. n \div b \in Nat /\ n % b \in 0..(b - 1)
  OBVIOUS
<1>2. n = (n \div b) * b + (n % b)
  OBVIOUS
<1> QED
  BY <1>1, <1>2

\* A number below a product has a quotient below the other factor.
LEMMA QuotientBelow ==
  ASSUME NEW n \in Nat, NEW b \in Nat \ {0}, NEW c \in Nat \ {0}, n < b * c
  PROVE  n \div c < b
OBVIOUS

\* The four digits of a number are read as the number.
LEMMA DigitsRead ==
  ASSUME NEW B \in Nat \ {0}, NEW n \in Nat, n < B * B * B * B
  PROVE  LET a == n \div (B * B * B)
             b == (n \div (B * B)) % B
             c == (n \div B) % B
             d == n % B
         IN /\ a \in 0..(B - 1) /\ b \in 0..(B - 1)
            /\ c \in 0..(B - 1) /\ d \in 0..(B - 1)
            /\ ((a * B + b) * B + c) * B + d = n
<1> DEFINE n1 == n \div B
           n2 == n1 \div B
           n3 == n2 \div B
           B2 == B * B
           B3 == B2 * B
<1>1. B \in Nat /\ B > 0
  OBVIOUS
<1>0. n < B3 * B
  OBVIOUS
<1>2. n1 \in Nat /\ n % B \in 0..(B - 1) /\ n = n1 * B + (n % B)
  BY <1>1, Remainder
<1>3. n2 \in Nat /\ n1 % B \in 0..(B - 1) /\ n1 = n2 * B + (n1 % B)
  BY <1>1, <1>2, Remainder
<1>4. n3 \in Nat /\ n2 % B \in 0..(B - 1) /\ n2 = n3 * B + (n2 % B)
  BY <1>1, <1>3, Remainder
<1>5. B2 \in Nat \ {0} /\ B3 \in Nat \ {0} /\ B2 = B * B /\ B3 = B2 * B /\ B * B * B = B3
  <2>1. B2 \in Nat \ {0}
    BY <1>1
  <2> QED
    BY <1>1, <2>1
<1> HIDE DEF B2, B3
<1>6. n \div B2 = n2
  <2>1. B2 = B * B /\ B \in Nat \ {0}
    BY <1>1, <1>5
  <2> QED
    BY <2>1
<1>7. n \div B3 = n3
  <2>1. n \div B3 = n1 \div B2
    <3>1. B2 \in Nat \ {0} /\ B \in Nat \ {0} /\ B3 = B2 * B
      BY <1>1, <1>5
    <3>2. n \div B3 = (n \div B) \div B2
      BY <3>1
    <3> QED
      BY <3>2
  <2>2. n1 \div B2 = n3
    <3>1. B2 = B * B /\ B \in Nat \ {0} /\ n1 \in Nat
      BY <1>1, <1>2, <1>5
    <3> HIDE DEF n1
    <3> QED
      BY <3>1
  <2> QED
    BY <2>1, <2>2
<1>8. n3 < B
  <2>2. n1 < B3
    BY <1>0, <1>1, <1>5, QuotientBelow
  <2>3. n2 < B2
    BY <1>1, <1>2, <1>5, <2>2, QuotientBelow
  <2> QED
    BY <1>1, <1>3, <1>5, <2>3, QuotientBelow
<1> HIDE DEF n1, n2, n3
<1>9. n3 \in 0..(B - 1)
  BY <1>1, <1>4, <1>8
<1>10. ((n3 * B + (n2 % B)) * B + (n1 % B)) * B + (n % B) = n
  <2>1. (n3 * B + (n2 % B)) * B + (n1 % B) = n1
    BY <1>3, <1>4
  <2> QED
    BY <1>2, <2>1
<1>11. n \div (B * B * B) = n3 /\ n \div (B * B) = n2 /\ n \div B = n1
  BY <1>5, <1>6, <1>7 DEF n1
<1> QED
  BY <1>2, <1>3, <1>4, <1>9, <1>10, <1>11

\* The length that readLength finds is the one that writeLength wrote, ...
LEMMA LengthRead ==
  ASSUME NEW n \in Nat, n < Byte * Byte * Byte * Byte,
         NEW b, b[2] = writeLength(n)[1], b[3] = writeLength(n)[2],
         b[4] = writeLength(n)[3], b[5] = writeLength(n)[4]
  PROVE  readLength(b) = n
<1> DEFINE B == Byte
           top == n \div (B * B * B)
           s1 == (n \div (B * B)) % B
           s2 == (n \div B) % B
           s3 == n % B
<1>1. B \in Nat \ {0}
  BY Bases
<1>2. top \in 0..(B - 1) /\ ((top * B + s1) * B + s2) * B + s3 = n
  BY <1>1, DigitsRead
<1>3. writeLength(n) = <<top % B, s1, s2, s3>>
  BY DEF writeLength
<1>4. readLength(b) = ((b[2] * B + b[3]) * B + b[4]) * B + b[5]
  BY DEF readLength, B
<1> HIDE DEF B, top, s1, s2, s3
<1>5. top % B = top
  BY <1>1, <1>2
<1>6. b[2] = top /\ b[3] = s1 /\ b[4] = s2 /\ b[5] = s3
  BY <1>3, <1>5
<1> QED
  BY <1>2, <1>4, <1>6

\* ... in four bytes.
LEMMA LengthWritten ==
  ASSUME NEW n \in Nat
  PROVE  writeLength(n) \in Seq(Octet) /\ Len(writeLength(n)) = 4
<1>1. \A m \in Nat : m % Byte \in Octet
  BY Bases, Remainder DEF Octet
<1>2. /\ n \div (Byte * Byte * Byte) \in Nat /\ n \div (Byte * Byte) \in Nat /\ n \div Byte \in Nat
  <2>1. Byte * Byte \in Nat /\ Byte * Byte > 0 /\ Byte * Byte * Byte \in Nat /\ Byte * Byte * Byte > 0
    BY Bases
  <2> QED
    BY <2>1, Bases, Remainder
<1>3. /\ (n \div (Byte * Byte * Byte)) % Byte \in Octet /\ (n \div (Byte * Byte)) % Byte \in Octet
      /\ (n \div Byte) % Byte \in Octet /\ n % Byte \in Octet
  BY <1>1, <1>2
<1> QED
  BY <1>3 DEF writeLength

\* The number of a group of three bytes, and its bytes.
LEMMA GroupNumber ==
  ASSUME NEW x \in Octet, NEW y \in Octet, NEW z \in Octet,
         NEW n, n = (x * Byte + y) * Byte + z
  PROVE  /\ n \in Nat /\ n < Digit * Digit * Digit * Digit
         /\ n \div (Byte * Byte) = x /\ (n \div Byte) % Byte = y /\ n % Byte = z
<1> DEFINE B == Byte
           m == x * B + y
<1>1. B \in Nat /\ B > 0 /\ x \in 0..(B - 1) /\ y \in 0..(B - 1) /\ z \in 0..(B - 1)
  BY Bases DEF Octet
<1>2. n = m * B + z
  OBVIOUS
<1> HIDE DEF B
<1>3. m \in Nat
  BY <1>1
<1>4. m \div B = x /\ m % B = y
  <2>1. x \in Nat /\ B \in Nat \ {0} /\ y \in 0..(B - 1)
    BY <1>1
  <2>2. (x * B + y) \div B = x
    BY <2>1
  <2>3. (x * B + y) % B = y
    BY <2>1
  <2> QED
    BY <2>2, <2>3
<1> HIDE DEF m
<1>5. n \in Nat
  BY <1>1, <1>2, <1>3
<1>6. n \div B = m /\ n % B = z
  BY <1>1, <1>2, <1>3, Divided
<1>7. n \div (B * B) = (n \div B) \div B
  <2> DEFINE B2 == B * B
  <2>1. B2 = B * B /\ B \in Nat \ {0}
    BY <1>1
  <2> HIDE DEF B2
  <2>2. n \div B2 = (n \div B) \div B
    BY <1>5, <2>1
  <2> QED
    BY <2>2 DEF B2
<1>8. n < B * B * B
  <2>1. m + 1 <= B * B
    <3>1. m = x * B + y /\ x + 1 <= B /\ y + 1 <= B
      BY <1>1 DEF m
    <3>2. (x + 1) * B <= B * B
      BY <1>1, <3>1
    <3>3. (x + 1) * B = x * B + B
      BY <1>1
    <3>4. x * B \in Nat /\ B * B \in Nat
      BY <1>1
    <3> QED
      BY <1>1, <3>1, <3>2, <3>3, <3>4
  <2>2. (m + 1) * B <= (B * B) * B
    <3>1. B * B \in Nat
      BY <1>1
    <3> QED
      BY <1>1, <1>3, <2>1, <3>1
  <2>3. (m + 1) * B = m * B + B
    BY <1>1, <1>3
  <2>4. m * B \in Nat /\ (B * B) * B \in Nat
    BY <1>1, <1>3
  <2> QED
    BY <1>1, <1>2, <2>2, <2>3, <2>4
<1>9. B * B * B = Digit * Digit * Digit * Digit
  <2>1. PICK k \in Nat : Digit = k * k * k /\ B = k * Digit
    BY Bases DEF B
  <2>2. Digit \in Nat
    BY Bases
  <2>3. B * B * B = (k * k * k) * (Digit * Digit * Digit)
    BY <2>1, <2>2
  <2>4. (k * k * k) * (Digit * Digit * Digit) = Digit * Digit * Digit * Digit
    BY <2>1, <2>2
  <2> QED
    BY <2>3, <2>4
<1> QED
  BY <1>4, <1>5, <1>6, <1>7, <1>8, <1>9 DEF B

\* A short group has zeros for its last digits.
LEMMA ShortGroups ==
  ASSUME NEW x \in Octet, NEW y \in Octet
  PROVE  /\ ((x * Byte + y) * Byte + 0) % Digit = 0
         /\ (((x * Byte + 0) * Byte + 0) \div Digit) % Digit = 0
<1> DEFINE B == Byte
           D == Digit
<1>1. B \in Nat /\ D \in Nat /\ D > 0 /\ x \in Nat /\ y \in Nat
  BY Bases DEF Octet
<1>2. PICK k \in Nat : B = k * D
  BY Bases
<1> HIDE DEF B, D
<1>3. (x * B + y) * B + 0 = ((x * B + y) * k) * D + 0
  <2>1. x * B + y \in Nat
    BY <1>1
  <2> QED
    BY <1>1, <1>2, <2>1
<1>4. ((x * B + y) * B + 0) % D = 0
  <2>1. (x * B + y) * k \in Nat /\ 0 \in 0..(D - 1)
    BY <1>1
  <2> DEFINE q == (x * B + y) * k
  <2>2. (q * D + 0) % D = 0
    <3>1. q \in Nat /\ D \in Nat \ {0} /\ 0 \in 0..(D - 1)
      BY <1>1, <2>1
    <3> HIDE DEF q
    <3> QED
      BY <3>1, Divided
  <2> QED
    BY <1>3, <2>2
<1>5. (x * B + 0) * B + 0 = (x * k * k * D) * D + 0
  BY <1>1, <1>2
<1>6. (((x * B + 0) * B + 0) \div D) % D = 0
  <2> DEFINE q == x * k * k
             p == q * D
  <2>1. q \in Nat /\ D \in Nat \ {0} /\ 0 \in 0..(D - 1)
    BY <1>1
  <2>2. (x * B + 0) * B + 0 = p * D + 0
    BY <1>5
  <2> HIDE DEF q
  <2>3. p \in Nat /\ p = q * D + 0
    BY <2>1
  <2>4. p % D = 0
    BY <2>1, <2>3, Divided
  <2> HIDE DEF p
  <2>5. (p * D + 0) \div D = p
    BY <2>1, <2>3, Divided
  <2> QED
    BY <2>2, <2>4, <2>5
<1> QED
  BY <1>4, <1>6 DEF B, D

\* What base64 makes of a group of bytes: four characters, padded, that are read
\* as the group.
LEMMA QuadRead ==
  ASSUME NEW g \in Seq(Octet), Len(g) \in 1..3
  PROVE  /\ Quad(g) \in Seq(0..Pad) /\ Len(Quad(g)) = 4
         /\ \A i \in 1..4 : Quad(g)[i] = Pad <=> i > Len(g) + 1
         /\ Bytes(Quad(g)) = g
<1> DEFINE l == Len(g)
           x == g[1]
           y == IF 2 <= l THEN g[2] ELSE 0
           z == IF 3 <= l THEN g[3] ELSE 0
           n == (x * Byte + y) * Byte + z
           D == Digit
           a == n \div (D * D * D)
           b == (n \div (D * D)) % D
           c == (n \div D) % D
           d == n % D
           Q == Quad(g)
           dd == <<a, b, c, d>>
<1>1. l \in 1..3 /\ x \in Octet /\ y \in Octet /\ z \in Octet
  <2>1. 0 \in Octet
    BY Bases DEF Octet
  <2>2. \A i \in 1..l : g[i] \in Octet
    OBVIOUS
  <2> QED
    BY <2>1, <2>2
<1>2. Q = [i \in 1..4 |-> IF i <= l + 1 THEN dd[i] ELSE Pad]
  <2>1. 1 <= l
    BY <1>1
  <2> QED
    BY <2>1 DEF Quad
<1> HIDE DEF l, x, y, z
<1>3. /\ n \in Nat /\ n < D * D * D * D
      /\ n \div (Byte * Byte) = x /\ (n \div Byte) % Byte = y /\ n % Byte = z
  BY <1>1, GroupNumber
<1>4. l < 3 => d = 0
  <2>1. l < 3 => z = 0
    BY <1>1 DEF z
  <2>2. ((x * Byte + y) * Byte + 0) % D = 0
    BY <1>1, ShortGroups
  <2> QED
    BY <2>1, <2>2
<1>5. l < 2 => c = 0
  <2>1. l < 2 => y = 0 /\ z = 0
    BY <1>1 DEF y, z
  <2>2. (((x * Byte + 0) * Byte + 0) \div D) % D = 0
    BY <1>1, ShortGroups
  <2> QED
    BY <2>1, <2>2
<1> HIDE DEF n
<1>6. /\ a \in 0..(D - 1) /\ b \in 0..(D - 1) /\ c \in 0..(D - 1) /\ d \in 0..(D - 1)
      /\ ((a * D + b) * D + c) * D + d = n
  <2>1. D \in Nat \ {0}
    BY Bases
  <2> HIDE DEF D
  <2> QED
    BY <1>3, <2>1, DigitsRead
<1>7. Pad = D /\ D \in Nat
  BY Bases DEF Pad
<1> HIDE DEF a, b, c, d, D, Q
<1>8. /\ Q[1] = a /\ Q[2] = b
      /\ Q[3] = IF l >= 2 THEN c ELSE Pad
      /\ Q[4] = IF l >= 3 THEN d ELSE Pad
  BY <1>1, <1>2
<1>9. a # Pad /\ b # Pad /\ c # Pad /\ d # Pad
  BY <1>6, <1>7
<1>10. \A i \in 1..4 : Q[i] = Pad <=> i > l + 1
  <2>1. \A i \in 1..4 : i = 1 \/ i = 2 \/ i = 3 \/ i = 4
    OBVIOUS
  <2> QED
    BY <1>1, <1>8, <1>9, <2>1
<1>11. Q \in Seq(0..Pad) /\ Len(Q) = 4
  <2>1. \A i \in 1..4 : (IF i <= l + 1 THEN dd[i] ELSE Pad) \in 0..Pad
    <3>1. dd[1] \in 0..Pad /\ dd[2] \in 0..Pad /\ dd[3] \in 0..Pad /\ dd[4] \in 0..Pad /\ Pad \in 0..Pad
      BY <1>6, <1>7
    <3>2. \A i \in 1..4 : i = 1 \/ i = 2 \/ i = 3 \/ i = 4
      OBVIOUS
    <3> HIDE DEF dd
    <3> QED
      BY <3>1, <3>2
  <2> HIDE DEF dd
  <2>2. Q \in Seq(0..Pad)
    <3>1. Q \in [1..4 -> 0..Pad]
      BY <1>2, <2>1
    <3>2. \A S : \A k \in Nat : \A f \in [1..k -> S] : f \in Seq(S)
      OBVIOUS
    <3>3. 4 \in Nat
      OBVIOUS
    <3> QED
      BY <3>1, <3>2, <3>3, Zenon
  <2> QED
    BY <1>2, <2>2
<1>12. Bytes(Q) = SubSeq(<<x, y, z>>, 1, l)
  <2> DEFINE r(i) == IF Q[i] = Pad THEN 0 ELSE Q[i]
             m == ((r(1) * D + r(2)) * D + r(3)) * D + r(4)
             k == IF Q[3] = Pad THEN 1 ELSE IF Q[4] = Pad THEN 2 ELSE 3
  <2>1. r(1) = a /\ r(2) = b /\ r(3) = c /\ r(4) = d
    BY <1>1, <1>4, <1>5, <1>8, <1>9
  <2>2. k = l
    BY <1>1, <1>8, <1>9
  <2>3. Bytes(Q) = SubSeq(<<m \div (Byte * Byte), (m \div Byte) % Byte, m % Byte>>, 1, k)
    BY DEF Bytes, D
  <2> HIDE DEF r, k
  <2>4. m = n
    BY <1>6, <2>1
  <2> HIDE DEF m
  <2> QED
    BY <1>3, <2>2, <2>3, <2>4
<1>13. SubSeq(<<x, y, z>>, 1, l) = g
  <2> DEFINE w == <<x, y, z>>
             u == SubSeq(w, 1, l)
  <2>1. w \in Seq(Octet) /\ Len(w) = 3 /\ w[1] = x /\ w[2] = y /\ w[3] = z
    BY <1>1
  <2> HIDE DEF w
  <2>2. u \in Seq(Octet) /\ Len(u) = l /\ \A i \in 1..l : u[i] = w[i]
    BY <1>1, <2>1, SubSeqProperties
  <2>3. Len(g) = l /\ x = g[1] /\ (2 <= l => y = g[2]) /\ (3 <= l => z = g[3])
    BY DEF l, x, y, z
  <2>4. \A i \in 1..l : u[i] = g[i]
    <3>1. \A i \in 1..l : i = 1 \/ (i = 2 /\ 2 <= l) \/ (i = 3 /\ 3 <= l)
      BY <1>1
    <3> QED
      BY <2>1, <2>2, <2>3, <3>1
  <2> HIDE DEF u
  <2>5. u = g
    BY <2>2, <2>3, <2>4, SeqEqual
  <2> QED
    BY <2>5 DEF u, w
<1> QED
  BY <1>10, <1>11, <1>12, <1>13 DEF l, Q

-----------------------------------------------------------------------------
(* Induction *)

\* What holds of 0 and of the successor of every number holds of all of them.
LEMMA SetInduction ==
  ASSUME NEW S, 0 \in S, \A n \in Nat : n \in S => n + 1 \in S
  PROVE  Nat \subseteq S
<1> DEFINE Less == OpToRel(<, Nat)
           Miss == Nat \ S
<1>1. IsWellFoundedOn(Less, Nat)
  BY NatLessThanWellFounded, Zenon
<1>2. \A x, y \in Nat : x < y => <<x, y>> \in Less
  BY SMT DEF OpToRel
<1> HIDE DEF Less
<1>3. SUFFICES ASSUME Miss # {} PROVE FALSE
  OBVIOUS
<1>4. PICK n \in Miss : \A m \in Miss : ~ (<<m, n>> \in Less)
  <2>1. Miss \subseteq Nat /\ Miss # {}
    BY <1>3
  <2> HIDE DEF Miss
  <2> QED
    BY <1>1, <2>1, WFMin
<1>5. n \in Nat /\ n \notin S /\ n # 0
  BY <1>4
<1>6. n - 1 \in Nat /\ n - 1 < n /\ (n - 1) + 1 = n
  BY <1>5
<1>7. n - 1 \notin S
  BY <1>5, <1>6
<1>8. n - 1 \in Miss
  BY <1>6, <1>7
<1> QED
  BY <1>2, <1>4, <1>5, <1>6, <1>8

\* And of the numbers up to a bound.
LEMMA UpTo ==
  ASSUME NEW n \in Nat, NEW S, 0 \in S, \A i \in 0..(n - 1) : i \in S => i + 1 \in S
  PROVE  0..n \subseteq S
<1> DEFINE T == {i \in Nat : i <= n => i \in S}
<1>1. 0 \in T
  OBVIOUS
<1>2. \A i \in Nat : i \in T => i + 1 \in T
  <2>1. SUFFICES ASSUME NEW i \in Nat, i \in T, i + 1 <= n PROVE i + 1 \in S
    OBVIOUS
  <2>2. i \in 0..(n - 1) /\ i \in S
    BY <2>1
  <2> QED
    BY <2>2
<1> HIDE DEF T
<1>3. Nat \subseteq T
  BY <1>1, <1>2, SetInduction
<1> QED
  BY <1>3 DEF T

-----------------------------------------------------------------------------
(* Sequences that are flattened *)

\* The flattened front parts of a sequence of sequences.
Flat(s) == CHOOSE f : f = [i \in 1..Len(s) |-> IF i = 1 THEN s[i] ELSE f[i - 1] \o s[i]]

\* They exist, for every sequence: FlattenSeq is defined by them.
LEMMA FlatExists ==
  ASSUME NEW X, NEW s \in Seq(X)
  PROVE  Flat(s) = [i \in 1..Len(s) |-> IF i = 1 THEN s[i] ELSE Flat(s)[i - 1] \o s[i]]
<1> DEFINE Is(f, n) == f = [i \in 1..n |-> IF i = 1 THEN s[i] ELSE f[i - 1] \o s[i]]
           S == {n \in Nat : \E f : Is(f, n)}
<1>1. 0 \in S
  <2>1. Is(<<>>, 0)
    OBVIOUS
  <2> QED
    BY <2>1
<1>2. ASSUME NEW n \in Nat, n \in S PROVE n + 1 \in S
  <2>1. PICK f : Is(f, n)
    BY <1>2
  <2> DEFINE last == IF n = 0 THEN s[1] ELSE f[n] \o s[n + 1]
             g == [i \in 1..(n + 1) |-> IF i = n + 1 THEN last ELSE f[i]]
  <2>2. \A i \in 1..n : f[i] = IF i = 1 THEN s[i] ELSE f[i - 1] \o s[i]
    BY <2>1
  <2>3. ASSUME NEW i \in 1..(n + 1) PROVE g[i] = IF i = 1 THEN s[i] ELSE g[i - 1] \o s[i]
    <3>1. CASE i = n + 1
      <4>1. n # 0 => g[n] = f[n]
        OBVIOUS
      <4> QED
        BY <3>1, <4>1
    <3>2. CASE i # n + 1
      <4>1. i \in 1..n /\ g[i] = f[i]
        BY <3>2
      <4>2. i # 1 => i - 1 \in 1..n /\ g[i - 1] = f[i - 1]
        BY <4>1
      <4> HIDE DEF g
      <4> QED
        BY <2>2, <4>1, <4>2
    <3> QED
      BY <3>1, <3>2
  <2>4. DOMAIN g = 1..(n + 1) /\ g = [i \in 1..(n + 1) |-> g[i]]
    OBVIOUS
  <2> HIDE DEF g
  <2>5. Is(g, n + 1)
    BY <2>3, <2>4
  <2> HIDE DEF Is, last
  <2>6. \E h : Is(h, n + 1)
    BY <2>5
  <2> QED
    BY <2>6
<1>3. Len(s) \in S
  <2>1. Len(s) \in Nat
    OBVIOUS
  <2> HIDE DEF S
  <2> QED
    BY <1>1, <1>2, <2>1, SetInduction
<1>4. \E f : f = [i \in 1..Len(s) |-> IF i = 1 THEN s[i] ELSE f[i - 1] \o s[i]]
  BY <1>3
<1> QED
  BY <1>4, Zenon DEF Flat

\* FlattenSeq ends with the last of them.
LEMMA FlattenIsFlat ==
  ASSUME NEW X, NEW s \in Seq(X)
  PROVE  FlattenSeq(s) = IF Len(s) = 0 THEN s ELSE Flat(s)[Len(s)]
BY DEF FlattenSeq, Flat

\* The first i of the sequences of s, flattened.
FlatTo(s, i) == IF i = 0 THEN <<>> ELSE Flat(s)[i]

\* Of no sequence there is nothing.
LEMMA FlatNone == \A s : FlatTo(s, 0) = <<>>
BY DEF FlatTo

\* The next sequence goes behind the ones before.
LEMMA FlatNext ==
  ASSUME NEW X, NEW s \in Seq(Seq(X)), NEW i \in 1..Len(s)
  PROVE  FlatTo(s, i) = FlatTo(s, i - 1) \o s[i]
<1>1. Flat(s) = [j \in 1..Len(s) |-> IF j = 1 THEN s[j] ELSE Flat(s)[j - 1] \o s[j]]
  BY FlatExists
<1>2. s[i] \in Seq(X) /\ i \in Nat /\ i # 0
  OBVIOUS
<1>3. Flat(s)[i] = IF i = 1 THEN s[i] ELSE Flat(s)[i - 1] \o s[i]
  BY <1>1, Zenon
<1>4. <<>> \o s[i] = s[i]
  BY <1>2, ConcatEmptySeq
<1>5. FlatTo(s, i) = Flat(s)[i]
  BY <1>2 DEF FlatTo
<1>6. CASE i = 1
  <2>1. FlatTo(s, i - 1) = <<>>
    BY <1>6 DEF FlatTo
  <2> QED
    BY <1>3, <1>4, <1>5, <1>6, <2>1
<1>7. CASE i # 1
  <2>1. FlatTo(s, i - 1) = Flat(s)[i - 1]
    BY <1>2, <1>7 DEF FlatTo
  <2> QED
    BY <1>3, <1>5, <1>7, <2>1
<1> QED
  BY <1>6, <1>7

\* What is flattened is a sequence of the same elements, ...
LEMMA FlatType ==
  ASSUME NEW X, NEW s \in Seq(Seq(X)), NEW k \in 0..Len(s)
  PROVE  FlatTo(s, k) \in Seq(X)
<1> DEFINE S == {i \in Nat : i <= Len(s) => FlatTo(s, i) \in Seq(X)}
<1>0. Len(s) \in Nat
  OBVIOUS
<1>1. 0 \in S
  <2>1. FlatTo(s, 0) = <<>>
    BY FlatNone, Zenon
  <2>3. <<>> \in Seq(X)
    OBVIOUS
  <2>2. FlatTo(s, 0) \in Seq(X)
    BY <2>1, <2>3, Zenon
  <2> QED
    BY <2>2
<1>2. ASSUME NEW i \in 0..(Len(s) - 1), i \in S PROVE i + 1 \in S
  <2>1. i + 1 \in 1..Len(s) /\ (i + 1) - 1 = i /\ i + 1 \in Nat /\ i <= Len(s)
    BY <1>0
  <2>2. FlatTo(s, i + 1) = FlatTo(s, i) \o s[i + 1]
    BY <2>1, FlatNext
  <2>3. s[i + 1] \in Seq(X)
    BY <2>1
  <2>4. FlatTo(s, i) \in Seq(X)
    BY <1>2, <2>1
  <2>5. FlatTo(s, i) \o s[i + 1] \in Seq(X)
    BY <2>3, <2>4
  <2> QED
    BY <2>1, <2>2, <2>5
<1> HIDE DEF S
<1>3. 0..Len(s) \subseteq S
  BY <1>0, <1>1, <1>2, UpTo
<1>4. k \in S
  BY <1>3
<1> QED
  BY <1>4 DEF S

\* ... and all of it is what FlattenSeq makes.
LEMMA FlattenTo ==
  ASSUME NEW X, NEW s \in Seq(Seq(X))
  PROVE  FlattenSeq(s) = FlatTo(s, Len(s)) /\ FlattenSeq(s) \in Seq(X)
<1>1. FlattenSeq(s) = IF Len(s) = 0 THEN s ELSE Flat(s)[Len(s)]
  BY FlattenIsFlat
<1>2. Len(s) = 0 => s = <<>>
  OBVIOUS
<1>3. FlattenSeq(s) = FlatTo(s, Len(s))
  BY <1>1, <1>2 DEF FlatTo
<1>4. Len(s) \in 0..Len(s)
  OBVIOUS
<1>5. FlatTo(s, Len(s)) \in Seq(X)
  BY <1>4, FlatType
<1> QED
  BY <1>3, <1>5

\* It depends on those alone.
LEMMA FlatSame ==
  ASSUME NEW X, NEW s \in Seq(Seq(X)), NEW r \in Seq(Seq(X)), NEW m \in Nat,
         m <= Len(s), m <= Len(r), \A i \in 1..m : r[i] = s[i]
  PROVE  FlatTo(r, m) = FlatTo(s, m)
<1> DEFINE S == {i \in Nat : i <= m => FlatTo(r, i) = FlatTo(s, i)}
<1>0. Len(s) \in Nat /\ Len(r) \in Nat
  OBVIOUS
<1>1. 0 \in S
  BY FlatNone
<1>2. ASSUME NEW i \in 0..(m - 1), i \in S PROVE i + 1 \in S
  <2>0. i + 1 \in 1..m /\ (i + 1) - 1 = i /\ i <= m /\ i + 1 \in Nat
    OBVIOUS
  <2>1. i + 1 \in 1..Len(s) /\ i + 1 \in 1..Len(r)
    BY <1>0, <2>0
  <2>2. FlatTo(s, i + 1) = FlatTo(s, i) \o s[i + 1]
    BY <2>0, <2>1, FlatNext
  <2>3. FlatTo(r, i + 1) = FlatTo(r, i) \o r[i + 1]
    BY <2>0, <2>1, FlatNext
  <2>4. FlatTo(r, i) = FlatTo(s, i) /\ r[i + 1] = s[i + 1]
    BY <1>2, <2>0
  <2>5. FlatTo(r, i + 1) = FlatTo(s, i + 1)
    BY <2>2, <2>3, <2>4, <2>0, Zenon
  <2> QED
    BY <2>0, <2>5
<1> HIDE DEF S
<1>3. 0..m \subseteq S
  BY <1>1, <1>2, UpTo
<1>4. m \in S
  BY <1>3
<1> QED
  BY <1>4 DEF S

\* The first k sequences, flattened on their own.
LEMMA FlattenFront ==
  ASSUME NEW X, NEW s \in Seq(Seq(X)), NEW k \in 0..Len(s)
  PROVE  FlattenSeq(SubSeq(s, 1, k)) = FlatTo(s, k)
<1> DEFINE r == SubSeq(s, 1, k)
<1>1. r \in Seq(Seq(X)) /\ Len(r) = k /\ \A i \in 1..k : r[i] = s[i]
  BY SubSeqProperties
<1>2. k \in Nat /\ k <= Len(s)
  OBVIOUS
<1> HIDE DEF r
<1>3. FlatTo(r, k) = FlatTo(s, k)
  BY <1>1, <1>2, FlatSame
<1>4. FlattenSeq(r) = FlatTo(r, k)
  BY <1>1, FlattenTo
<1> QED
  BY <1>3, <1>4 DEF r

\* A sequence more is flattened behind the others.
LEMMA FlattenAppend ==
  ASSUME NEW X, NEW s \in Seq(Seq(X)), NEW x \in Seq(X)
  PROVE  FlattenSeq(Append(s, x)) = FlattenSeq(s) \o x
<1> DEFINE r == Append(s, x)
           m == Len(s)
<1>1. /\ r \in Seq(Seq(X)) /\ Len(r) = m + 1 /\ m \in Nat
      /\ \A i \in 1..m : r[i] = s[i]
      /\ r[m + 1] = x
  BY AppendProperties
<1> HIDE DEF r
<1>2. m <= Len(s) /\ m <= Len(r)
  BY <1>1
<1>3. FlatTo(r, m) = FlatTo(s, m)
  BY <1>1, <1>2, FlatSame
<1>4. m + 1 \in 1..Len(r) /\ (m + 1) - 1 = m
  BY <1>1
<1>5. FlatTo(r, m + 1) = FlatTo(r, m) \o r[m + 1]
  BY <1>1, <1>4, FlatNext
<1>6. FlattenSeq(r) = FlatTo(r, m + 1)
  BY <1>1, FlattenTo
<1>7. FlattenSeq(s) = FlatTo(s, m)
  BY FlattenTo
<1>8. FlattenSeq(r) = FlattenSeq(s) \o x
  BY <1>1, <1>3, <1>5, <1>6, <1>7, Zenon
<1> QED
  BY <1>8 DEF r

\* Which two of three sequences are joined first does not matter.
OneLine(a, b, c) == (a \o b) \o c = a \o (b \o c)

LEMMA Joined ==
  ASSUME NEW X, NEW a \in Seq(X), NEW b \in Seq(X), NEW c \in Seq(X)
  PROVE  OneLine(a, b, c)
<1>1. (a \o b) \o c = a \o (b \o c)
  BY ConcatAssociative
<1> QED
  BY <1>1, Zenon DEF OneLine

\* Two parts are flattened one behind the other.
LEMMA FlattenConcat ==
  ASSUME NEW X, NEW s \in Seq(Seq(X)), NEW t \in Seq(Seq(X))
  PROVE  FlattenSeq(s \o t) = FlattenSeq(s) \o FlattenSeq(t)
<1> DEFINE r == s \o t
           m == Len(s)
           n == Len(t)
<1>1. m \in Nat /\ n \in Nat
  OBVIOUS
<1>2. r \in Seq(Seq(X)) /\ Len(r) = m + n
  BY ConcatProperties
<1>3. \A i \in 1..m : r[i] = s[i]
  OBVIOUS
<1>4. \A i \in 1..n : r[m + i] = t[i]
  OBVIOUS
<1> HIDE DEF r
<1>5. m <= Len(s) /\ m <= Len(r) /\ m \in 0..Len(s)
  BY <1>1, <1>2
<1>50. FlatTo(r, m) = FlatTo(s, m)
  BY <1>1, <1>2, <1>3, <1>5, FlatSame
<1> DEFINE S == {i \in Nat : i <= n => FlatTo(r, m + i) = FlatTo(s, m) \o FlatTo(t, i)}
<1>6. FlatTo(s, m) \in Seq(X)
  BY <1>5, FlatType
<1>7. 0 \in S
  <2>1. FlatTo(t, 0) = <<>> /\ m + 0 = m
    BY <1>1, FlatNone
  <2>2. FlatTo(s, m) \o <<>> = FlatTo(s, m)
    BY <1>6, ConcatEmptySeq
  <2>3. FlatTo(r, m + 0) = FlatTo(s, m) \o FlatTo(t, 0)
    BY <1>50, <2>1, <2>2, Zenon
  <2> QED
    BY <2>3
<1>8. ASSUME NEW i \in 0..(n - 1), i \in S PROVE i + 1 \in S
  <2>1. /\ i + 1 \in 1..n /\ m + (i + 1) \in 1..Len(r) /\ (i + 1) - 1 = i
        /\ (m + (i + 1)) - 1 = m + i /\ i \in 0..n /\ i + 1 \in Nat /\ i <= n
    BY <1>1, <1>2
  <2>2. FlatTo(r, m + i) = FlatTo(s, m) \o FlatTo(t, i)
    BY <1>8, <2>1
  <2>3. FlatTo(r, m + (i + 1)) = FlatTo(r, m + i) \o r[m + (i + 1)]
    BY <1>2, <2>1, FlatNext
  <2>4. FlatTo(t, i + 1) = FlatTo(t, i) \o t[i + 1]
    BY <2>1, FlatNext
  <2>40. FlatTo(t, i) \in Seq(X)
    BY <2>1, FlatType
  <2>5. r[m + (i + 1)] = t[i + 1]
    BY <1>4, <2>1
  <2>50. t[i + 1] \in Seq(X)
    BY <2>1
  <2>6. (FlatTo(s, m) \o FlatTo(t, i)) \o t[i + 1] = FlatTo(s, m) \o (FlatTo(t, i) \o t[i + 1])
    <3> DEFINE a == FlatTo(s, m)
               b == FlatTo(t, i)
               c == t[i + 1]
    <3>1. a \in Seq(X) /\ b \in Seq(X) /\ c \in Seq(X)
      BY <1>6, <2>40, <2>50
    <3> HIDE DEF a, b, c
    <3>2. (a \o b) \o c = a \o (b \o c)
      <4>1. OneLine(a, b, c)
        BY <3>1, Joined
      <4> QED
        BY <4>1, Zenon DEF OneLine
    <3> QED
      BY <3>2 DEF a, b, c
  <2>7. FlatTo(r, m + (i + 1)) = FlatTo(s, m) \o FlatTo(t, i + 1)
    BY <2>2, <2>3, <2>4, <2>5, <2>6, Zenon
  <2> QED
    BY <2>1, <2>7
<1> HIDE DEF S
<1>9. 0..n \subseteq S
  BY <1>1, <1>7, <1>8, UpTo
<1>90. n \in S
  BY <1>1, <1>9
<1>10. FlatTo(r, m + n) = FlatTo(s, m) \o FlatTo(t, n)
  BY <1>1, <1>90 DEF S
<1>11. FlattenSeq(r) = FlatTo(r, m + n)
  BY <1>2, FlattenTo
<1>12. FlattenSeq(s) = FlatTo(s, m) /\ FlattenSeq(t) = FlatTo(t, n)
  BY FlattenTo
<1> QED
  BY <1>10, <1>11, <1>12 DEF r

-----------------------------------------------------------------------------
(* Sequences that begin alike *)

\* One sequence is the beginning of another.
Leads(r, w) == Len(r) <= Len(w) /\ \A i \in 1..Len(r) : w[i] = r[i]

\* What is put in front leads.
LEMMA ConcatLeads ==
  ASSUME NEW X, NEW a \in Seq(X), NEW b \in Seq(X)
  PROVE  Leads(a, a \o b)
BY DEF Leads

\* What leads what leads, leads.
LEMMA LeadsOn ==
  ASSUME NEW X, NEW a \in Seq(X), NEW b \in Seq(X), NEW c \in Seq(X), Leads(a, b), Leads(b, c)
  PROVE  Leads(a, c)
<1>1. Len(a) \in Nat /\ Len(b) \in Nat /\ Len(c) \in Nat /\ Len(a) <= Len(b) /\ Len(b) <= Len(c)
  BY DEF Leads
<1>2. ASSUME NEW i \in 1..Len(a) PROVE c[i] = a[i]
  <2>1. i \in 1..Len(b)
    BY <1>1
  <2> QED
    BY <2>1 DEF Leads
<1>3. Len(a) <= Len(c)
  BY <1>1
<1> QED
  BY <1>2, <1>3 DEF Leads

\* What leads is a front part, and two of one length are one.
LEMMA LeadsSlice ==
  ASSUME NEW X, NEW a \in Seq(X), NEW b \in Seq(X), Leads(a, b)
  PROVE  a = SubSeq(b, 1, Len(a))
<1>1. Len(a) \in Nat /\ Len(b) \in Nat /\ Len(a) <= Len(b)
  BY DEF Leads
<1>2. Len(SubSeq(b, 1, Len(a))) = Len(a)
  BY <1>1
<1>3. \A i \in 1..Len(a) : SubSeq(b, 1, Len(a))[i] = a[i]
  BY <1>1 DEF Leads
<1>4. SubSeq(b, 1, Len(a)) \in Seq(X)
  BY <1>1
<1> QED
  BY <1>2, <1>3, <1>4, SeqEqual

\* Fewer sequences, flattened, lead more of them.
LEMMA FlatLeads ==
  ASSUME NEW X, NEW s \in Seq(Seq(X)), NEW m \in 0..Len(s), NEW k \in 0..m
  PROVE  Leads(FlatTo(s, k), FlatTo(s, m))
<1> DEFINE S == {i \in Nat : k <= i /\ i <= m => Leads(FlatTo(s, k), FlatTo(s, i))}
<1>0. Len(s) \in Nat /\ m \in Nat /\ k \in Nat /\ k <= m /\ m <= Len(s) /\ k \in 0..Len(s)
  OBVIOUS
<1>1. FlatTo(s, k) \in Seq(X)
  BY <1>0, FlatType
<1>2. Leads(FlatTo(s, k), FlatTo(s, k))
  BY <1>1 DEF Leads
<1>3. 0 \in S
  <2>1. k <= 0 => k = 0
    BY <1>0
  <2> QED
    BY <1>2, <2>1
<1>4. ASSUME NEW i \in 0..(m - 1), i \in S PROVE i + 1 \in S
  <2>0. i \in Nat /\ i <= m /\ i + 1 \in Nat /\ (i + 1) - 1 = i
    BY <1>0
  <2>1. CASE k <= i
    <3>1. Leads(FlatTo(s, k), FlatTo(s, i))
      BY <1>4, <2>0, <2>1
    <3>2. i \in 0..Len(s) /\ i + 1 \in 1..Len(s) /\ i + 1 \in 0..Len(s)
      BY <1>0, <2>0
    <3>3. FlatTo(s, i + 1) = FlatTo(s, i) \o s[i + 1]
      BY <2>0, <3>2, FlatNext
    <3>4. FlatTo(s, i) \in Seq(X)
      BY <3>2, FlatType
    <3>5. s[i + 1] \in Seq(X)
      BY <3>2
    <3>6. Leads(FlatTo(s, i), FlatTo(s, i + 1))
      BY <3>3, <3>4, <3>5, ConcatLeads
    <3>7. FlatTo(s, i + 1) \in Seq(X)
      BY <3>2, FlatType
    <3>8. Leads(FlatTo(s, k), FlatTo(s, i + 1))
      BY <1>1, <3>1, <3>4, <3>6, <3>7, LeadsOn
    <3> QED
      BY <2>0, <3>8
  <2>2. CASE ~ k <= i
    <3>1. k <= i + 1 => k = i + 1
      BY <1>0, <2>0, <2>2
    <3> QED
      BY <1>2, <2>0, <3>1
  <2> QED
    BY <2>1, <2>2
<1> HIDE DEF S
<1>5. 0..m \subseteq S
  BY <1>0, <1>3, <1>4, UpTo
<1>6. m \in S
  BY <1>0, <1>5
<1> QED
  BY <1>0, <1>6 DEF S

\* Where the elements of the k-th sequence are found.
LEMMA FlatPlace ==
  ASSUME NEW X, NEW s \in Seq(Seq(X)), NEW k \in 1..Len(s)
  PROVE  /\ Len(FlatTo(s, k)) = Len(FlatTo(s, k - 1)) + Len(s[k])
         /\ Len(FlatTo(s, k)) <= Len(FlattenSeq(s))
         /\ \A j \in 1..Len(s[k]) : FlattenSeq(s)[Len(FlatTo(s, k - 1)) + j] = s[k][j]
<1> DEFINE a == FlatTo(s, k - 1)
           b == FlatTo(s, k)
           w == FlattenSeq(s)
           x == s[k]
<1>0. Len(s) \in Nat /\ k - 1 \in 0..Len(s) /\ k \in 0..Len(s) /\ Len(s) \in 0..Len(s) /\ k \in 0..Len(s)
  OBVIOUS
<1>1. b = a \o x
  BY FlatNext
<1>2. a \in Seq(X)
  BY <1>0, FlatType
<1>3. x \in Seq(X)
  OBVIOUS
<1>4. w = FlatTo(s, Len(s)) /\ w \in Seq(X)
  BY FlattenTo
<1>5. Leads(b, w)
  BY <1>0, <1>4, FlatLeads
<1> HIDE DEF a, b, w, x
<1>6. Len(b) = Len(a) + Len(x) /\ Len(b) <= Len(w)
  BY <1>1, <1>2, <1>3, <1>5 DEF Leads
<1>7. ASSUME NEW j \in 1..Len(x) PROVE w[Len(a) + j] = x[j]
  <2>1. Len(a) + j \in 1..Len(b)
    BY <1>2, <1>3, <1>6
  <2>2. b[Len(a) + j] = x[j]
    BY <1>1, <1>2, <1>3
  <2> QED
    BY <1>5, <2>1, <2>2 DEF Leads
<1> QED
  BY <1>6, <1>7 DEF a, b, w, x

-----------------------------------------------------------------------------
(* Frames *)

\* A frame with its header.
IsFrame(b) == b \in Seq(Octet) /\ Len(b) >= 5 /\ readLength(b) = Len(b) - 5

\* encodeRawFrame writes a header and the payload it announces, ...
LEMMA FrameWritten ==
  ASSUME NEW p \in Seq(Octet), Len(p) < Byte * Byte * Byte * Byte, NEW flags \in Octet
  PROVE  IsFrame(encodeRawFrame(p, flags))
<1> DEFINE w == writeLength(Len(p))
           a == <<flags>>
           h == a \o w
           b == h \o p
<1> DEFINE l == Len(p)
<1>1. l \in Nat
  OBVIOUS
<1>2. w \in Seq(Octet) /\ Len(w) = 4
  BY <1>1, LengthWritten
<1>20. w \in Seq(Octet)
  BY <1>2
<1>3. a \in Seq(Octet) /\ Len(a) = 1
  OBVIOUS
<1>30. a \in Seq(Octet)
  BY <1>3
<1> HIDE DEF a, w
<1>4. h \in Seq(Octet)
  BY <1>20, <1>30
<1>5. Len(h) = Len(a) + Len(w)
  BY <1>20, <1>30
<1>6. \A i \in 1..Len(w) : h[Len(a) + i] = w[i]
  BY <1>20, <1>30
<1> HIDE DEF h
<1>7. b \in Seq(Octet)
  BY <1>4
<1>8. Len(b) = Len(h) + l
  BY <1>4
<1>9. \A i \in 1..Len(h) : b[i] = h[i]
  BY <1>4
<1> HIDE DEF b
<1>10. Len(h) = 5
  BY <1>2, <1>3, <1>5
<1>11. \A i \in 1..4 : b[i + 1] = w[i]
  <2>1. SUFFICES ASSUME NEW i \in 1..4 PROVE b[i + 1] = w[i]
    OBVIOUS
  <2>2. h[1 + i] = w[i]
    BY <1>2, <1>3, <1>6
  <2>3. 1 + i = i + 1 /\ i + 1 \in 1..Len(h)
    BY <1>10
  <2>4. b[i + 1] = h[i + 1]
    BY <1>9, <2>3
  <2> QED
    BY <2>2, <2>3, <2>4
<1>12. readLength(b) = l
  <2>1. b[1 + 1] = w[1] /\ b[2 + 1] = w[2] /\ b[3 + 1] = w[3] /\ b[4 + 1] = w[4]
    BY <1>11
  <2>2. b[2] = writeLength(l)[1] /\ b[3] = writeLength(l)[2]
        /\ b[4] = writeLength(l)[3] /\ b[5] = writeLength(l)[4]
    BY <2>1 DEF w
  <2> HIDE DEF l
  <2>3. l < Byte * Byte * Byte * Byte
    BY DEF l
  <2> QED
    BY <1>1, <2>2, <2>3, LengthRead
<1> HIDE DEF l
<1>13. Len(b) >= 5 /\ Len(b) - 5 = l
  BY <1>1, <1>8, <1>10
<1>14. IsFrame(b)
  BY <1>7, <1>12, <1>13 DEF IsFrame
<1> QED
  BY <1>14 DEF b, h, a, w, encodeRawFrame

\* ... for whatever a sender encodes.
LEMMA FrameSent ==
  ASSUME NEW f \in Values, NEW compression
  PROVE  IsFrame(FrameBytes(f, compression))
<1>1. f.payload \in Payload
  BY DEF Values
<1>2. f.payload \in Seq(Octet) /\ Len(f.payload) + 1 < Byte * Byte * Byte * Byte
  BY <1>1 DEF Payload, Octet
<1> DEFINE p == f.payload
           top == Byte * Byte * Byte * Byte
<1>3. Len(p) \in Nat /\ Len(p) + 1 < top /\ top \in Nat
  BY <1>2, Bases
<1>4. TRAILER_FLAG \in Octet /\ COMPRESSED_FLAG \in Octet /\ Mark \in Octet /\ 0 \in Octet
  BY Bases DEF TRAILER_FLAG, COMPRESSED_FLAG, Mark, Octet
<1>5. Len(p) < top
  <2> HIDE DEF p, top
  <2> QED
    BY <1>3
<1>6. Deflate(p) \in Seq(Octet) /\ Len(Deflate(p)) < top
  <2> DEFINE m == <<Mark>>
  <2>1. m \in Seq(Octet) /\ Len(m) = 1
    BY <1>4
  <2>10. m \in Seq(Octet)
    BY <2>1
  <2> HIDE DEF m, top, p
  <2>2. p \in Seq(Octet)
    BY <1>2 DEF p
  <2>3. m \o p \in Seq(Octet)
    BY <2>10, <2>2
  <2>30. Len(m \o p) = Len(m) + Len(p)
    BY <2>10, <2>2
  <2>4. Len(m \o p) < top
    BY <1>3, <2>1, <2>30
  <2> QED
    BY <2>3, <2>4 DEF m, Deflate
<1>7. CASE f.kind = "other"
  <2>1. f.flags \in Octet
    BY <1>7 DEF Values, Octet
  <2> QED
    BY <1>2, <1>5, <1>7, <2>1, FrameWritten DEF FrameBytes
<1>8. CASE f.kind # "other"
  <2>1. FrameBytes(f, compression) = encode(f, compression)
    BY <1>8 DEF FrameBytes
  <2>2. IsFrame(encodeRawFrame(p, TRAILER_FLAG))
    BY <1>2, <1>4, <1>5, FrameWritten
  <2>3. IsFrame(encodeRawFrame(p, 0))
    BY <1>2, <1>4, <1>5, FrameWritten
  <2>4. IsFrame(encodeRawFrame(Deflate(p), COMPRESSED_FLAG))
    BY <1>4, <1>6, FrameWritten
  <2> QED
    BY <2>1, <2>2, <2>3, <2>4 DEF encode
<1> QED
  BY <1>7, <1>8

\* The turns of the loop exist, one for every five bytes.
LEMMA FrameTurns ==
  ASSUME NEW b \in Seq(Octet)
  PROVE  LET n == Len(b) \div 5 IN
         \E turn : /\ turn[0] = [frames |-> <<>>, buffer |-> b, failed |-> FALSE]
                   /\ \A i \in 1..n : turn[i] = FrameTurn(turn[i - 1])
                   /\ FramePush(b) = turn[n]
<1> DEFINE start == [frames |-> <<>>, buffer |-> b, failed |-> FALSE]
           Is(f, n) == f = [i \in 0..n |-> IF i = 0 THEN start ELSE FrameTurn(f[i - 1])]
           S == {n \in Nat : \E f : Is(f, n)}
           m == Len(b) \div 5
           turn == CHOOSE f : Is(f, m)
<1>1. 0 \in S
  <2>1. Is([i \in 0..0 |-> start], 0)
    OBVIOUS
  <2> QED
    BY <2>1
<1>2. ASSUME NEW n \in Nat, n \in S PROVE n + 1 \in S
  <2>1. PICK f : Is(f, n)
    BY <1>2
  <2> DEFINE last == FrameTurn(f[n])
             g == [i \in 0..(n + 1) |-> IF i = n + 1 THEN last ELSE f[i]]
  <2>2. \A i \in 0..n : f[i] = IF i = 0 THEN start ELSE FrameTurn(f[i - 1])
    BY <2>1
  <2>3. ASSUME NEW i \in 0..(n + 1) PROVE g[i] = IF i = 0 THEN start ELSE FrameTurn(g[i - 1])
    <3> HIDE DEF start
    <3>1. CASE i = n + 1
      <4>1. g[n] = f[n] /\ i # 0 /\ i - 1 = n /\ g[i] = last
        BY <3>1
      <4> HIDE DEF g
      <4> QED
        BY <4>1
    <3>2. CASE i # n + 1
      <4>1. i \in 0..n /\ g[i] = f[i]
        BY <3>2
      <4>2. i # 0 => g[i - 1] = f[i - 1]
        BY <4>1
      <4> HIDE DEF g
      <4> QED
        BY <2>2, <4>1, <4>2
    <3> QED
      BY <3>1, <3>2
  <2>4. g = [i \in 0..(n + 1) |-> g[i]]
    OBVIOUS
  <2> HIDE DEF g, start
  <2>5. Is(g, n + 1)
    BY <2>3, <2>4
  <2> HIDE DEF Is, last
  <2>6. \E h : Is(h, n + 1)
    BY <2>5
  <2> QED
    BY <2>6
<1>3. m \in S
  <2>1. m \in Nat
    OBVIOUS
  <2> HIDE DEF S, m
  <2> QED
    BY <1>1, <1>2, <2>1, SetInduction
<1>4. \E f : Is(f, m)
  BY <1>3
<1>5. Is(turn, m)
  <2> HIDE DEF Is
  <2> QED
    BY <1>4, Zenon
<1>6. FramePush(b) = turn[m]
  BY DEF FramePush
<1>7. m \in Nat
  OBVIOUS
<1> HIDE DEF turn, start, m
<1>8. turn[0] = start
  BY <1>5, <1>7
<1>9. \A i \in 1..m : turn[i] = FrameTurn(turn[i - 1])
  BY <1>5, <1>7
<1> QED
  BY <1>6, <1>8, <1>9 DEF start, m

-----------------------------------------------------------------------------
(* The frames of a body *)

\* The frames of a body, and how many bytes the first k of them take.
AreFrames(F) == F \in Seq(Seq(Octet)) /\ \A k \in 1..Len(F) : IsFrame(F[k])
Off(F, k) == Len(FlatTo(F, k))

\* A frame as a reader sees it, and one whose flags it refuses.
FrameOf(b) == [flags |-> b[1], payload |-> SubSeq(b, 6, Len(b))]
BadHead(b) == IsTrailer(FrameOf(b)) /\ Compressed(FrameOf(b))

\* Of the bytes R, those behind the first k frames; R may hold no further frame.
Behind(F, R, k) == SubSeq(R, Off(F, k) + 1, Len(R))
Within(F, R, k) == k \in 0..Len(F) /\ Off(F, k) <= Len(R)
NoMore(F, R, k) == k = Len(F) \/ Off(F, k + 1) > Len(R)

\* Where a frame ends is a number, ...
LEMMA OffNat ==
  ASSUME NEW F, AreFrames(F), NEW k \in 0..Len(F)
  PROVE  Off(F, k) \in Nat
<1>1. FlatTo(F, k) \in Seq(Octet)
  BY FlatType DEF AreFrames
<1> QED
  BY <1>1 DEF Off

\* ... from the first byte to the last, ...
LEMMA OffEnds ==
  ASSUME NEW F, AreFrames(F)
  PROVE  Off(F, 0) = 0 /\ Off(F, Len(F)) = Len(FlattenSeq(F))
<1>1. FlatTo(F, 0) = <<>>
  BY FlatNone, Zenon
<1>2. FlattenSeq(F) = FlatTo(F, Len(F))
  BY FlattenTo DEF AreFrames
<1>3. Off(F, 0) = 0
  BY <1>1 DEF Off
<1> QED
  BY <1>2, <1>3 DEF Off

\* ... and each frame takes five bytes at least.
LEMMA OffSteps ==
  ASSUME NEW F, AreFrames(F), NEW k \in 1..Len(F)
  PROVE  /\ Off(F, k) = Off(F, k - 1) + Len(F[k])
         /\ Off(F, k - 1) + 5 <= Off(F, k)
         /\ Off(F, k) <= Len(FlattenSeq(F))
         /\ \A j \in 1..Len(F[k]) : FlattenSeq(F)[Off(F, k - 1) + j] = F[k][j]
<1>1. F \in Seq(Seq(Octet)) /\ IsFrame(F[k])
  BY DEF AreFrames
<1>2. Off(F, k) = Off(F, k - 1) + Len(F[k])
  BY <1>1, FlatPlace DEF Off
<1>3. Off(F, k) <= Len(FlattenSeq(F))
  BY <1>1, FlatPlace DEF Off
<1>4. \A j \in 1..Len(F[k]) : FlattenSeq(F)[Off(F, k - 1) + j] = F[k][j]
  BY <1>1, FlatPlace DEF Off
<1>5. k - 1 \in 0..Len(F) /\ k \in 0..Len(F)
  BY <1>1
<1>6. Off(F, k - 1) \in Nat
  BY <1>5, OffNat
<1>7. Len(F[k]) >= 5 /\ Len(F[k]) \in Nat
  BY <1>1 DEF IsFrame
<1>8. Off(F, k - 1) + 5 <= Off(F, k)
  BY <1>2, <1>6, <1>7
<1> QED
  BY <1>2, <1>3, <1>4, <1>8

\* The bytes behind k frames begin with the next one.
LEMMA NextFrame ==
  ASSUME NEW F, AreFrames(F), NEW R \in Seq(Octet), Leads(R, FlattenSeq(F)),
         NEW k \in 0..(Len(F) - 1), Off(F, k) <= Len(R)
  PROVE  LET b == Behind(F, R, k) IN
         /\ b \in Seq(Octet) /\ Len(b) = Len(R) - Off(F, k)
         /\ \A j \in 1..Len(b) : j <= Len(F[k + 1]) => b[j] = F[k + 1][j]
         /\ Len(b) >= 5 => readLength(b) = Len(F[k + 1]) - 5
<1> DEFINE b == Behind(F, R, k)
           w == FlattenSeq(F)
           o == Off(F, k)
           f == F[k + 1]
<1>1. k + 1 \in 1..Len(F) /\ (k + 1) - 1 = k /\ k \in 0..Len(F)
  BY DEF AreFrames
<1>2. o \in Nat
  BY <1>1, OffNat
<1>3. Len(R) \in Nat /\ o <= Len(R)
  OBVIOUS
<1>4. \A j \in 1..Len(f) : w[o + j] = f[j]
  BY <1>1, OffSteps
<1>5. \A i \in 1..Len(R) : w[i] = R[i]
  BY DEF Leads
<1>6. IsFrame(f)
  BY <1>1 DEF AreFrames
<1>7. Len(f) \in Nat /\ Len(f) >= 5 /\ readLength(f) = Len(f) - 5
  BY <1>6 DEF IsFrame
<1> HIDE DEF w, o, f
<1>8. b = SubSeq(R, o + 1, Len(R))
  BY DEF Behind, o
<1> HIDE DEF b
<1>9. b \in Seq(Octet)
  BY <1>2, <1>8
<1>10. Len(b) = Len(R) - o
  BY <1>2, <1>3, <1>8
<1>11. \A j \in 1..Len(b) : b[j] = R[o + j]
  BY <1>2, <1>3, <1>8, <1>10
<1>12. ASSUME NEW j \in 1..Len(b), j <= Len(f) PROVE b[j] = f[j]
  <2>1. o + j \in 1..Len(R) /\ j \in 1..Len(f)
    BY <1>2, <1>3, <1>7, <1>10, <1>12
  <2>2. b[j] = R[o + j] /\ w[o + j] = R[o + j] /\ w[o + j] = f[j]
    BY <1>4, <1>5, <1>11, <2>1
  <2> QED
    BY <2>2
<1>13. ASSUME Len(b) >= 5 PROVE readLength(b) = Len(f) - 5
  <2>1. \A j \in 1..5 : b[j] = f[j]
    <3>1. SUFFICES ASSUME NEW j \in 1..5 PROVE b[j] = f[j]
      OBVIOUS
    <3>2. Len(b) \in Nat
      BY <1>9
    <3>3. j \in 1..Len(b) /\ j <= Len(f)
      BY <1>7, <1>13, <3>2
    <3> QED
      BY <1>12, <3>3
  <2>2. b[2] = f[2] /\ b[3] = f[3] /\ b[4] = f[4] /\ b[5] = f[5]
    BY <2>1
  <2> QED
    BY <1>7, <2>2 DEF readLength
<1> QED
  BY <1>9, <1>10, <1>12, <1>13 DEF b, f, o

-----------------------------------------------------------------------------
(* The frames a push takes *)

\* A tail of a tail is a tail.
LEMMA SliceAgain ==
  ASSUME NEW X, NEW r \in Seq(X), NEW o \in Nat, NEW l \in Nat, o + l <= Len(r)
  PROVE  LET b == SubSeq(r, o + 1, Len(r))
         IN SubSeq(b, l + 1, Len(b)) = SubSeq(r, (o + l) + 1, Len(r))
<1> DEFINE b == SubSeq(r, o + 1, Len(r))
           c == SubSeq(b, l + 1, Len(b))
           d == SubSeq(r, (o + l) + 1, Len(r))
<1>1. Len(r) \in Nat
  OBVIOUS
<1>2. b \in Seq(X) /\ Len(b) = Len(r) - o
  BY <1>1
<1>3. \A j \in 1..Len(b) : b[j] = r[o + j]
  BY <1>1, <1>2
<1> HIDE DEF b
<1>4. c \in Seq(X) /\ Len(c) = (Len(r) - o) - l
  BY <1>1, <1>2
<1>5. \A j \in 1..Len(c) : c[j] = b[l + j]
  BY <1>1, <1>2, <1>4
<1> HIDE DEF c
<1>6. d \in Seq(X) /\ Len(d) = Len(r) - (o + l)
  BY <1>1
<1>7. \A j \in 1..Len(d) : d[j] = r[(o + l) + j]
  BY <1>1, <1>6
<1> HIDE DEF d
<1>8. Len(c) = Len(d) /\ Len(d) \in Nat
  BY <1>1, <1>4, <1>6
<1>9. ASSUME NEW j \in 1..Len(c) PROVE c[j] = d[j]
  <2>1. l + j \in 1..Len(b) /\ o + (l + j) = (o + l) + j
    BY <1>1, <1>2, <1>4, <1>6, <1>8
  <2> QED
    BY <1>3, <1>5, <1>7, <1>8, <2>1
<1>10. c = d
  BY <1>4, <1>6, <1>8, <1>9, SeqEqual
<1> QED
  BY <1>10 DEF b, c, d

\* A complete frame at the front of the bytes is taken as it was sent.
LEMMA FrameTaken ==
  ASSUME NEW F, AreFrames(F), NEW R \in Seq(Octet), Leads(R, FlattenSeq(F)),
         NEW k \in 0..(Len(F) - 1), Off(F, k + 1) <= Len(R)
  PROVE  LET b == Behind(F, R, k)
             n == readLength(b)
         IN /\ Len(b) >= 5 /\ Len(b) >= 5 + n
            /\ [flags |-> b[1], payload |-> SubSeq(b, 6, 5 + n)] = FrameOf(F[k + 1])
            /\ SubSeq(b, 6 + n, Len(b)) = Behind(F, R, k + 1)
<1> DEFINE b == Behind(F, R, k)
           n == readLength(b)
           f == F[k + 1]
           o == Off(F, k)
           l == Len(f)
<1>1. k + 1 \in 1..Len(F) /\ (k + 1) - 1 = k /\ k \in 0..Len(F)
  BY DEF AreFrames
<1>2. Off(F, k + 1) = o + l
  BY <1>1, OffSteps
<1>3. o \in Nat /\ Len(R) \in Nat
  BY <1>1, OffNat
<1>4. IsFrame(f)
  BY <1>1 DEF AreFrames
<1>5. f \in Seq(Octet) /\ l \in Nat /\ l >= 5
  BY <1>4 DEF IsFrame
<1>6. o <= Len(R) /\ o + l <= Len(R)
  BY <1>2, <1>3, <1>5
<1>7. b \in Seq(Octet) /\ Len(b) = Len(R) - o /\ (Len(b) >= 5 => n = l - 5)
  BY <1>1, <1>6, NextFrame
<1>8. \A j \in 1..Len(b) : j <= l => b[j] = f[j]
  BY <1>1, <1>6, NextFrame
<1> HIDE DEF b, n, f, o, l
<1>9. Len(b) >= l /\ Len(b) >= 5 /\ n = l - 5
  BY <1>3, <1>5, <1>6, <1>7
<1>10. 5 + n = l /\ 6 + n = l + 1
  BY <1>5, <1>9
<1>11. b[1] = f[1]
  BY <1>5, <1>7, <1>8, <1>9
<1>12. SubSeq(b, 6, l) = SubSeq(f, 6, l)
  <2> DEFINE p == SubSeq(b, 6, l)
             q == SubSeq(f, 6, l)
  <2>1. p \in Seq(Octet) /\ Len(p) = l - 5
    BY <1>5, <1>7, <1>9
  <2>0. l = Len(f)
    BY DEF l
  <2>2. q \in Seq(Octet) /\ Len(q) = l - 5
    BY <1>5, <2>0
  <2>3. \A j \in 1..(l - 5) : p[j] = b[5 + j]
    BY <1>5, <1>7, <1>9
  <2>4. \A j \in 1..(l - 5) : q[j] = f[5 + j]
    BY <1>5, <2>0
  <2> HIDE DEF p, q
  <2>5. ASSUME NEW j \in 1..Len(p) PROVE p[j] = q[j]
    <3>1. j \in 1..(l - 5) /\ 5 + j \in 1..Len(b) /\ 5 + j <= l
      BY <1>5, <1>9, <1>7, <2>1
    <3> QED
      BY <1>8, <2>3, <2>4, <3>1
  <2>6. p = q
    BY <2>1, <2>2, <2>5, SeqEqual
  <2> QED
    BY <2>6 DEF p, q
<1>13. SubSeq(b, l + 1, Len(b)) = SubSeq(R, (o + l) + 1, Len(R))
  BY <1>3, <1>5, <1>6, SliceAgain DEF b, Behind, o
<1>14. Behind(F, R, k + 1) = SubSeq(R, (o + l) + 1, Len(R))
  BY <1>2 DEF Behind
<1>15. [flags |-> b[1], payload |-> SubSeq(b, 6, 5 + n)] = FrameOf(f)
  BY <1>10, <1>11, <1>12 DEF FrameOf, l
<1>16. SubSeq(b, 6 + n, Len(b)) = Behind(F, R, k + 1)
  BY <1>10, <1>13, <1>14
<1>17. Len(b) >= 5 /\ Len(b) >= 5 + n
  BY <1>9, <1>10
<1> QED
  BY <1>15, <1>16, <1>17 DEF b, n, f

\* And without one the loop ends.
LEMMA NoFrameYet ==
  ASSUME NEW F, AreFrames(F), NEW R \in Seq(Octet), Leads(R, FlattenSeq(F)),
         NEW k, Within(F, R, k), NoMore(F, R, k)
  PROVE  LET b == Behind(F, R, k) IN Len(b) < 5 \/ Len(b) < 5 + readLength(b)
<1> DEFINE b == Behind(F, R, k)
           o == Off(F, k)
<1>1. k \in 0..Len(F) /\ o <= Len(R) /\ Len(F) \in Nat
  BY DEF Within, AreFrames
<1>2. o \in Nat /\ Len(R) \in Nat
  BY <1>1, OffNat
<1>3. CASE k = Len(F)
  <2>1. o = Len(FlattenSeq(F)) /\ Len(R) <= Len(FlattenSeq(F))
    BY <1>3, OffEnds DEF Leads
  <2>2. FlattenSeq(F) \in Seq(Octet)
    BY FlattenTo DEF AreFrames
  <2>3. Len(FlattenSeq(F)) \in Nat
    BY <2>2
  <2>4. o = Len(R)
    BY <1>1, <1>2, <2>1, <2>3
  <2>5. Len(b) = 0
    <3> HIDE DEF o
    <3>1. b = SubSeq(R, o + 1, o)
      BY <2>4 DEF Behind, o
    <3> QED
      BY <1>2, <3>1
  <2> QED
    BY <2>5
<1>4. CASE k # Len(F)
  <2>1. k \in 0..(Len(F) - 1) /\ k + 1 \in 1..Len(F) /\ (k + 1) - 1 = k
    BY <1>1, <1>4
  <2>2. Off(F, k + 1) > Len(R)
    BY <1>4 DEF NoMore
  <2>3. Off(F, k + 1) = o + Len(F[k + 1])
    BY <2>1, OffSteps
  <2>4. Len(b) = Len(R) - o /\ (Len(b) >= 5 => readLength(b) = Len(F[k + 1]) - 5)
    BY <1>1, <2>1, NextFrame
  <2>5. IsFrame(F[k + 1])
    BY <2>1 DEF AreFrames
  <2>6. Len(F[k + 1]) \in Nat
    BY <2>5 DEF IsFrame
  <2> HIDE DEF b, o
  <2>7. CASE Len(b) >= 5
    BY <1>2, <2>2, <2>3, <2>4, <2>6, <2>7 DEF b
  <2>8. CASE ~ Len(b) >= 5
    BY <1>2, <2>4, <2>8 DEF b
  <2> QED
    BY <2>7, <2>8
<1> QED
  BY <1>3, <1>4

\* The frames after k0 up to k.
Part(F, k0, k) == [i \in 1..(k - k0) |-> FrameOf(F[k0 + i])]

\* What the loop of push has made of bytes R, with the first k0 frames taken before.
Taken(F, R, k0, at, k) ==
  /\ Within(F, R, k) /\ k0 <= k
  /\ at = [frames |-> Part(F, k0, k), buffer |-> Behind(F, R, k), failed |-> FALSE]
  /\ \A i \in (k0 + 1)..k : ~BadHead(F[i])

Refused(F, at) == at.failed /\ at.frames = <<>> /\ \E i \in 1..Len(F) : BadHead(F[i])

\* A turn takes the next frame, refuses it, or finds it incomplete and the loop ends.
LEMMA TurnTakes ==
  ASSUME NEW F, AreFrames(F), NEW R \in Seq(Octet), Leads(R, FlattenSeq(F)),
         NEW k0 \in Nat, NEW k, NEW at, Taken(F, R, k0, at, k)
  PROVE  IF NoMore(F, R, k) THEN FrameTurn(at) = at
         ELSE k + 1 \in 1..Len(F) /\ (Refused(F, FrameTurn(at)) \/ Taken(F, R, k0, FrameTurn(at), k + 1))
<1> DEFINE b == Behind(F, R, k)
           n == readLength(b)
<1>1. at.buffer = b /\ at.frames = Part(F, k0, k) /\ ~at.failed
  BY DEF Taken
<1>2. k \in 0..Len(F) /\ Within(F, R, k) /\ k0 <= k /\ Len(F) \in Nat
  BY DEF Taken, Within, AreFrames
<1>3. CASE NoMore(F, R, k)
  <2>1. Len(b) < 5 \/ Len(b) < 5 + n
    BY <1>2, <1>3, NoFrameYet
  <2> HIDE DEF b
  <2>2. FrameTurn(at) = at
    BY <1>1, <2>1 DEF FrameTurn
  <2> QED
    BY <1>3, <2>2
<1>4. CASE ~NoMore(F, R, k)
  <2> DEFINE f == FrameOf(F[k + 1])
             after == Behind(F, R, k + 1)
  <2>1. k \in 0..(Len(F) - 1) /\ k + 1 \in 1..Len(F) /\ k \in Nat
    BY <1>2, <1>4 DEF NoMore
  <2>2. Off(F, k + 1) \in Nat /\ Len(R) \in Nat
    BY <2>1, OffNat
  <2>3. Off(F, k + 1) <= Len(R)
    BY <1>4, <2>2 DEF NoMore
  <2>4. /\ Len(b) >= 5 /\ Len(b) >= 5 + n
        /\ [flags |-> b[1], payload |-> SubSeq(b, 6, 5 + n)] = f
        /\ SubSeq(b, 6 + n, Len(b)) = after
    BY <2>1, <2>3, FrameTaken
  <2>40. ~(Len(b) < 5) /\ ~(Len(b) < 5 + n)
    <3>1. b \in Seq(Octet) /\ Len(b) \in Nat
      BY <1>2, <2>1, NextFrame DEF Within
    <3>2. n \in Int
      <4>1. n = Len(F[k + 1]) - 5
        BY <1>2, <2>1, <2>4, NextFrame DEF Within
      <4>2. IsFrame(F[k + 1])
        BY <2>1 DEF AreFrames
      <4>3. Len(F[k + 1]) \in Nat
        BY <4>2 DEF IsFrame
      <4> QED
        BY <4>1, <4>3
    <3> HIDE DEF b, n
    <3> QED
      BY <2>4, <3>1, <3>2
  <2> HIDE DEF b, n
  <2>5. FrameTurn(at) =
          IF IsTrailer(f) /\ Compressed(f) THEN [frames |-> <<>>, buffer |-> after, failed |-> TRUE]
          ELSE [frames |-> Append(at.frames, f), buffer |-> after, failed |-> FALSE]
    BY <1>1, <2>4, <2>40 DEF FrameTurn, n
  <2>6. CASE BadHead(F[k + 1])
    <3>1. Refused(F, FrameTurn(at))
      BY <2>1, <2>5, <2>6 DEF Refused, BadHead
    <3> QED
      BY <1>4, <2>1, <3>1
  <2>7. CASE ~BadHead(F[k + 1])
    <3>1. FrameTurn(at) = [frames |-> Append(at.frames, f), buffer |-> after, failed |-> FALSE]
      BY <2>5, <2>7 DEF BadHead
    <3>2. Append(Part(F, k0, k), f) = Part(F, k0, k + 1)
      <4> HIDE DEF f
      <4>1. k - k0 \in Nat /\ (k + 1) - k0 = (k - k0) + 1 /\ k0 + ((k - k0) + 1) = k + 1
        BY <1>2, <2>1
      <4>2. Part(F, k0, k) = [i \in 1..(k - k0) |-> FrameOf(F[k0 + i])]
        BY DEF Part
      <4> DEFINE m == k - k0
                 p == Part(F, k0, k)
      <4>3. f = FrameOf(F[k0 + (m + 1)])
        BY <4>1 DEF f
      <4>4. Part(F, k0, k + 1) = [i \in 1..(m + 1) |-> FrameOf(F[k0 + i])]
        BY <4>1 DEF Part
      <4> DEFINE g(i) == FrameOf(F[k0 + i])
      <4>5. p = [i \in 1..m |-> g(i)] /\ f = g(m + 1) /\ m \in Nat
        BY <4>1, <4>2, <4>3
      <4> HIDE DEF g, m, p
      <4>6. Append(p, f) = [i \in 1..(m + 1) |-> g(i)]
        BY <4>5
      <4> QED
        BY <4>4, <4>6 DEF g, p
    <3>3. Within(F, R, k + 1)
      BY <2>1, <2>3 DEF Within
    <3>4. k0 <= k + 1 /\ \A i \in (k0 + 1)..(k + 1) : ~BadHead(F[i])
      <4>1. ASSUME NEW i \in (k0 + 1)..(k + 1) PROVE ~BadHead(F[i])
        <5>1. i = k + 1 \/ i \in (k0 + 1)..k
          BY <2>1
        <5> QED
          BY <2>7, <5>1 DEF Taken
      <4> QED
        BY <1>2, <2>1, <4>1
    <3>5. Taken(F, R, k0, FrameTurn(at), k + 1)
      BY <1>1, <3>1, <3>2, <3>3, <3>4 DEF Taken
    <3> QED
      BY <1>4, <2>1, <3>5
  <2> QED
    BY <2>6, <2>7
<1> QED
  BY <1>3, <1>4

\* A push takes all the frames that are complete, or finds one it refuses.
LEMMA PushTakes ==
  ASSUME NEW F, AreFrames(F), NEW R \in Seq(Octet), Leads(R, FlattenSeq(F)),
         NEW k0, Within(F, R, k0)
  PROVE  LET at == FramePush(Behind(F, R, k0)) IN
         Refused(F, at) \/ \E k \in 0..Len(F) : Taken(F, R, k0, at, k) /\ NoMore(F, R, k)
<1> DEFINE b == Behind(F, R, k0)
           n == Len(b) \div 5
           o == Off(F, k0)
<1>1. k0 \in 0..Len(F) /\ Len(F) \in Nat /\ k0 \in Nat /\ o <= Len(R)
  BY DEF Within, AreFrames
<1>2. o \in Nat /\ Len(R) \in Nat
  BY <1>1, OffNat
<1>3. b \in Seq(Octet) /\ Len(b) = Len(R) - o
  <2> HIDE DEF o
  <2>1. b = SubSeq(R, o + 1, Len(R))
    BY DEF Behind, o
  <2> QED
    BY <1>1, <1>2, <2>1
<1>4. PICK turn : /\ turn[0] = [frames |-> <<>>, buffer |-> b, failed |-> FALSE]
                  /\ \A i \in 1..n : turn[i] = FrameTurn(turn[i - 1])
                  /\ FramePush(b) = turn[n]
  BY <1>3, FrameTurns
<1> DEFINE Done(i) == \E k \in 0..Len(F) : /\ Taken(F, R, k0, turn[i], k)
                                           /\ NoMore(F, R, k) \/ o + 5 * i <= Off(F, k)
           S == {i \in Nat : i <= n => Refused(F, turn[i]) \/ Done(i)}
<1>5. n \in Nat /\ Len(b) < 5 * n + 5
  <2> HIDE DEF b
  <2> QED
    BY <1>2, <1>3
<1> HIDE DEF b, n
<1>6. 0 \in S
  <2>1. Part(F, k0, k0) = <<>>
    BY <1>1 DEF Part
  <2>2. \A i \in (k0 + 1)..k0 : FALSE
    BY <1>1
  <2>3. turn[0] = [frames |-> Part(F, k0, k0), buffer |-> Behind(F, R, k0), failed |-> FALSE]
    BY <1>4, <2>1 DEF b
  <2>4. k0 <= k0 /\ o + 5 * 0 <= Off(F, k0)
    BY <1>1, <1>2
  <2>5. Taken(F, R, k0, turn[0], k0)
    BY <2>2, <2>3, <2>4 DEF Taken
  <2>6. Done(0)
    BY <1>1, <2>4, <2>5
  <2> HIDE DEF Done
  <2> QED
    BY <2>6
<1>7. ASSUME NEW i \in 0..(n - 1), i \in S PROVE i + 1 \in S
  <2>1. i + 1 \in 1..n /\ (i + 1) - 1 = i /\ i \in Nat /\ i + 1 \in Nat /\ i <= n
    BY <1>5
  <2>2. turn[i + 1] = FrameTurn(turn[i])
    BY <1>4, <2>1
  <2>3. CASE Refused(F, turn[i])
    <3>1. turn[i + 1] = turn[i]
      BY <2>2, <2>3 DEF Refused, FrameTurn
    <3>2. Refused(F, turn[i + 1])
      BY <2>3, <3>1
    <3> HIDE DEF Done
    <3> QED
      BY <2>1, <3>2
  <2>4. CASE Done(i)
    <3>1. PICK k \in 0..Len(F) : /\ Taken(F, R, k0, turn[i], k)
                                 /\ NoMore(F, R, k) \/ o + 5 * i <= Off(F, k)
      BY <2>4
    <3>2. IF NoMore(F, R, k) THEN FrameTurn(turn[i]) = turn[i]
          ELSE k + 1 \in 1..Len(F) /\ (\/ Refused(F, FrameTurn(turn[i]))
                                       \/ Taken(F, R, k0, FrameTurn(turn[i]), k + 1))
      BY <1>1, <3>1, TurnTakes
    <3>3. CASE NoMore(F, R, k)
      <4>1. Taken(F, R, k0, turn[i + 1], k)
        BY <2>2, <3>1, <3>2, <3>3
      <4>2. Done(i + 1)
        BY <3>3, <4>1
      <4> HIDE DEF Done
      <4> QED
        BY <2>1, <4>2
    <3>4. CASE ~NoMore(F, R, k)
      <4>1. k + 1 \in 1..Len(F) /\ (Refused(F, turn[i + 1]) \/ Taken(F, R, k0, turn[i + 1], k + 1))
        BY <2>2, <3>2, <3>4
      <4>2. (k + 1) - 1 = k /\ k + 1 \in 0..Len(F) /\ k \in 0..Len(F)
        BY <1>1, <4>1
      <4>3. Off(F, k) + 5 <= Off(F, k + 1)
        BY <4>1, <4>2, OffSteps
      <4>4. Off(F, k) \in Nat
        BY OffNat
      <4>40. Off(F, k + 1) \in Nat
        BY <4>1, <4>2, OffNat
      <4>5. o + 5 * (i + 1) <= Off(F, k + 1)
        <5>1. o + 5 * i <= Off(F, k)
          BY <3>1, <3>4
        <5> HIDE DEF o
        <5> QED
          BY <1>2, <2>1, <4>3, <4>4, <4>40, <5>1
      <4>6. CASE Refused(F, turn[i + 1])
        <5> HIDE DEF Done
        <5> QED
          BY <2>1, <4>6
      <4>7. CASE Taken(F, R, k0, turn[i + 1], k + 1)
        <5>1. Done(i + 1)
          BY <4>2, <4>5, <4>7
        <5> HIDE DEF Done
        <5> QED
          BY <2>1, <5>1
      <4> QED
        BY <4>1, <4>6, <4>7
    <3> QED
      BY <3>3, <3>4
  <2> HIDE DEF Done
  <2> QED
    BY <1>7, <2>1, <2>3, <2>4
<1> HIDE DEF S
<1>8. 0..n \subseteq S
  BY <1>5, <1>6, <1>7, UpTo
<1>9. n \in S
  BY <1>5, <1>8
<1>10. Refused(F, turn[n]) \/ Done(n)
  BY <1>5, <1>9 DEF S
<1>11. ASSUME Done(n) PROVE \E k \in 0..Len(F) : Taken(F, R, k0, turn[n], k) /\ NoMore(F, R, k)
  <2>1. PICK k \in 0..Len(F) : /\ Taken(F, R, k0, turn[n], k)
                               /\ NoMore(F, R, k) \/ o + 5 * n <= Off(F, k)
    BY <1>11
  <2>2. NoMore(F, R, k)
    <3>1. CASE k # Len(F) /\ o + 5 * n <= Off(F, k)
      <4>1. k + 1 \in 1..Len(F) /\ (k + 1) - 1 = k /\ k + 1 \in 0..Len(F)
        BY <1>1, <3>1
      <4>2. Off(F, k) + 5 <= Off(F, k + 1)
        BY <4>1, OffSteps
      <4>3. Off(F, k) \in Nat
        BY OffNat
      <4>4. Off(F, k + 1) \in Nat
        BY <4>1, OffNat
      <4>5. Off(F, k + 1) > Len(R)
        <5> HIDE DEF o
        <5>1. Len(b) = Len(R) - o
          BY <1>3
        <5> QED
          BY <1>2, <1>5, <3>1, <4>2, <4>3, <4>4, <5>1
      <4> QED
        BY <4>5 DEF NoMore
    <3>2. CASE k = Len(F)
      BY <3>2 DEF NoMore
    <3> QED
      BY <2>1, <3>1, <3>2
  <2> QED
    BY <2>1, <2>2
<1> HIDE DEF Done
<1>12. FramePush(Behind(F, R, k0)) = turn[n]
  BY <1>4 DEF b
<1> QED
  BY <1>10, <1>11, <1>12

-----------------------------------------------------------------------------
(* Chunks, one after the other *)

\* What is added behind a sequence is added behind each of its tails.
LEMMA SliceMore ==
  ASSUME NEW X, NEW R \in Seq(X), NEW c \in Seq(X), NEW o \in Nat, o <= Len(R)
  PROVE  SubSeq(R, o + 1, Len(R)) \o c = SubSeq(R \o c, o + 1, Len(R \o c))
<1> DEFINE t == R \o c
           b == SubSeq(R, o + 1, Len(R))
           d == SubSeq(t, o + 1, Len(t))
<1>1. Len(R) \in Nat /\ Len(c) \in Nat
  OBVIOUS
<1>2. t \in Seq(X) /\ Len(t) = Len(R) + Len(c)
  OBVIOUS
<1>3. \A i \in 1..Len(R) : t[i] = R[i]
  OBVIOUS
<1>4. \A i \in 1..Len(c) : t[Len(R) + i] = c[i]
  OBVIOUS
<1> HIDE DEF t
<1>5. b \in Seq(X) /\ Len(b) = Len(R) - o
  BY <1>1
<1>6. \A i \in 1..Len(b) : b[i] = R[o + i]
  BY <1>1, <1>5
<1>7. d \in Seq(X) /\ Len(d) = (Len(R) + Len(c)) - o
  BY <1>1, <1>2
<1>8. \A i \in 1..Len(d) : d[i] = t[o + i]
  BY <1>1, <1>2, <1>7
<1> HIDE DEF b, d
<1> DEFINE e == b \o c
<1>9. e \in Seq(X) /\ Len(e) = Len(b) + Len(c)
  BY <1>5
<1>10. \A i \in 1..Len(b) : e[i] = b[i]
  BY <1>5
<1>11. \A i \in 1..Len(c) : e[Len(b) + i] = c[i]
  BY <1>5
<1> HIDE DEF e
<1>12. Len(e) = Len(d)
  BY <1>1, <1>5, <1>7, <1>9
<1>13. ASSUME NEW i \in 1..Len(e) PROVE e[i] = d[i]
  <2>1. d[i] = t[o + i]
    BY <1>8, <1>12
  <2>2. CASE i <= Len(b)
    <3>1. i \in 1..Len(b) /\ o + i \in 1..Len(R)
      BY <1>1, <1>5, <1>9, <2>2
    <3> QED
      BY <1>3, <1>6, <1>10, <2>1, <3>1
  <2>3. CASE ~ i <= Len(b)
    <3>1. i - Len(b) \in 1..Len(c) /\ Len(b) + (i - Len(b)) = i /\ o + i = Len(R) + (i - Len(b))
      BY <1>1, <1>5, <1>9, <2>3
    <3>2. e[Len(b) + (i - Len(b))] = c[i - Len(b)] /\ t[Len(R) + (i - Len(b))] = c[i - Len(b)]
      BY <1>4, <1>11, <3>1
    <3> QED
      BY <2>1, <3>1, <3>2
  <2> QED
    BY <2>2, <2>3
<1>14. e = d
  BY <1>7, <1>9, <1>12, <1>13, SeqEqual
<1> QED
  BY <1>14 DEF e, d, b, t

\* The values of the first k frames, none of them a bad one.
Yielded(F, values, k) ==
  /\ k \in 0..Len(F)
  /\ values = [i \in 1..k |-> ValueOf(FrameOf(F[i]))]
  /\ \A i \in 1..k : ~Malformed(FrameOf(F[i]))

\* The frame decoder has read R, or has met a bad frame.
ReadTo(F, R, at) ==
  /\ ~at.failed
  /\ \E k \in 0..Len(F) : /\ Within(F, R, k) /\ NoMore(F, R, k)
                          /\ at.buffer = Behind(F, R, k)
                          /\ Yielded(F, at.got, k)

Spoiled(F, at) ==
  /\ at.failed
  /\ \E i \in 1..Len(F) : Malformed(FrameOf(F[i]))
  /\ \E k \in 0..Len(F) : Yielded(F, at.got, k)

\* More bytes go behind the ones that wait.
LEMMA BehindMore ==
  ASSUME NEW F, AreFrames(F), NEW R \in Seq(Octet), NEW c \in Seq(Octet), NEW k, Within(F, R, k)
  PROVE  Behind(F, R, k) \o c = Behind(F, R \o c, k) /\ Within(F, R \o c, k)
<1> DEFINE o == Off(F, k)
<1>1. k \in 0..Len(F) /\ o <= Len(R)
  BY DEF Within
<1>2. o \in Nat /\ Len(R) \in Nat /\ Len(c) \in Nat
  BY <1>1, OffNat
<1> HIDE DEF o
<1>3. Len(R \o c) = Len(R) + Len(c)
  OBVIOUS
<1>4. SubSeq(R, o + 1, Len(R)) \o c = SubSeq(R \o c, o + 1, Len(R \o c))
  BY <1>1, <1>2, SliceMore
<1>5. o <= Len(R \o c)
  BY <1>1, <1>2, <1>3
<1> QED
  BY <1>1, <1>4, <1>5, Zenon DEF o, Behind, Within

\* The values of further frames go behind the ones there are.
LEMMA YieldMore ==
  ASSUME NEW F, AreFrames(F), NEW values, NEW k, Yielded(F, values, k), NEW m \in Nat, k + m <= Len(F),
         \A i \in (k + 1)..(k + m) : ~Malformed(FrameOf(F[i])),
         NEW frames, frames = [i \in 1..m |-> FrameOf(F[k + i])]
  PROVE  Yielded(F, values \o Map(ValueOf, frames), k + m)
<1> DEFINE v(i) == ValueOf(FrameOf(F[i]))
           V == {v(i) : i \in Nat}
           p == Map(ValueOf, frames)
           q == values \o p
<1>1. k \in Nat /\ Len(F) \in Nat /\ k + m \in 0..Len(F)
  BY DEF Yielded, AreFrames
<1>2. values = [i \in 1..k |-> v(i)]
  BY DEF Yielded
<1>3. p = [i \in 1..m |-> v(k + i)]
  BY DEF Map
<1> HIDE DEF v, p
<1>4. values \in Seq(V) /\ Len(values) = k
  BY <1>1, <1>2
<1>5. p \in Seq(V) /\ Len(p) = m
  <2>1. ASSUME NEW i \in 1..m PROVE v(k + i) \in V
    <3>1. k + i \in Nat
      BY <1>1
    <3> QED
      BY <3>1
  <2> HIDE DEF V
  <2>2. p \in Seq(V)
    BY <1>3, <2>1
  <2> QED
    BY <1>3, <2>2
<1> HIDE DEF V
<1>6. q \in Seq(V) /\ Len(q) = k + m
  <2>1. q \in Seq(V)
    BY <1>4, <1>5
  <2>2. Len(q) = Len(values) + Len(p)
    BY <1>4, <1>5
  <2> QED
    BY <1>4, <1>5, <2>1, <2>2, Zenon
<1>7. \A i \in 1..k : q[i] = values[i]
  BY <1>4, <1>5
<1>8. \A i \in 1..m : q[k + i] = p[i]
  BY <1>4, <1>5
<1> HIDE DEF q
<1>9. ASSUME NEW i \in 1..(k + m) PROVE q[i] = v(i)
  <2>1. CASE i <= k
    <3>1. i \in 1..k
      BY <1>1, <2>1
    <3> QED
      BY <1>2, <1>7, <3>1
  <2>2. CASE ~ i <= k
    <3>1. i - k \in 1..m /\ k + (i - k) = i
      BY <1>1, <2>2
    <3>2. q[k + (i - k)] = p[i - k] /\ p[i - k] = v(k + (i - k))
      BY <1>3, <1>8, <3>1
    <3> QED
      BY <3>1, <3>2
  <2> QED
    BY <2>1, <2>2
<1>10. q = [i \in 1..(k + m) |-> v(i)]
  <2>1. q = [i \in 1..Len(q) |-> q[i]]
    BY <1>6
  <2> QED
    BY <1>6, <1>9, <2>1
<1>11. \A i \in 1..(k + m) : ~Malformed(FrameOf(F[i]))
  <2>1. SUFFICES ASSUME NEW i \in 1..(k + m) PROVE ~Malformed(FrameOf(F[i]))
    OBVIOUS
  <2>2. i \in 1..k \/ i \in (k + 1)..(k + m)
    BY <1>1
  <2> QED
    BY <2>2 DEF Yielded
<1>12. Yielded(F, q, k + m)
  BY <1>1, <1>10, <1>11 DEF Yielded, v
<1> QED
  BY <1>12 DEF q, p

\* What decode keeps of the frames a push has found.
LEMMA SoundFront ==
  ASSUME NEW X, NEW frames \in Seq(X)
  PROVE  \E m \in 0..Len(frames) :
           /\ \A i \in 1..m : ~Undecodable(frames[i])
           /\ IF m = Len(frames) THEN Sound(frames) = frames
              ELSE /\ Sound(frames) = SubSeq(frames, 1, m) /\ Undecodable(frames[m + 1])
                   /\ Len(Sound(frames)) = m
<1> DEFINE bad == {i \in DOMAIN frames : Undecodable(frames[i])}
<1>1. Len(frames) \in Nat /\ DOMAIN frames = 1..Len(frames)
  OBVIOUS
<1>2. CASE bad = {}
  <2>1. Sound(frames) = frames
    BY <1>2 DEF Sound
  <2>2. \A i \in 1..Len(frames) : ~Undecodable(frames[i])
    BY <1>1, <1>2
  <2>3. Len(frames) \in 0..Len(frames)
    BY <1>1
  <2> QED
    BY <2>1, <2>2, <2>3
<1>3. CASE bad # {}
  <2> DEFINE j == Min(bad)
             m == j - 1
  <2>1. bad \subseteq Nat
    BY <1>1
  <2>2. j \in bad /\ \A i \in bad : j <= i
    <3> HIDE DEF bad
    <3> QED
      BY <1>3, <2>1, LeastNat
  <2>3. Sound(frames) = SubSeq(frames, 1, m)
    BY <1>3 DEF Sound
  <2> HIDE DEF j
  <2>4. j \in 1..Len(frames) /\ Undecodable(frames[j])
    BY <1>1, <2>2
  <2>5. m \in 0..Len(frames) /\ m + 1 = j /\ m # Len(frames)
    BY <1>1, <2>4
  <2>6. \A i \in 1..m : ~Undecodable(frames[i])
    <3>1. SUFFICES ASSUME NEW i \in 1..m, Undecodable(frames[i]) PROVE FALSE
      OBVIOUS
    <3>2. i \in 1..Len(frames) /\ ~(j <= i)
      BY <1>1, <2>4
    <3>3. i \in bad
      BY <1>1, <3>1, <3>2
    <3> QED
      BY <2>2, <3>2, <3>3
  <2>7. Len(SubSeq(frames, 1, m)) = m
    BY <2>5
  <2> HIDE DEF m
  <2> QED
    BY <2>3, <2>4, <2>5, <2>6, <2>7
<1> QED
  BY <1>2, <1>3

\* A chunk pushed into the frame decoder is read.
LEMMA ChunkRead ==
  ASSUME NEW F, AreFrames(F), NEW R \in Seq(Octet), NEW c \in Seq(Octet),
         Leads(R \o c, FlattenSeq(F)), NEW at, ReadTo(F, R, at)
  PROVE  ReadTo(F, R \o c, PushChunk(at, c)) \/ Spoiled(F, PushChunk(at, c))
<1> DEFINE t == R \o c
           after == PushChunk(at, c)
<1>1. PICK k \in 0..Len(F) : /\ Within(F, R, k)
                             /\ at.buffer = Behind(F, R, k)
                             /\ Yielded(F, at.got, k)
  BY DEF ReadTo
<1>2. t \in Seq(Octet)
  OBVIOUS
<1>3. at.buffer \o c = Behind(F, t, k) /\ Within(F, t, k)
  BY <1>1, BehindMore
<1> HIDE DEF t
<1> DEFINE pushed == FramePush(Behind(F, t, k))
           sound == Sound(pushed.frames)
<1>4. Leads(t, FlattenSeq(F))
  BY DEF t
<1>5. after = [buffer |-> pushed.buffer, got |-> at.got \o Map(ValueOf, sound),
               failed |-> pushed.failed \/ Len(sound) # Len(pushed.frames)]
  BY <1>3 DEF PushChunk, ReadTo
<1>6. Refused(F, pushed) \/ \E l \in 0..Len(F) : Taken(F, t, k, pushed, l) /\ NoMore(F, t, l)
  BY <1>2, <1>3, <1>4, PushTakes
<1>7. k \in Nat /\ Len(F) \in Nat
  BY DEF AreFrames
<1> HIDE DEF pushed, after
<1>8. CASE Refused(F, pushed)
  <2>1. pushed.failed /\ pushed.frames = <<>>
    BY <1>8 DEF Refused
  <2>2. sound = <<>>
    <3>1. {i \in DOMAIN <<>> : Undecodable(<<>>[i])} = {}
      OBVIOUS
    <3>2. Sound(<<>>) = <<>>
      BY <3>1, Zenon DEF Sound
    <3> QED
      BY <2>1, <3>2
  <2>3. PICK i \in 1..Len(F) : BadHead(F[i])
    BY <1>8 DEF Refused
  <2>4. Malformed(FrameOf(F[i]))
    BY <2>3 DEF BadHead, Malformed
  <2>5. Yielded(F, at.got \o Map(ValueOf, sound), k + 0)
    <3>1. sound = [j \in 1..0 |-> FrameOf(F[k + j])]
      BY <2>2
    <3>2. \A j \in (k + 1)..(k + 0) : FALSE
      BY <1>7
    <3> HIDE DEF sound
    <3>3. k + 0 <= Len(F)
      BY <1>7
    <3> QED
      BY <1>1, <3>1, <3>2, <3>3, YieldMore
  <2>6. k + 0 \in 0..Len(F)
    BY <1>7
  <2>7. Yielded(F, after.got, k + 0) /\ after.failed
    BY <1>5, <2>1, <2>5
  <2>8. Spoiled(F, after)
    BY <2>3, <2>4, <2>6, <2>7 DEF Spoiled
  <2> QED
    BY <2>8 DEF after, t
<1>9. ASSUME NEW l \in 0..Len(F), Taken(F, t, k, pushed, l), NoMore(F, t, l)
      PROVE  ReadTo(F, t, after) \/ Spoiled(F, after)
  <2> DEFINE n == l - k
             frames == pushed.frames
  <2>1. frames = [i \in 1..n |-> FrameOf(F[k + i])] /\ pushed.buffer = Behind(F, t, l) /\ ~pushed.failed
    BY <1>9 DEF Taken, Part
  <2>2. n \in Nat /\ k + n = l /\ Within(F, t, l)
    BY <1>7, <1>9 DEF Taken
  <2>3. \A i \in (k + 1)..l : ~BadHead(F[i])
    BY <1>9 DEF Taken
  <2> HIDE DEF n
  <2> DEFINE X == {FrameOf(F[k + i]) : i \in 1..n}
  <2>4. frames \in Seq(X) /\ Len(frames) = n
    <3>1. \A i \in 1..n : FrameOf(F[k + i]) \in X
      OBVIOUS
    <3> HIDE DEF X, frames
    <3>2. frames = [i \in 1..n |-> FrameOf(F[k + i])]
      BY <2>1 DEF frames
    <3>3. frames \in Seq(X)
      BY <2>2, <3>1, <3>2
    <3> QED
      BY <2>2, <3>2, <3>3
  <2> HIDE DEF X, frames
  <2>5. PICK m \in 0..n :
           /\ \A i \in 1..m : ~Undecodable(frames[i])
           /\ IF m = n THEN sound = frames
              ELSE sound = SubSeq(frames, 1, m) /\ Undecodable(frames[m + 1]) /\ Len(sound) = m
    BY <2>4, SoundFront DEF frames
  <2> HIDE DEF sound
  <2>6. sound = [i \in 1..m |-> FrameOf(F[k + i])]
    <3>1. CASE m = n
      BY <2>1, <2>5, <3>1 DEF frames
    <3>2. CASE m # n
      <4>1. sound = SubSeq(frames, 1, m)
        BY <2>5, <3>2
      <4>2. Len(SubSeq(frames, 1, m)) = m /\ SubSeq(frames, 1, m) \in Seq(X)
        BY <2>2, <2>4
      <4>3. \A i \in 1..m : SubSeq(frames, 1, m)[i] = frames[i]
        BY <2>2, <2>4
      <4>4. \A i \in 1..m : frames[i] = FrameOf(F[k + i])
        BY <2>1, <2>2 DEF frames
      <4>5. sound = [i \in 1..m |-> sound[i]]
        BY <4>1, <4>2
      <4> QED
        BY <4>1, <4>3, <4>4, <4>5
    <3> QED
      BY <3>1, <3>2
  <2>7. \A i \in (k + 1)..(k + m) : ~Malformed(FrameOf(F[i]))
    <3>1. SUFFICES ASSUME NEW i \in (k + 1)..(k + m) PROVE ~Malformed(FrameOf(F[i]))
      OBVIOUS
    <3>2. i - k \in 1..m /\ i - k \in 1..n /\ k + (i - k) = i /\ i \in (k + 1)..l
      BY <1>7, <2>2
    <3>3. ~Undecodable(FrameOf(F[i]))
      BY <2>1, <2>5, <3>2 DEF frames
    <3>4. ~BadHead(F[i])
      BY <2>3, <3>2
    <3> QED
      BY <3>3, <3>4 DEF Malformed, BadHead
  <2>8. m \in Nat /\ k + m <= Len(F) /\ k + m \in 0..Len(F)
    BY <1>7, <2>2
  <2>9. Yielded(F, at.got \o Map(ValueOf, sound), k + m)
    BY <1>1, <2>6, <2>7, <2>8, YieldMore
  <2>10. Yielded(F, after.got, k + m) /\ after.buffer = Behind(F, t, l)
    BY <1>5, <2>1, <2>9
  <2>11. CASE m = n
    <3>1. ~after.failed
      BY <1>5, <2>1, <2>5, <2>11 DEF frames
    <3>2. ReadTo(F, t, after)
      BY <1>9, <2>2, <2>10, <2>11, <3>1 DEF ReadTo
    <3> QED
      BY <3>2
  <2>12. CASE m # n
    <3>1. after.failed
      BY <1>5, <2>1, <2>4, <2>5, <2>12 DEF frames
    <3>2. m + 1 \in 1..n /\ k + (m + 1) \in 1..Len(F)
      BY <1>7, <2>2, <2>12
    <3>3. Undecodable(frames[m + 1])
      BY <2>5, <2>12
    <3>4. frames[m + 1] = FrameOf(F[k + (m + 1)])
      BY <2>1, <3>2 DEF frames
    <3>5. Malformed(FrameOf(F[k + (m + 1)]))
      BY <3>3, <3>4 DEF Malformed
    <3>6. Spoiled(F, after)
      BY <2>8, <2>10, <3>1, <3>2, <3>5 DEF Spoiled
    <3> QED
      BY <3>6
  <2> QED
    BY <2>11, <2>12
<1>10. ReadTo(F, t, after) \/ Spoiled(F, after)
  <2>1. CASE Refused(F, pushed)
    BY <1>8, <2>1 DEF after, t
  <2>2. CASE ~Refused(F, pushed)
    BY <1>6, <1>9, <2>2
  <2> QED
    BY <2>1, <2>2
<1> QED
  BY <1>10 DEF after, t

LEMMA ChunkTurns ==
  ASSUME NEW X, NEW chunks \in Seq(X)
  PROVE  \E turn : /\ turn[0] = [buffer |-> buffer, got |-> got, failed |-> FALSE]
                   /\ \A i \in 1..Len(chunks) : turn[i] = PushChunk(turn[i - 1], chunks[i])
                   /\ PushAll(chunks) = turn[Len(chunks)]
<1> DEFINE start == [buffer |-> buffer, got |-> got, failed |-> FALSE]
           Is(f, n) == f = [i \in 0..n |-> IF i = 0 THEN start ELSE PushChunk(f[i - 1], chunks[i])]
           S == {n \in Nat : \E f : Is(f, n)}
           m == Len(chunks)
           turn == CHOOSE f : Is(f, m)
<1>1. 0 \in S
  <2>1. Is([i \in 0..0 |-> start], 0)
    OBVIOUS
  <2> QED
    BY <2>1
<1>2. ASSUME NEW n \in Nat, n \in S PROVE n + 1 \in S
  <2>1. PICK f : Is(f, n)
    BY <1>2
  <2> DEFINE last == PushChunk(f[n], chunks[n + 1])
             g == [i \in 0..(n + 1) |-> IF i = n + 1 THEN last ELSE f[i]]
  <2>2. \A i \in 0..n : f[i] = IF i = 0 THEN start ELSE PushChunk(f[i - 1], chunks[i])
    BY <2>1
  <2>3. ASSUME NEW i \in 0..(n + 1) PROVE g[i] = IF i = 0 THEN start ELSE PushChunk(g[i - 1], chunks[i])
    <3> HIDE DEF start
    <3>1. CASE i = n + 1
      <4>1. g[n] = f[n] /\ i # 0 /\ i - 1 = n /\ g[i] = last
        BY <3>1
      <4> HIDE DEF g
      <4> QED
        BY <4>1
    <3>2. CASE i # n + 1
      <4>1. i \in 0..n /\ g[i] = f[i]
        BY <3>2
      <4>2. i # 0 => g[i - 1] = f[i - 1]
        BY <4>1
      <4> HIDE DEF g
      <4> QED
        BY <2>2, <4>1, <4>2
    <3> QED
      BY <3>1, <3>2
  <2>4. g = [i \in 0..(n + 1) |-> g[i]]
    OBVIOUS
  <2> HIDE DEF g, start
  <2>5. Is(g, n + 1)
    BY <2>3, <2>4
  <2> HIDE DEF Is, last
  <2>6. \E h : Is(h, n + 1)
    BY <2>5
  <2> QED
    BY <2>6
<1>3. m \in S
  <2>1. m \in Nat
    OBVIOUS
  <2> HIDE DEF S, m
  <2> QED
    BY <1>1, <1>2, <2>1, SetInduction
<1>4. \E f : Is(f, m)
  BY <1>3
<1>5. Is(turn, m)
  <2> HIDE DEF Is
  <2> QED
    BY <1>4, Zenon
<1>6. PushAll(chunks) = turn[m]
  BY DEF PushAll
<1>7. m \in Nat
  OBVIOUS
<1> HIDE DEF turn, start, m
<1>8. turn[0] = start
  BY <1>5, <1>7
<1>9. \A i \in 1..m : turn[i] = PushChunk(turn[i - 1], chunks[i])
  BY <1>5, <1>7
<1> QED
  BY <1>6, <1>8, <1>9 DEF start, m

\* What leads does so behind a common front.
LEMMA LeadsBehind ==
  ASSUME NEW X, NEW r \in Seq(X), NEW a \in Seq(X), NEW b \in Seq(X), Leads(a, b)
  PROVE  Leads(r \o a, r \o b)
<1> DEFINE c == r \o a
           d == r \o b
<1>1. Len(r) \in Nat /\ Len(a) \in Nat /\ Len(b) \in Nat /\ Len(a) <= Len(b)
  BY DEF Leads
<1>2. Len(c) = Len(r) + Len(a) /\ Len(d) = Len(r) + Len(b)
  OBVIOUS
<1>3. \A i \in 1..Len(r) : c[i] = r[i] /\ d[i] = r[i]
  OBVIOUS
<1>4. \A i \in 1..Len(a) : c[Len(r) + i] = a[i]
  OBVIOUS
<1>5. \A i \in 1..Len(b) : d[Len(r) + i] = b[i]
  OBVIOUS
<1> HIDE DEF c, d
<1>6. ASSUME NEW i \in 1..Len(c) PROVE d[i] = c[i]
  <2>1. CASE i <= Len(r)
    <3>1. i \in 1..Len(r)
      BY <1>1, <1>2, <2>1
    <3> QED
      BY <1>3, <3>1
  <2>2. CASE ~ i <= Len(r)
    <3>1. i - Len(r) \in 1..Len(a) /\ i - Len(r) \in 1..Len(b) /\ Len(r) + (i - Len(r)) = i
      BY <1>1, <1>2, <2>2
    <3>2. c[Len(r) + (i - Len(r))] = a[i - Len(r)]
      BY <1>4, <3>1
    <3>3. d[Len(r) + (i - Len(r))] = b[i - Len(r)]
      BY <1>5, <3>1
    <3>4. b[i - Len(r)] = a[i - Len(r)]
      BY <3>1 DEF Leads
    <3> QED
      BY <3>1, <3>2, <3>3, <3>4
  <2> QED
    BY <2>1, <2>2
<1>7. Len(c) <= Len(d)
  BY <1>1, <1>2
<1>8. Leads(c, d)
  BY <1>6, <1>7 DEF Leads
<1> QED
  BY <1>8 DEF c, d

\* And so are chunks, one after the other.
LEMMA ChunksRead ==
  ASSUME NEW F, AreFrames(F), NEW R \in Seq(Octet), NEW chunks \in Seq(Seq(Octet)),
         Leads(R \o FlattenSeq(chunks), FlattenSeq(F)),
         ReadTo(F, R, [buffer |-> buffer, got |-> got, failed |-> FALSE])
  PROVE  \/ ReadTo(F, R \o FlattenSeq(chunks), PushAll(chunks))
         \/ Spoiled(F, PushAll(chunks))
<1> DEFINE n == Len(chunks)
           w == FlattenSeq(F)
           all == FlattenSeq(chunks)
<1>1. PICK turn : /\ turn[0] = [buffer |-> buffer, got |-> got, failed |-> FALSE]
                  /\ \A i \in 1..n : turn[i] = PushChunk(turn[i - 1], chunks[i])
                  /\ PushAll(chunks) = turn[n]
  BY ChunkTurns
<1> DEFINE t(i) == R \o FlatTo(chunks, i)
           S == {i \in Nat : i <= n => ReadTo(F, t(i), turn[i]) \/ Spoiled(F, turn[i])}
<1>2. n \in Nat /\ n \in 0..n
  OBVIOUS
<1>3. w \in Seq(Octet)
  BY FlattenTo DEF AreFrames
<1>4. all = FlatTo(chunks, n) /\ all \in Seq(Octet)
  BY FlattenTo
<1>5. ASSUME NEW i \in 0..n PROVE t(i) \in Seq(Octet) /\ Leads(t(i), w)
  <2> DEFINE a == FlatTo(chunks, i)
  <2>1. a \in Seq(Octet)
    BY FlatType
  <2>2. Leads(a, all)
    BY <1>2, <1>4, FlatLeads
  <2> HIDE DEF a, all, w
  <2>3. Leads(R \o a, R \o all)
    BY <1>4, <2>1, <2>2, LeadsBehind
  <2>4. R \o a \in Seq(Octet)
    BY <2>1
  <2>40. R \o all \in Seq(Octet)
    BY <1>4
  <2>5. Leads(R \o all, w)
    BY DEF all, w
  <2>6. Leads(R \o a, w)
    BY <1>3, <2>3, <2>4, <2>40, <2>5, LeadsOn
  <2> QED
    BY <2>4, <2>6 DEF a
<1>6. 0 \in S
  <2>1. FlatTo(chunks, 0) = <<>>
    BY FlatNone, Zenon
  <2>2. R \o <<>> = R
    BY ConcatEmptySeq
  <2>3. t(0) = R
    BY <2>1, <2>2, Zenon
  <2>4. ReadTo(F, t(0), turn[0])
    BY <1>1, <2>3, Zenon
  <2> HIDE DEF t
  <2> QED
    BY <2>4
<1>7. ASSUME NEW i \in 0..(n - 1), i \in S PROVE i + 1 \in S
  <2>1. i + 1 \in 1..n /\ (i + 1) - 1 = i /\ i \in Nat /\ i + 1 \in Nat /\ i <= n
        /\ i \in 0..n /\ i + 1 \in 0..n
    BY <1>2
  <2> DEFINE c == chunks[i + 1]
             a == FlatTo(chunks, i)
  <2>2. turn[i + 1] = PushChunk(turn[i], c)
    BY <1>1, <2>1
  <2>3. t(i) \in Seq(Octet) /\ t(i + 1) \in Seq(Octet) /\ Leads(t(i + 1), w)
    BY <1>5, <2>1
  <2>4. c \in Seq(Octet)
    BY <2>1
  <2>5. a \in Seq(Octet)
    BY <2>1, FlatType
  <2>6. FlatTo(chunks, i + 1) = a \o c
    BY <2>1, FlatNext
  <2>7. t(i + 1) = t(i) \o c
    <3> HIDE DEF a, c
    <3>1. (R \o a) \o c = R \o (a \o c)
      <4>1. OneLine(R, a, c)
        BY <2>4, <2>5, Joined
      <4> QED
        BY <4>1, Zenon DEF OneLine
    <3> QED
      BY <2>6, <3>1 DEF a
  <2> HIDE DEF a, c, t
  <2>8. CASE Spoiled(F, turn[i])
    <3>1. turn[i + 1] = turn[i]
      BY <2>2, <2>8 DEF Spoiled, PushChunk
    <3> QED
      BY <2>1, <2>8, <3>1
  <2>9. CASE ReadTo(F, t(i), turn[i])
    <3>1. Leads(t(i) \o c, w)
      BY <2>3, <2>7
    <3>2. ReadTo(F, t(i) \o c, turn[i + 1]) \/ Spoiled(F, turn[i + 1])
      BY <2>2, <2>3, <2>4, <2>9, <3>1, ChunkRead
    <3> QED
      BY <2>1, <2>7, <3>2
  <2> QED
    BY <1>7, <2>1, <2>8, <2>9
<1> HIDE DEF S
<1>8. 0..n \subseteq S
  BY <1>2, <1>6, <1>7, UpTo
<1>9. n \in S
  BY <1>2, <1>8
<1>10. ReadTo(F, t(n), turn[n]) \/ Spoiled(F, turn[n])
  BY <1>2, <1>9 DEF S
<1> QED
  BY <1>1, <1>4, <1>10

-----------------------------------------------------------------------------
(* Texts in base64 *)

\* The groups of bytes a text is made of, four characters each.
AreGroups(G) == G \in Seq(Seq(Octet)) /\ \A j \in 1..Len(G) : Len(G[j]) \in 1..3
IsText(T, G) ==
  /\ AreGroups(G) /\ T \in Seq(0..Pad) /\ Len(T) = 4 * Len(G)
  /\ \A j \in 1..Len(G) : \A i \in 1..4 : T[4 * (j - 1) + i] = Quad(G[j])[i]

\* The quad of a group is read as the group, and shows its length in its padding.
LEMMA GroupQuad ==
  ASSUME NEW G, AreGroups(G), NEW j \in 1..Len(G)
  PROVE  /\ Quad(G[j]) \in Seq(0..Pad) /\ Len(Quad(G[j])) = 4
         /\ \A i \in 1..4 : Quad(G[j])[i] = Pad <=> i > Len(G[j]) + 1
         /\ Bytes(Quad(G[j])) = G[j]
<1>1. G[j] \in Seq(Octet) /\ Len(G[j]) \in 1..3
  BY DEF AreGroups
<1> QED
  BY <1>1, QuadRead

\* The quads of the groups, one behind the other, are their text.
LEMMA QuadsText ==
  ASSUME NEW G, AreGroups(G)
  PROVE  IsText(FlattenSeq(Map(Quad, G)), G)
<1> DEFINE s == Map(Quad, G)
           T == FlattenSeq(s)
           n == Len(G)
<1>1. n \in Nat /\ DOMAIN G = 1..n
  BY DEF AreGroups
<1>2. s = [j \in 1..n |-> Quad(G[j])]
  BY <1>1 DEF Map
<1>3. \A j \in 1..n : Quad(G[j]) \in Seq(0..Pad) /\ Len(Quad(G[j])) = 4
  BY GroupQuad
<1> HIDE DEF s, n
<1>4. s \in Seq(Seq(0..Pad)) /\ Len(s) = n
  BY <1>1, <1>2, <1>3
<1>5. \A j \in 1..n : s[j] = Quad(G[j])
  BY <1>2
<1> DEFINE S == {k \in Nat : k <= n => Len(FlatTo(s, k)) = 4 * k}
<1>6. 0 \in S
  <2>1. FlatTo(s, 0) = <<>>
    BY FlatNone, Zenon
  <2>2. Len(FlatTo(s, 0)) = 0
    BY <2>1
  <2> QED
    BY <2>2
<1>7. ASSUME NEW k \in 0..(n - 1), k \in S PROVE k + 1 \in S
  <2>1. k + 1 \in 1..n /\ (k + 1) - 1 = k /\ k \in Nat /\ k + 1 \in Nat /\ k <= n
    BY <1>1
  <2>2. k + 1 \in 1..Len(s)
    BY <1>4, <2>1
  <2>3. Len(FlatTo(s, k + 1)) = Len(FlatTo(s, k)) + Len(s[k + 1])
    BY <1>4, <2>1, <2>2, FlatPlace
  <2>4. Len(s[k + 1]) = 4
    BY <1>3, <1>5, <2>1
  <2>5. Len(FlatTo(s, k)) = 4 * k
    BY <1>7, <2>1
  <2>6. Len(FlatTo(s, k + 1)) = 4 * (k + 1)
    BY <2>1, <2>3, <2>4, <2>5
  <2> QED
    BY <2>1, <2>6
<1> HIDE DEF S
<1>8. 0..n \subseteq S
  BY <1>1, <1>6, <1>7, UpTo
<1>9. \A k \in 0..n : Len(FlatTo(s, k)) = 4 * k
  BY <1>1, <1>8 DEF S
<1>10. T = FlatTo(s, n) /\ T \in Seq(0..Pad)
  BY <1>4, FlattenTo
<1>11. Len(T) = 4 * n
  BY <1>1, <1>9, <1>10
<1>12. ASSUME NEW j \in 1..n, NEW i \in 1..4 PROVE T[4 * (j - 1) + i] = Quad(G[j])[i]
  <2>1. j - 1 \in 0..n /\ j \in 1..Len(s)
    BY <1>1, <1>4
  <2>2. Len(FlatTo(s, j - 1)) = 4 * (j - 1)
    BY <1>9, <2>1
  <2>3. s[j] = Quad(G[j]) /\ Len(s[j]) = 4
    BY <1>3, <1>5
  <2>4. i \in 1..Len(s[j])
    BY <2>3
  <2>5. T[Len(FlatTo(s, j - 1)) + i] = s[j][i]
    BY <1>4, <2>1, <2>4, FlatPlace
  <2> QED
    BY <2>2, <2>3, <2>5
<1> QED
  BY <1>10, <1>11, <1>12 DEF IsText, n, s

\* Two texts, one behind the other, are a text.
LEMMA TextConcat ==
  ASSUME NEW T, NEW G, IsText(T, G), NEW U, NEW H, IsText(U, H)
  PROVE  IsText(T \o U, G \o H)
<1> DEFINE V == T \o U
           I == G \o H
           m == Len(G)
           n == Len(H)
<1>1. /\ G \in Seq(Seq(Octet)) /\ H \in Seq(Seq(Octet)) /\ m \in Nat /\ n \in Nat
      /\ T \in Seq(0..Pad) /\ U \in Seq(0..Pad)
  BY DEF IsText, AreGroups
<1>2. Len(T) = 4 * m /\ Len(U) = 4 * n
  BY DEF IsText
<1>3. V \in Seq(0..Pad) /\ Len(V) = Len(T) + Len(U)
  BY <1>1
<1>4. \A i \in 1..Len(T) : V[i] = T[i]
  BY <1>1
<1>5. \A i \in 1..Len(U) : V[Len(T) + i] = U[i]
  BY <1>1
<1>6. I \in Seq(Seq(Octet)) /\ Len(I) = m + n
  BY <1>1
<1>7. \A i \in 1..m : I[i] = G[i]
  BY <1>1
<1>8. \A i \in 1..n : I[m + i] = H[i]
  BY <1>1
<1> HIDE DEF V, I
<1>9. ASSUME NEW j \in 1..(m + n)
      PROVE  Len(I[j]) \in 1..3 /\ \A i \in 1..4 : V[4 * (j - 1) + i] = Quad(I[j])[i]
  <2>1. CASE j <= m
    <3>1. j \in 1..m
      BY <1>1, <2>1
    <3>2. I[j] = G[j]
      BY <1>7, <3>1
    <3>3. Len(G[j]) \in 1..3
      BY <3>1 DEF IsText, AreGroups
    <3>4. ASSUME NEW i \in 1..4 PROVE V[4 * (j - 1) + i] = Quad(I[j])[i]
      <4>1. 4 * (j - 1) + i \in 1..Len(T)
        <5> HIDE DEF m
        <5> QED
          BY <1>1, <1>2, <3>1
      <4>2. V[4 * (j - 1) + i] = T[4 * (j - 1) + i]
        BY <1>4, <4>1
      <4>3. T[4 * (j - 1) + i] = Quad(G[j])[i]
        BY <3>1 DEF IsText
      <4> QED
        BY <3>2, <4>2, <4>3
    <3> QED
      BY <3>2, <3>3, <3>4
  <2>2. CASE ~ j <= m
    <3> DEFINE l == j - m
    <3>1. l \in 1..n /\ m + l = j
      BY <1>1, <2>2
    <3>2. I[j] = H[l]
      BY <1>8, <3>1
    <3>3. Len(H[l]) \in 1..3
      BY <3>1 DEF IsText, AreGroups
    <3>4. ASSUME NEW i \in 1..4 PROVE V[4 * (j - 1) + i] = Quad(I[j])[i]
      <4>1. 4 * (l - 1) + i \in 1..Len(U) /\ 4 * (j - 1) + i = Len(T) + (4 * (l - 1) + i)
        <5> HIDE DEF m, n, l
        <5> QED
          BY <1>1, <1>2, <3>1
      <4>2. V[4 * (j - 1) + i] = U[4 * (l - 1) + i]
        BY <1>5, <4>1
      <4>3. U[4 * (l - 1) + i] = Quad(H[l])[i]
        BY <3>1 DEF IsText
      <4> QED
        BY <3>2, <4>2, <4>3
    <3> QED
      BY <3>2, <3>3, <3>4
  <2> QED
    BY <2>1, <2>2
<1>10. AreGroups(I)
  BY <1>6, <1>9 DEF AreGroups
<1>11. Len(V) = 4 * Len(I)
  <2> HIDE DEF m, n
  <2> QED
    BY <1>1, <1>2, <1>3, <1>6
<1>12. IsText(V, I)
  BY <1>3, <1>6, <1>9, <1>10, <1>11 DEF IsText
<1> QED
  BY <1>12 DEF V, I

\* Nothing is the text of no group.
LEMMA TextNone == IsText(<<>>, <<>>)
BY DEF IsText, AreGroups

\* A front part and what follows it are a longer front part.
LEMMA SliceJoin ==
  ASSUME NEW X, NEW b \in Seq(X), NEW p \in Nat, NEW q \in Nat, p <= q, q <= Len(b)
  PROVE  SubSeq(b, 1, p) \o SubSeq(b, p + 1, q) = SubSeq(b, 1, q)
<1> DEFINE r == SubSeq(b, 1, p)
           s == SubSeq(b, p + 1, q)
           t == SubSeq(b, 1, q)
           u == r \o s
<1>0. Len(b) \in Nat
  OBVIOUS
<1>1. r \in Seq(X) /\ Len(r) = p /\ \A i \in 1..p : r[i] = b[i]
  BY <1>0
<1>2. s \in Seq(X) /\ Len(s) = q - p
  BY <1>0
<1>20. \A i \in 1..(q - p) : s[i] = b[p + i]
  BY <1>0
<1>3. t \in Seq(X) /\ Len(t) = q /\ \A i \in 1..q : t[i] = b[i]
  BY <1>0
<1> HIDE DEF r, s, t
<1>4. u \in Seq(X)
  BY <1>1, <1>2
<1>5. Len(u) = Len(r) + Len(s)
  BY <1>1, <1>2
<1>6. \A i \in 1..Len(r) : u[i] = r[i]
  BY <1>1, <1>2
<1>7. \A i \in 1..Len(s) : u[Len(r) + i] = s[i]
  BY <1>1, <1>2
<1> HIDE DEF u
<1>8. Len(u) = q
  BY <1>1, <1>2, <1>5
<1>9. ASSUME NEW i \in 1..q PROVE u[i] = t[i]
  <2>0. t[i] = b[i]
    BY <1>3
  <2>1. CASE i <= p
    <3>1. i \in 1..p
      BY <2>1
    <3> QED
      BY <1>1, <1>6, <2>0, <3>1
  <2>2. CASE ~ i <= p
    <3>1. i - p \in 1..(q - p) /\ p + (i - p) = i
      BY <2>2
    <3>2. u[p + (i - p)] = s[i - p] /\ s[i - p] = b[p + (i - p)]
      BY <1>1, <1>2, <1>20, <1>7, <3>1
    <3> QED
      BY <2>0, <3>1, <3>2
  <2> QED
    BY <2>1, <2>2
<1>10. u = t
  BY <1>3, <1>4, <1>8, <1>9, SeqEqual
<1> QED
  BY <1>10 DEF r, s, t, u

\* A binary string in base64.
LEMMA GroupsOf ==
  ASSUME NEW b \in Seq(Octet)
  PROVE  AreGroups(Groups(b)) /\ FlattenSeq(Groups(b)) = b
<1> DEFINE l == Len(b)
           n == (l + 2) \div 3
           G == Groups(b)
           to(i) == IF 3 * i < l THEN 3 * i ELSE l
<1>1. l \in Nat
  OBVIOUS
<1>2. G = [i \in 1..n |-> SubSeq(b, 3 * i - 2, to(i))]
  BY DEF Groups
<1> HIDE DEF l
<1>3. n \in Nat /\ l <= 3 * n /\ 3 * n <= l + 2
  BY <1>1
<1>30. ASSUME NEW i \in 1..n
       PROVE  /\ to(i - 1) = 3 * i - 3 /\ to(i) <= l /\ to(i) \in Nat /\ 3 * i - 3 < to(i)
              /\ to(i) <= 3 * i /\ to(i - 1) + 1 = 3 * i - 2
  <2> HIDE DEF n
  <2> QED
    BY <1>1, <1>3
<1>4. ASSUME NEW i \in 1..n PROVE G[i] \in Seq(Octet) /\ Len(G[i]) \in 1..3
  <2>1. G[i] = SubSeq(b, 3 * i - 2, to(i))
    BY <1>2
  <2> DEFINE p == 3 * i - 2
             q == to(i)
  <2>2. p \in Nat /\ q \in Nat /\ 1 <= p /\ p <= q /\ q <= p + 2 /\ q <= l
    <3>1. /\ to(i) <= l /\ to(i) \in Nat /\ 3 * i - 3 < to(i) /\ to(i) <= 3 * i
      BY <1>30
    <3> HIDE DEF to, n
    <3>2. i \in Nat /\ i >= 1
      BY <1>3
    <3> QED
      BY <3>1, <3>2
  <2> HIDE DEF p, q, to
  <2>3. q <= Len(b)
    BY <2>2 DEF l
  <2>4. SubSeq(b, p, q) \in Seq(Octet)
    BY <2>2, <2>3
  <2>5. Len(SubSeq(b, p, q)) = (q - p) + 1
    BY <2>2, <2>3
  <2>6. (q - p) + 1 \in 1..3
    BY <2>2
  <2> QED
    BY <2>1, <2>4, <2>5, <2>6 DEF p, q
<1> HIDE DEF G
<1>5. G \in Seq(Seq(Octet)) /\ Len(G) = n
  <2> HIDE DEF n, to
  <2>1. G = [i \in 1..n |-> G[i]]
    BY <1>2
  <2> QED
    BY <1>3, <1>4, <2>1
<1>6. AreGroups(G)
  BY <1>4, <1>5 DEF AreGroups
<1> DEFINE S == {k \in Nat : k <= n => FlatTo(G, k) = SubSeq(b, 1, to(k))}
<1>7. 0 \in S
  <2>1. FlatTo(G, 0) = <<>>
    BY FlatNone, Zenon
  <2>2. to(0) = 0
    BY <1>1
  <2>3. SubSeq(b, 1, 0) = <<>>
    OBVIOUS
  <2>4. FlatTo(G, 0) = SubSeq(b, 1, to(0))
    BY <2>1, <2>2, <2>3
  <2> HIDE DEF to
  <2> QED
    BY <2>4
<1>8. ASSUME NEW k \in 0..(n - 1), k \in S PROVE k + 1 \in S
  <2> HIDE DEF n
  <2>1. k + 1 \in 1..n /\ (k + 1) - 1 = k /\ k \in Nat /\ k + 1 \in Nat /\ k <= n
    BY <1>3
  <2> HIDE DEF to
  <2>2. k + 1 \in 1..Len(G)
    BY <1>5, <2>1
  <2>3. FlatTo(G, k + 1) = FlatTo(G, k) \o G[k + 1]
    BY <1>5, <2>1, <2>2, FlatNext
  <2>4. FlatTo(G, k) = SubSeq(b, 1, to(k))
    BY <1>8, <2>1
  <2>5. G[k + 1] = SubSeq(b, to(k) + 1, to(k + 1))
    <3>1. G[k + 1] = SubSeq(b, 3 * (k + 1) - 2, to(k + 1))
      BY <1>2, <2>1
    <3>2. to((k + 1) - 1) + 1 = 3 * (k + 1) - 2
      BY <1>30, <2>1
    <3> QED
      BY <2>1, <3>1, <3>2
  <2>6. to(k) \in Nat /\ to(k + 1) \in Nat /\ to(k) <= to(k + 1) /\ to(k + 1) <= Len(b)
    <3>1. to((k + 1) - 1) = 3 * (k + 1) - 3 /\ to(k + 1) <= l /\ to(k + 1) \in Nat
          /\ 3 * (k + 1) - 3 < to(k + 1)
      BY <1>30, <2>1
    <3> QED
      BY <2>1, <3>1 DEF l
  <2>7. SubSeq(b, 1, to(k)) \o SubSeq(b, to(k) + 1, to(k + 1)) = SubSeq(b, 1, to(k + 1))
    BY <2>6, SliceJoin
  <2>8. FlatTo(G, k + 1) = SubSeq(b, 1, to(k + 1))
    BY <2>3, <2>4, <2>5, <2>7, Zenon
  <2> QED
    BY <2>1, <2>8
<1> HIDE DEF S, to, n
<1>9. 0..n \subseteq S
  BY <1>3, <1>7, <1>8, UpTo
<1>10. n \in S
  BY <1>3, <1>9
<1>11. FlatTo(G, n) = SubSeq(b, 1, to(n))
  BY <1>3, <1>10 DEF S
<1>12. to(n) = l
  BY <1>1, <1>3 DEF to
<1>13. SubSeq(b, 1, Len(b)) = b
  OBVIOUS
<1>14. FlattenSeq(G) = FlatTo(G, n)
  BY <1>5, FlattenTo
<1>15. FlattenSeq(G) = b
  BY <1>11, <1>12, <1>13, <1>14 DEF l
<1> QED
  BY <1>6, <1>15 DEF G

\* btoa writes the text of the groups of a binary string.
LEMMA EncodedText ==
  ASSUME NEW b \in Seq(Octet)
  PROVE  IsText(encodeBase64(b), Groups(b))
BY GroupsOf, QuadsText DEF encodeBase64

-----------------------------------------------------------------------------
(* White space *)

\* What white space leaves of each character of a text.
Kept(x) == IF x = Space THEN <<>> ELSE <<x>>

\* Every character is kept by itself or dropped.
LEMMA UnspacedIs ==
  ASSUME NEW T \in Seq(0..Space)
  PROVE  LET s == [i \in 1..Len(T) |-> Kept(T[i])] IN
         s \in Seq(Seq(0..Pad)) /\ Len(s) = Len(T) /\ Unspaced(T) = FlattenSeq(s)
<1> DEFINE s == [i \in 1..Len(T) |-> Kept(T[i])]
<1>1. Len(T) \in Nat /\ DOMAIN T = 1..Len(T)
  OBVIOUS
<1>2. Space = Pad + 1 /\ Pad \in Nat
  BY Bases DEF Space, Pad
<1>3. ASSUME NEW i \in 1..Len(T) PROVE Kept(T[i]) \in Seq(0..Pad)
  <2> HIDE DEF s
  <2> DEFINE x == T[i]
  <2>1. x \in 0..Space
    BY ElementOfSeq
  <2> HIDE DEF x
  <2>2. x # Space => x \in 0..Pad
    BY <1>2, <2>1
  <2>3. <<>> \in Seq(0..Pad)
    OBVIOUS
  <2>4. x \in 0..Pad => <<x>> \in Seq(0..Pad)
    OBVIOUS
  <2>5. Kept(x) \in Seq(0..Pad)
    BY <2>2, <2>3, <2>4, Zenon DEF Kept
  <2> QED
    BY <2>5 DEF x
<1>4. Unspaced(T) = FlattenSeq(s)
  BY <1>1 DEF Unspaced, Kept
<1>5. s \in Seq(Seq(0..Pad)) /\ Len(s) = Len(T)
  BY <1>1, <1>3
<1> QED
  BY <1>4, <1>5

\* What is left is a text without white space.
LEMMA UnspacedType ==
  ASSUME NEW T \in Seq(0..Space)
  PROVE  Unspaced(T) \in Seq(0..Pad)
<1> DEFINE s == [i \in 1..Len(T) |-> Kept(T[i])]
<1>1. s \in Seq(Seq(0..Pad)) /\ Unspaced(T) = FlattenSeq(s)
  BY UnspacedIs
<1> HIDE DEF s
<1> QED
  BY <1>1, FlattenTo

\* White space is dropped chunk by chunk as well as all at once.
LEMMA UnspacedConcat ==
  ASSUME NEW T \in Seq(0..Space), NEW U \in Seq(0..Space)
  PROVE  Unspaced(T \o U) = Unspaced(T) \o Unspaced(U)
<1> DEFINE V == T \o U
           s(W) == [i \in 1..Len(W) |-> Kept(W[i])]
           p == s(T)
           q == s(U)
           r == s(V)
           e == p \o q
<1>1. Len(T) \in Nat /\ Len(U) \in Nat
  OBVIOUS
<1>2. V \in Seq(0..Space) /\ Len(V) = Len(T) + Len(U)
  OBVIOUS
<1>3. \A i \in 1..Len(T) : V[i] = T[i]
  OBVIOUS
<1>4. \A i \in 1..Len(U) : V[Len(T) + i] = U[i]
  OBVIOUS
<1> HIDE DEF V
<1>5. p \in Seq(Seq(0..Pad)) /\ Len(p) = Len(T) /\ Unspaced(T) = FlattenSeq(p)
  BY UnspacedIs
<1>6. q \in Seq(Seq(0..Pad)) /\ Len(q) = Len(U) /\ Unspaced(U) = FlattenSeq(q)
  BY UnspacedIs
<1>7. r \in Seq(Seq(0..Pad)) /\ Len(r) = Len(V) /\ Unspaced(V) = FlattenSeq(r)
  BY <1>2, UnspacedIs
<1>8. \A i \in 1..Len(T) : p[i] = Kept(T[i])
  OBVIOUS
<1>9. \A i \in 1..Len(U) : q[i] = Kept(U[i])
  OBVIOUS
<1>10. \A i \in 1..Len(V) : r[i] = Kept(V[i])
  OBVIOUS
<1> HIDE DEF p, q, r, s
<1>110. e \in Seq(Seq(0..Pad))
  BY <1>5, <1>6
<1>11. Len(e) = Len(p) + Len(q)
  <2>1. p \in Seq(Seq(0..Pad)) /\ q \in Seq(Seq(0..Pad))
    BY <1>5, <1>6
  <2> QED
    BY <2>1
<1>12. \A i \in 1..Len(p) : e[i] = p[i]
  BY <1>5, <1>6
<1>13. \A i \in 1..Len(q) : e[Len(p) + i] = q[i]
  BY <1>5, <1>6
<1>14. FlattenSeq(e) = FlattenSeq(p) \o FlattenSeq(q)
  BY <1>5, <1>6, FlattenConcat
<1> HIDE DEF e
<1>15. ASSUME NEW i \in 1..Len(r) PROVE r[i] = e[i]
  <2>1. r[i] = Kept(V[i])
    BY <1>7, <1>10
  <2>2. CASE i <= Len(T)
    <3>1. i \in 1..Len(T) /\ i \in 1..Len(p)
      BY <1>1, <1>2, <1>5, <1>7, <2>2
    <3> QED
      BY <1>3, <1>8, <1>12, <2>1, <3>1
  <2>3. CASE ~ i <= Len(T)
    <3>1. i - Len(T) \in 1..Len(U) /\ i - Len(T) \in 1..Len(q) /\ Len(T) + (i - Len(T)) = i
      BY <1>1, <1>2, <1>6, <1>7, <2>3
    <3>2. e[Len(p) + (i - Len(T))] = q[i - Len(T)]
      BY <1>13, <3>1
    <3>3. q[i - Len(T)] = Kept(U[i - Len(T)])
      BY <1>9, <3>1
    <3>4. V[Len(T) + (i - Len(T))] = U[i - Len(T)]
      BY <1>4, <3>1
    <3> QED
      BY <1>5, <2>1, <3>1, <3>2, <3>3, <3>4
  <2> QED
    BY <2>2, <2>3
<1>16. Len(r) = Len(e)
  BY <1>2, <1>5, <1>6, <1>7, <1>11
<1>17. r = e
  BY <1>7, <1>110, <1>15, <1>16, SeqEqual
<1> QED
  BY <1>5, <1>6, <1>7, <1>14, <1>17 DEF V

\* One sequence, flattened, is itself.
LEMMA FlattenOne ==
  ASSUME NEW X, NEW x \in Seq(X)
  PROVE  FlattenSeq(<<x>>) = x
<1> DEFINE s == <<x>>
<1>1. s \in Seq(Seq(X)) /\ Len(s) = 1 /\ s[1] = x /\ 1 \in 1..Len(s)
  OBVIOUS
<1> HIDE DEF s
<1>2. FlatTo(s, 1) = FlatTo(s, 1 - 1) \o s[1]
  BY <1>1, FlatNext
<1>3. FlatTo(s, 1 - 1) = <<>>
  BY FlatNone
<1>4. <<>> \o x = x
  BY ConcatEmptySeq
<1>5. FlattenSeq(s) = FlatTo(s, Len(s))
  BY <1>1, FlattenTo
<1>6. FlattenSeq(s) = x
  BY <1>1, <1>2, <1>3, <1>4, <1>5, Zenon
<1> QED
  BY <1>6 DEF s

\* Of one character.
LEMMA UnspacedOne ==
  ASSUME NEW x \in 0..Space
  PROVE  Unspaced(<<x>>) = Kept(x)
<1> DEFINE T == <<x>>
           s == [i \in 1..Len(T) |-> Kept(T[i])]
<1>1. T \in Seq(0..Space) /\ Len(T) = 1 /\ T[1] = x
  OBVIOUS
<1>2. s \in Seq(Seq(0..Pad)) /\ Unspaced(T) = FlattenSeq(s) /\ Len(s) = 1
  BY <1>1, UnspacedIs
<1>3. s = <<Kept(x)>>
  BY <1>1
<1> HIDE DEF s
<1>4. 1 \in 1..Len(s) /\ s[1] = Kept(x)
  BY <1>2, <1>3
<1>5. Kept(x) \in Seq(0..Pad)
  BY <1>2, <1>4
<1>6. FlattenSeq(<<Kept(x)>>) = Kept(x)
  BY <1>5, FlattenOne
<1> QED
  BY <1>2, <1>3, <1>6

\* Of none.
LEMMA UnspacedNone == Unspaced(<<>>) = <<>>
<1> DEFINE T == <<>>
           s == [i \in 1..Len(T) |-> Kept(T[i])]
<1>1. T \in Seq(0..Space) /\ Len(T) = 0
  OBVIOUS
<1>2. s \in Seq(Seq(0..Pad)) /\ Unspaced(T) = FlattenSeq(s) /\ Len(s) = 0
  BY <1>1, UnspacedIs
<1> HIDE DEF s
<1>3. FlattenSeq(s) = FlatTo(s, Len(s))
  BY <1>2, FlattenTo
<1>4. FlatTo(s, 0) = <<>>
  BY FlatNone, Zenon
<1> QED
  BY <1>2, <1>3, <1>4

LEMMA FrontType ==
  ASSUME NEW X, NEW b \in Seq(X), NEW k \in 0..Len(b)
  PROVE  SubSeq(b, 1, k) \in Seq(X) /\ Len(SubSeq(b, 1, k)) = k
OBVIOUS

\* A sequence of some elements is one of more of them.
LEMMA SeqWider ==
  ASSUME NEW X, NEW Y, X \subseteq Y, NEW s \in Seq(X)
  PROVE  s \in Seq(Y)
OBVIOUS

\* A character without white space is a character.
LEMMA PadSpace == Space = Pad + 1 /\ Pad \in Nat /\ 0..Pad \subseteq 0..Space
BY Bases DEF Space, Pad

\* A front part grows by the next element.
LEMMA SliceNext ==
  ASSUME NEW X, NEW b \in Seq(X), NEW k \in 0..(Len(b) - 1)
  PROVE  SubSeq(b, 1, k) \o <<b[k + 1]>> = SubSeq(b, 1, k + 1)
<1>1. Len(b) \in Nat /\ k \in Nat /\ k + 1 \in 1..Len(b) /\ k + 1 \in Nat /\ k <= k + 1 /\ k + 1 <= Len(b)
  OBVIOUS
<1>2. SubSeq(b, k + 1, k + 1) = <<b[k + 1]>>
  <2> DEFINE r == SubSeq(b, k + 1, k + 1)
             s == <<b[k + 1]>>
  <2>1. r \in Seq(X) /\ Len(r) = 1 /\ r[1] = b[k + 1]
    BY <1>1
  <2>2. b[k + 1] \in X
    BY <1>1, ElementOfSeq
  <2>3. s \in Seq(X) /\ Len(s) = 1 /\ s[1] = b[k + 1]
    BY <2>2
  <2> HIDE DEF r, s
  <2>4. \A i \in 1..Len(r) : r[i] = s[i]
    <3>1. SUFFICES ASSUME NEW i \in 1..Len(r) PROVE r[i] = s[i]
      OBVIOUS
    <3>2. i = 1
      BY <2>1
    <3> QED
      BY <2>1, <2>3, <3>2
  <2>5. r = s
    BY <2>1, <2>3, <2>4, SeqEqual
  <2> QED
    BY <2>5 DEF r, s
<1>3. SubSeq(b, 1, k) \o SubSeq(b, k + 1, k + 1) = SubSeq(b, 1, k + 1)
  BY <1>1, SliceJoin
<1> QED
  BY <1>2, <1>3, Zenon

\* And what is left of it by that element, if it is kept.
LEMMA UnspacedGrows ==
  ASSUME NEW T \in Seq(0..Space), NEW k \in 0..(Len(T) - 1)
  PROVE  Unspaced(SubSeq(T, 1, k + 1)) = Unspaced(SubSeq(T, 1, k)) \o Kept(T[k + 1])
<1> DEFINE a == SubSeq(T, 1, k)
           x == T[k + 1]
           c == <<x>>
<1>1. a \o c = SubSeq(T, 1, k + 1)
  BY SliceNext
<1>2. a \in Seq(0..Space)
  <2>1. k \in 0..Len(T)
    OBVIOUS
  <2> QED
    BY <2>1, FrontType
<1>3. x \in 0..Space
  <2>1. k + 1 \in 1..Len(T)
    OBVIOUS
  <2> QED
    BY <2>1, ElementOfSeq
<1> HIDE DEF a, x
<1>4. c \in Seq(0..Space)
  BY <1>3
<1>5. Unspaced(c) = Kept(x)
  BY <1>3, UnspacedOne
<1> HIDE DEF c
<1>6. Unspaced(a \o c) = Unspaced(a) \o Unspaced(c)
  BY <1>2, <1>4, UnspacedConcat
<1>7. Unspaced(SubSeq(T, 1, k + 1)) = Unspaced(a) \o Kept(x)
  BY <1>1, <1>5, <1>6, Zenon
<1> QED
  BY <1>7 DEF a, x

\* A text without white space stays as it is, and none becomes longer.
LEMMA UnspacedPlain ==
  ASSUME NEW T \in Seq(0..Pad)
  PROVE  Unspaced(T) = T
<1> DEFINE n == Len(T)
           S == {k \in Nat : k <= n => Unspaced(SubSeq(T, 1, k)) = SubSeq(T, 1, k)}
<1>1. n \in Nat
  OBVIOUS
<1>2. Space = Pad + 1 /\ Pad \in Nat
  BY PadSpace
<1>3. T \in Seq(0..Space)
  BY PadSpace, SeqWider
<1>4. 0 \in S
  <2>1. SubSeq(T, 1, 0) = <<>>
    OBVIOUS
  <2>2. Unspaced(SubSeq(T, 1, 0)) = SubSeq(T, 1, 0)
    BY <2>1, UnspacedNone, Zenon
  <2> QED
    BY <2>2
<1>5. ASSUME NEW k \in 0..(n - 1), k \in S PROVE k + 1 \in S
  <2>1. k + 1 \in 1..n /\ k \in Nat /\ k + 1 \in Nat /\ k <= n
    BY <1>1
  <2>2. Unspaced(SubSeq(T, 1, k + 1)) = Unspaced(SubSeq(T, 1, k)) \o Kept(T[k + 1])
    BY <1>3, UnspacedGrows
  <2>3. Kept(T[k + 1]) = <<T[k + 1]>>
    <3>1. T[k + 1] \in 0..Pad
      BY <2>1, ElementOfSeq
    <3>2. T[k + 1] # Space
      BY <1>2, <3>1
    <3> QED
      BY <3>2, Zenon DEF Kept
  <2>4. SubSeq(T, 1, k) \o <<T[k + 1]>> = SubSeq(T, 1, k + 1)
    BY SliceNext
  <2>5. Unspaced(SubSeq(T, 1, k)) = SubSeq(T, 1, k)
    BY <1>5, <2>1
  <2>6. Unspaced(SubSeq(T, 1, k + 1)) = SubSeq(T, 1, k + 1)
    BY <2>2, <2>3, <2>4, <2>5, Zenon
  <2> QED
    BY <2>1, <2>6
<1> HIDE DEF S
<1>6. 0..n \subseteq S
  BY <1>1, <1>4, <1>5, UpTo
<1>7. n \in S
  BY <1>1, <1>6
<1>8. Unspaced(SubSeq(T, 1, n)) = SubSeq(T, 1, n)
  BY <1>1, <1>7 DEF S
<1>9. SubSeq(T, 1, n) = T
  OBVIOUS
<1> QED
  BY <1>8, <1>9, Zenon

\* What is left is not longer.
LEMMA UnspacedShort ==
  ASSUME NEW T \in Seq(0..Space)
  PROVE  Len(Unspaced(T)) <= Len(T)
<1> DEFINE n == Len(T)
           S == {k \in Nat : k <= n => Len(Unspaced(SubSeq(T, 1, k))) <= k}
<1>1. n \in Nat
  OBVIOUS
<1>4. 0 \in S
  <2>1. SubSeq(T, 1, 0) = <<>>
    OBVIOUS
  <2>2. Unspaced(SubSeq(T, 1, 0)) = <<>>
    BY <2>1, UnspacedNone, Zenon
  <2>3. Len(Unspaced(SubSeq(T, 1, 0))) <= 0
    BY <2>2
  <2> QED
    BY <2>3
<1>5. ASSUME NEW k \in 0..(n - 1), k \in S PROVE k + 1 \in S
  <2>1. k + 1 \in 1..n /\ k \in Nat /\ k + 1 \in Nat /\ k <= n
    BY <1>1
  <2> DEFINE u == Unspaced(SubSeq(T, 1, k))
             c == Kept(T[k + 1])
  <2>2. Unspaced(SubSeq(T, 1, k + 1)) = u \o c
    BY UnspacedGrows
  <2>3. T[k + 1] \in 0..Space
    BY <2>1, ElementOfSeq
  <2>4. c \in Seq(0..Space) /\ Len(c) <= 1
    <3> DEFINE x == T[k + 1]
    <3> HIDE DEF x
    <3>1. x \in 0..Space
      BY <2>3 DEF x
    <3>2. <<>> \in Seq(0..Space) /\ Len(<<>>) <= 1
      OBVIOUS
    <3>3. <<x>> \in Seq(0..Space) /\ Len(<<x>>) <= 1
      BY <3>1
    <3>4. Kept(x) \in Seq(0..Space) /\ Len(Kept(x)) <= 1
      BY <3>2, <3>3, Zenon DEF Kept
    <3> QED
      BY <3>4 DEF x
  <2>5. u \in Seq(0..Space)
    <3>0. k \in 0..Len(T)
      BY <1>1
    <3>1. SubSeq(T, 1, k) \in Seq(0..Space)
      BY <3>0, FrontType
    <3>2. u \in Seq(0..Pad)
      BY <3>1, UnspacedType
    <3> QED
      BY <3>2, PadSpace, SeqWider
  <2>6. Len(u) <= k
    BY <1>5, <2>1
  <2> HIDE DEF u, c
  <2>7. Len(u \o c) = Len(u) + Len(c)
    <3>1. u \in Seq(0..Space) /\ c \in Seq(0..Space)
      BY <2>4, <2>5
    <3> QED
      BY <3>1
  <2>8. Len(u \o c) <= k + 1
    BY <2>1, <2>4, <2>5, <2>6, <2>7
  <2> QED
    BY <2>1, <2>2, <2>8
<1> HIDE DEF S
<1>6. 0..n \subseteq S
  BY <1>1, <1>4, <1>5, UpTo
<1>7. n \in S
  BY <1>1, <1>6
<1>8. Len(Unspaced(SubSeq(T, 1, n))) <= n
  BY <1>1, <1>7 DEF S
<1>9. SubSeq(T, 1, n) = T
  OBVIOUS
<1> QED
  BY <1>8, <1>9

\* The text broken into lines.
Piece(T, i) == IF (i % 3) = 0 THEN <<T[i], Space>> ELSE <<T[i]>>

\* A piece of a broken text is the character and perhaps a line break.
LEMMA UnspacedPiece ==
  ASSUME NEW T \in Seq(0..Pad), NEW i \in 1..Len(T)
  PROVE  Piece(T, i) \in Seq(0..Space) /\ Unspaced(Piece(T, i)) = <<T[i]>>
<1> DEFINE x == T[i]
<1>1. x \in 0..Pad
  BY ElementOfSeq
<1> HIDE DEF x
<1>2. Space = Pad + 1 /\ Pad \in Nat
  BY PadSpace
<1>3. x \in 0..Space /\ Space \in 0..Space /\ x # Space
  BY <1>1, <1>2
<1>4. <<x>> \in Seq(0..Space) /\ <<Space>> \in Seq(0..Space)
  BY <1>3
<1>5. Unspaced(<<x>>) = <<x>>
  BY <1>3, UnspacedOne DEF Kept
<1>6. Unspaced(<<Space>>) = <<>>
  BY <1>3, UnspacedOne DEF Kept
<1>7. <<x, Space>> = <<x>> \o <<Space>>
  OBVIOUS
<1>8. Unspaced(<<x>> \o <<Space>>) = Unspaced(<<x>>) \o Unspaced(<<Space>>)
  BY <1>4, UnspacedConcat
<1>9. <<x>> \o <<>> = <<x>>
  BY <1>4, ConcatEmptySeq
<1>10. Unspaced(<<x, Space>>) = <<x>>
  BY <1>5, <1>6, <1>7, <1>8, <1>9, Zenon
<1>11. <<x, Space>> \in Seq(0..Space)
  BY <1>3
<1> QED
  BY <1>4, <1>5, <1>10, <1>11, Zenon DEF Piece, x

\* A text broken into lines is the text once white space is dropped.
LEMMA UnspacedLines ==
  ASSUME NEW T \in Seq(0..Pad)
  PROVE  LET s == [i \in DOMAIN T |-> Piece(T, i)]
         IN FlattenSeq(s) \in Seq(0..Space) /\ Unspaced(FlattenSeq(s)) = T
<1> DEFINE n == Len(T)
           s == [i \in DOMAIN T |-> Piece(T, i)]
           S == {k \in Nat : k <= n => Unspaced(FlatTo(s, k)) = SubSeq(T, 1, k)}
<1>1. n \in Nat /\ DOMAIN T = 1..n
  OBVIOUS
<1>2. \A i \in 1..n : s[i] = Piece(T, i) /\ Piece(T, i) \in Seq(0..Space)
  BY <1>1, UnspacedPiece
<1>3. s = [i \in 1..n |-> Piece(T, i)]
  BY <1>1
<1> HIDE DEF s
<1>30. s \in Seq(Seq(0..Space)) /\ Len(s) = n
  BY <1>1, <1>2, <1>3
<1>4. 0 \in S
  <2>1. SubSeq(T, 1, 0) = <<>>
    OBVIOUS
  <2>2. FlatTo(s, 0) = <<>>
    BY FlatNone, Zenon
  <2>3. Unspaced(FlatTo(s, 0)) = SubSeq(T, 1, 0)
    BY <2>1, <2>2, UnspacedNone, Zenon
  <2> QED
    BY <2>3
<1>5. ASSUME NEW k \in 0..(n - 1), k \in S PROVE k + 1 \in S
  <2>1. k + 1 \in 1..n /\ k \in Nat /\ k + 1 \in Nat /\ k <= n /\ (k + 1) - 1 = k /\ k \in 0..n
    BY <1>1
  <2> DEFINE a == FlatTo(s, k)
             c == s[k + 1]
  <2>2. k \in 0..Len(s) /\ k + 1 \in 1..Len(s)
    BY <1>30, <2>1
  <2>3. FlatTo(s, k + 1) = a \o c
    BY <1>30, <2>1, <2>2, FlatNext
  <2>4. a \in Seq(0..Space)
    BY <1>30, <2>2, FlatType
  <2>5. c \in Seq(0..Space)
    BY <1>2, <2>1
  <2>6. Unspaced(c) = <<T[k + 1]>>
    BY <1>2, <2>1, UnspacedPiece
  <2> HIDE DEF a, c
  <2>7. Unspaced(a \o c) = Unspaced(a) \o Unspaced(c)
    BY <2>4, <2>5, UnspacedConcat
  <2>8. Unspaced(a) = SubSeq(T, 1, k)
    BY <1>5, <2>1 DEF a
  <2>9. SubSeq(T, 1, k) \o <<T[k + 1]>> = SubSeq(T, 1, k + 1)
    BY SliceNext
  <2>10. Unspaced(FlatTo(s, k + 1)) = SubSeq(T, 1, k + 1)
    BY <2>3, <2>6, <2>7, <2>8, <2>9, Zenon
  <2> QED
    BY <2>1, <2>10
<1> HIDE DEF S
<1>6. 0..n \subseteq S
  BY <1>1, <1>4, <1>5, UpTo
<1>7. n \in S
  BY <1>1, <1>6
<1>8. Unspaced(FlatTo(s, n)) = SubSeq(T, 1, n)
  BY <1>1, <1>7 DEF S
<1>9. SubSeq(T, 1, n) = T
  OBVIOUS
<1>10. FlattenSeq(s) = FlatTo(s, n) /\ FlattenSeq(s) \in Seq(0..Space)
  BY <1>30, FlattenTo
<1>11. Unspaced(FlattenSeq(s)) = T
  BY <1>8, <1>9, <1>10, Zenon
<1> QED
  BY <1>10, <1>11 DEF s

-----------------------------------------------------------------------------
(* The layouts of a body *)

\* A text for each frame makes one text of all of them.
LEMMA SeparateText ==
  ASSUME NEW F \in Seq(Seq(Octet))
  PROVE  LET T == FlattenSeq(Map(encodeBase64, F))
         IN \E G : IsText(T, G) /\ FlattenSeq(G) = FlattenSeq(F)
<1> DEFINE n == Len(F)
           s == Map(encodeBase64, F)
           Made(k) == \E G : IsText(FlatTo(s, k), G) /\ FlattenSeq(G) = FlatTo(F, k)
           S == {k \in Nat : k <= n => Made(k)}
<1>1. n \in Nat /\ DOMAIN F = 1..n
  OBVIOUS
<1>2. s = [i \in 1..n |-> encodeBase64(F[i])]
  BY <1>1 DEF Map
<1>3. ASSUME NEW i \in 1..n
      PROVE  F[i] \in Seq(Octet) /\ IsText(encodeBase64(F[i]), Groups(F[i])) /\ encodeBase64(F[i]) \in Seq(0..Pad)
  <2>1. F[i] \in Seq(Octet)
    BY ElementOfSeq
  <2>2. IsText(encodeBase64(F[i]), Groups(F[i]))
    BY <2>1, EncodedText
  <2> QED
    BY <2>1, <2>2 DEF IsText
<1> HIDE DEF s
<1>4. s \in Seq(Seq(0..Pad)) /\ Len(s) = n
  BY <1>1, <1>2, <1>3
<1>5. 0 \in S
  <2>1. FlatTo(s, 0) = <<>> /\ FlatTo(F, 0) = <<>>
    BY FlatNone, Zenon
  <2>2. FlattenSeq(<<>>) = <<>>
    <3> DEFINE e == <<>>
    <3>1. e \in Seq(Seq(Octet)) /\ Len(e) = 0
      OBVIOUS
    <3>2. FlattenSeq(e) = FlatTo(e, Len(e))
      BY <3>1, FlattenTo
    <3> QED
      BY <3>1, <3>2, FlatNone
  <2>3. Made(0)
    BY <2>1, <2>2, TextNone
  <2> HIDE DEF Made
  <2> QED
    BY <2>3
<1>6. ASSUME NEW k \in 0..(n - 1), k \in S PROVE k + 1 \in S
  <2>1. k + 1 \in 1..n /\ k \in Nat /\ k + 1 \in Nat /\ k <= n /\ (k + 1) - 1 = k /\ k \in 0..n
    BY <1>1
  <2> DEFINE f == F[k + 1]
             t == encodeBase64(f)
             H == Groups(f)
  <2>2. PICK G : IsText(FlatTo(s, k), G) /\ FlattenSeq(G) = FlatTo(F, k)
    BY <1>6, <2>1
  <2>3. f \in Seq(Octet) /\ IsText(t, H)
    BY <1>3, <2>1
  <2>4. s[k + 1] = t
    BY <1>2, <2>1
  <2>5. k + 1 \in 1..Len(s) /\ k + 1 \in 1..Len(F)
    BY <1>4, <2>1
  <2>6. FlatTo(s, k + 1) = FlatTo(s, k) \o t
    BY <1>4, <2>1, <2>4, <2>5, FlatNext
  <2>7. FlatTo(F, k + 1) = FlatTo(F, k) \o f
    BY <2>1, <2>5, FlatNext
  <2>8. FlattenSeq(H) = f
    BY <2>3, GroupsOf
  <2> HIDE DEF t, f, H
  <2>9. IsText(FlatTo(s, k + 1), G \o H)
    BY <2>2, <2>3, <2>6, TextConcat
  <2>10. G \in Seq(Seq(Octet)) /\ H \in Seq(Seq(Octet))
    BY <2>2, <2>3 DEF IsText, AreGroups
  <2>11. FlattenSeq(G \o H) = FlattenSeq(G) \o FlattenSeq(H)
    BY <2>10, FlattenConcat
  <2>12. FlattenSeq(G \o H) = FlatTo(F, k + 1)
    BY <2>2, <2>7, <2>8, <2>11, Zenon
  <2>13. Made(k + 1)
    BY <2>9, <2>12
  <2> HIDE DEF Made
  <2> QED
    BY <2>1, <2>13
<1> HIDE DEF S
<1>7. 0..n \subseteq S
  BY <1>1, <1>5, <1>6, UpTo
<1>8. n \in S
  BY <1>1, <1>7
<1>9. Made(n)
  BY <1>1, <1>8 DEF S
<1>10. FlattenSeq(s) = FlatTo(s, n)
  BY <1>4, FlattenTo
<1>11. FlattenSeq(F) = FlatTo(F, n)
  BY FlattenTo
<1> QED
  BY <1>9, <1>10, <1>11 DEF s

\* Whatever its layout, a body that is text is a text of all the bytes.
LEMMA LayoutText ==
  ASSUME NEW F \in Seq(Seq(Octet)), NEW layout
  PROVE  IF layout = "raw" THEN Layout(F, layout) = FlattenSeq(F)
         ELSE /\ Layout(F, layout) \in Seq(0..Space)
              /\ \E G : IsText(Unspaced(Layout(F, layout)), G) /\ FlattenSeq(G) = FlattenSeq(F)
<1> DEFINE w == FlattenSeq(F)
           joint == encodeBase64(w)
           separate == FlattenSeq(Map(encodeBase64, F))
           lines == FlattenSeq([i \in DOMAIN joint |-> Piece(joint, i)])
           Good(T) == T \in Seq(0..Space) /\ \E G : IsText(Unspaced(T), G) /\ FlattenSeq(G) = w
<1>1. w \in Seq(Octet)
  BY FlattenTo
<1>2. IsText(joint, Groups(w)) /\ FlattenSeq(Groups(w)) = w
  BY <1>1, EncodedText, GroupsOf
<1>3. joint \in Seq(0..Pad)
  BY <1>2 DEF IsText
<1>4. Good(joint)
  <2>1. Unspaced(joint) = joint
    BY <1>3, UnspacedPlain
  <2>2. joint \in Seq(0..Space)
    BY <1>3, PadSpace, SeqWider
  <2> HIDE DEF joint, w
  <2> QED
    BY <1>2, <2>1, <2>2
<1>5. Good(separate)
  <2>1. PICK G : IsText(separate, G) /\ FlattenSeq(G) = w
    BY SeparateText
  <2>2. separate \in Seq(0..Pad)
    BY <2>1 DEF IsText
  <2>3. Unspaced(separate) = separate
    BY <2>2, UnspacedPlain
  <2>4. separate \in Seq(0..Space)
    BY <2>2, PadSpace, SeqWider
  <2> HIDE DEF separate, w
  <2> QED
    BY <2>1, <2>3, <2>4
<1>6. Good(lines)
  <2>1. lines \in Seq(0..Space) /\ Unspaced(lines) = joint
    BY <1>3, UnspacedLines
  <2> HIDE DEF joint, w, lines
  <2> QED
    BY <1>2, <2>1
<1>7. Layout(F, layout) = CASE layout = "raw" -> w
                            [] layout = "separate" -> separate
                            [] layout = "joint" -> joint
                            [] OTHER -> lines
  BY DEF Layout, Piece
<1> HIDE DEF w, joint, separate, lines
<1>8. CASE layout = "raw"
  <2>1. Layout(F, layout) = w
    BY <1>7, <1>8
  <2> QED
    BY <1>8, <2>1 DEF w
<1>9. CASE layout # "raw"
  <2>1. Layout(F, layout) \in {separate, joint, lines}
    BY <1>7, <1>9
  <2> HIDE DEF Good
  <2>2. Good(Layout(F, layout))
    BY <1>4, <1>5, <1>6, <2>1
  <2> QED
    BY <1>9, <2>2 DEF Good, w
<1> QED
  BY <1>8, <1>9

-----------------------------------------------------------------------------
(* The segments of a text *)

\* A slice of a sequence, its length and its elements.
LEMMA Cutting ==
  ASSUME NEW X, NEW b \in Seq(X), NEW p \in Nat, NEW q \in Nat, p <= q, q <= Len(b)
  PROVE  /\ SubSeq(b, p + 1, q) \in Seq(X)
         /\ Len(SubSeq(b, p + 1, q)) = q - p
         /\ \A i \in 1..(q - p) : SubSeq(b, p + 1, q)[i] = b[p + i]
<1>1. Len(b) \in Nat
  OBVIOUS
<1>2. SubSeq(b, p + 1, q) \in Seq(X)
  BY <1>1
<1>3. Len(SubSeq(b, p + 1, q)) = q - p
  BY <1>1
<1>4. \A i \in 1..(q - p) : SubSeq(b, p + 1, q)[i] = b[p + i]
  BY <1>1
<1> QED
  BY <1>2, <1>3, <1>4

\* A part of a text is a text of those groups.
LEMMA TextSlice ==
  ASSUME NEW T, NEW G, IsText(T, G), NEW q \in Nat, NEW m \in Nat, q + m <= Len(G)
  PROVE  IsText(SubSeq(T, 4 * q + 1, 4 * (q + m)), SubSeq(G, q + 1, q + m))
<1> DEFINE U == SubSeq(T, 4 * q + 1, 4 * (q + m))
           H == SubSeq(G, q + 1, q + m)
<1>1. /\ G \in Seq(Seq(Octet)) /\ T \in Seq(0..Pad) /\ Len(T) = 4 * Len(G) /\ Len(G) \in Nat
  BY DEF IsText, AreGroups
<1> DEFINE a == 4 * q
           c == 4 * (q + m)
<1>2. a \in Nat /\ c \in Nat /\ a <= c /\ c <= Len(T) /\ c - a = 4 * m
  BY <1>1
<1> HIDE DEF a, c
<1>3. U = SubSeq(T, a + 1, c)
  BY DEF a, c
<1> HIDE DEF U
<1>4. U \in Seq(0..Pad)
  BY <1>1, <1>2, <1>3, Cutting
<1>5. Len(U) = c - a
  BY <1>1, <1>2, <1>3, Cutting
<1>6. \A i \in 1..(c - a) : U[i] = T[a + i]
  BY <1>1, <1>2, <1>3, Cutting
<1> DEFINE e == q + m
<1>70. e \in Nat /\ q <= e /\ e <= Len(G) /\ e - q = m
  BY <1>1
<1>71. H = SubSeq(G, q + 1, e)
  OBVIOUS
<1> HIDE DEF e, H
<1>72. /\ SubSeq(G, q + 1, e) \in Seq(Seq(Octet))
       /\ Len(SubSeq(G, q + 1, e)) = e - q
       /\ \A j \in 1..(e - q) : SubSeq(G, q + 1, e)[j] = G[q + j]
  <2> DEFINE Y == Seq(Octet)
  <2>1. G \in Seq(Y) /\ q \in Nat
    BY <1>1
  <2> HIDE DEF Y
  <2>2. /\ SubSeq(G, q + 1, e) \in Seq(Y)
        /\ Len(SubSeq(G, q + 1, e)) = e - q
        /\ \A j \in 1..(e - q) : SubSeq(G, q + 1, e)[j] = G[q + j]
    BY <1>70, <2>1, Cutting
  <2> QED
    BY <2>2 DEF Y
<1>7. H \in Seq(Seq(Octet)) /\ Len(H) = m
  BY <1>70, <1>71, <1>72, Zenon
<1>8. \A j \in 1..m : H[j] = G[q + j]
  BY <1>70, <1>71, <1>72, Zenon
<1> HIDE DEF H
<1>9. ASSUME NEW j \in 1..m
      PROVE  Len(H[j]) \in 1..3 /\ \A i \in 1..4 : U[4 * (j - 1) + i] = Quad(H[j])[i]
  <2>1. q + j \in 1..Len(G) /\ H[j] = G[q + j]
    BY <1>1, <1>8
  <2>2. Len(H[j]) \in 1..3
    BY <2>1 DEF IsText, AreGroups
  <2>3. ASSUME NEW i \in 1..4 PROVE U[4 * (j - 1) + i] = Quad(H[j])[i]
    <3>1. 4 * (j - 1) + i \in 1..(c - a)
      BY <1>2
    <3>2. a + (4 * (j - 1) + i) = 4 * ((q + j) - 1) + i
      BY DEF a
    <3>3. T[4 * ((q + j) - 1) + i] = Quad(G[q + j])[i]
      BY <2>1 DEF IsText
    <3> QED
      BY <1>6, <2>1, <3>1, <3>2, <3>3
  <2> QED
    BY <2>2, <2>3
<1>10. AreGroups(H)
  BY <1>7, <1>9 DEF AreGroups
<1>11. Len(U) = 4 * Len(H)
  BY <1>2, <1>5, <1>7
<1>12. IsText(U, H)
  BY <1>4, <1>7, <1>9, <1>10, <1>11 DEF IsText
<1> QED
  BY <1>12 DEF U, H

\* A text is decoded to its groups.
LEMMA TextDecoded ==
  ASSUME NEW T, NEW G, IsText(T, G)
  PROVE  decodeBase64Segment(T) = FlattenSeq(G)
<1> DEFINE n == Len(G)
           s == [i \in 1..(Len(T) \div 4) |-> Bytes(SubSeq(T, 4 * i - 3, 4 * i))]
<1>1. G \in Seq(Seq(Octet)) /\ T \in Seq(0..Pad) /\ Len(T) = 4 * n /\ n \in Nat
  BY DEF IsText, AreGroups
<1>2. Len(T) \div 4 = n
  <2> HIDE DEF n
  <2> QED
    BY <1>1
<1>3. ASSUME NEW j \in 1..n PROVE Bytes(SubSeq(T, 4 * j - 3, 4 * j)) = G[j]
  <2> DEFINE a == 4 * (j - 1)
             u == SubSeq(T, 4 * j - 3, 4 * j)
             v == Quad(G[j])
  <2>1. /\ a \in Nat /\ 4 * j - 3 = a + 1 /\ 4 * j = a + 4 /\ a + 4 <= Len(T)
        /\ a + 4 \in Nat /\ a <= a + 4 /\ (a + 4) - a = 4
    <3> HIDE DEF n
    <3> QED
      BY <1>1
  <2>2. v \in Seq(0..Pad) /\ Len(v) = 4 /\ Bytes(v) = G[j]
    BY GroupQuad DEF IsText
  <2>3. \A i \in 1..4 : T[a + i] = v[i]
    BY DEF IsText
  <2> HIDE DEF a, v
  <2>4. u = SubSeq(T, a + 1, a + 4)
    BY <2>1
  <2> HIDE DEF u
  <2>5. u \in Seq(0..Pad)
    BY <1>1, <2>1, <2>4, Cutting
  <2>6. Len(u) = 4
    BY <1>1, <2>1, <2>4, Cutting
  <2>7. \A i \in 1..4 : u[i] = T[a + i]
    BY <1>1, <2>1, <2>4, Cutting
  <2>8. u = v
    BY <2>2, <2>3, <2>5, <2>6, <2>7, SeqEqual
  <2> QED
    BY <2>2, <2>8 DEF u
<1>4. s = [i \in 1..n |-> G[i]]
  BY <1>2, <1>3
<1>5. G = [i \in 1..n |-> G[i]]
  BY <1>1
<1>6. s = G
  BY <1>4, <1>5
<1> QED
  BY <1>6 DEF decodeBase64Segment

\* Some sequences behind the first q, flattened.
LEMMA FlattenPart ==
  ASSUME NEW X, NEW s \in Seq(Seq(X)), NEW q \in Nat, NEW m \in Nat, q + m <= Len(s)
  PROVE  FlatTo(s, q) \o FlattenSeq(SubSeq(s, q + 1, q + m)) = FlatTo(s, q + m)
<1> DEFINE a == SubSeq(s, 1, q)
           c == SubSeq(s, q + 1, q + m)
           e == SubSeq(s, 1, q + m)
<1>1. Len(s) \in Nat /\ q \in 0..Len(s) /\ q + m \in 0..Len(s) /\ q + m \in Nat /\ q <= q + m
  OBVIOUS
<1>2. a \o c = e
  BY <1>1, SliceJoin
<1>3. a \in Seq(Seq(X)) /\ c \in Seq(Seq(X))
  BY <1>1
<1>4. FlattenSeq(a) = FlatTo(s, q)
  BY <1>1, FlattenFront
<1>5. FlattenSeq(e) = FlatTo(s, q + m)
  BY <1>1, FlattenFront
<1> HIDE DEF a, c, e
<1>6. FlattenSeq(a \o c) = FlattenSeq(a) \o FlattenSeq(c)
  BY <1>3, FlattenConcat
<1>7. FlatTo(s, q) \o FlattenSeq(c) = FlatTo(s, q + m)
  BY <1>2, <1>4, <1>5, <1>6, Zenon
<1> QED
  BY <1>7 DEF c

\* Of the text U, what is ahead of a reader that has decoded q quads.  It halts
\* when no quad is complete, or inside of a padding.
Ahead(U, q) == SubSeq(U, 4 * q + 1, Len(U))
Reached(G, U, q) == q \in 0..Len(G) /\ 4 * q <= Len(U)
Halted(U, q) == Len(U) - 4 * q < 4 \/ (U[Len(U)] = Pad /\ (Len(U) % 4) # 0)

\* What is ahead is a part of the text.
LEMMA AheadIs ==
  ASSUME NEW G, NEW T, IsText(T, G), NEW U \in Seq(0..Pad), Leads(U, T), NEW q, Reached(G, U, q)
  PROVE  /\ Ahead(U, q) \in Seq(0..Pad) /\ Len(Ahead(U, q)) = Len(U) - 4 * q
         /\ Len(U) <= 4 * Len(G) /\ Len(G) \in Nat /\ q \in Nat
         /\ \A i \in 1..Len(Ahead(U, q)) : Ahead(U, q)[i] = T[4 * q + i] /\ T[4 * q + i] = U[4 * q + i]
<1> DEFINE a == 4 * q
           b == Len(U)
           P == Ahead(U, q)
<1>1. Len(G) \in Nat /\ q \in Nat /\ a <= b /\ Len(T) = 4 * Len(G) /\ Len(U) <= Len(T)
  BY DEF Reached, IsText, AreGroups, Leads
<1>2. a \in Nat /\ b \in Nat /\ b <= Len(U)
  BY <1>1
<1>3. P = SubSeq(U, a + 1, b)
  BY DEF Ahead
<1> HIDE DEF a, b, P
<1>40. /\ SubSeq(U, a + 1, b) \in Seq(0..Pad)
       /\ Len(SubSeq(U, a + 1, b)) = b - a
       /\ \A i \in 1..(b - a) : SubSeq(U, a + 1, b)[i] = U[a + i]
  BY <1>1, <1>2, Cutting, Zenon
<1>4. P \in Seq(0..Pad) /\ Len(P) = b - a
  BY <1>3, <1>40, Zenon
<1>5. \A i \in 1..(b - a) : P[i] = U[a + i]
  BY <1>3, <1>40, Zenon
<1>6. ASSUME NEW i \in 1..Len(P) PROVE P[i] = T[a + i] /\ T[a + i] = U[a + i]
  <2>1. i \in 1..(b - a) /\ a + i \in 1..b
    BY <1>1, <1>2, <1>4
  <2>2. T[a + i] = U[a + i]
    BY <2>1 DEF Leads, b
  <2> QED
    BY <1>5, <2>1, <2>2
<1>7. Len(U) <= 4 * Len(G)
  BY <1>1
<1> QED
  BY <1>1, <1>4, <1>6, <1>7 DEF a, b, P

\* A segment ends with a quad, has padding in its last quad at most, and what
\* has arrived of it is decoded unless it stops inside that padding.
LEMMA SegmentFound ==
  ASSUME NEW G, NEW T, IsText(T, G), NEW U \in Seq(0..Pad), Leads(U, T), NEW q, Reached(G, U, q),
         Len(Ahead(U, q)) >= 4
  PROVE  LET P == Ahead(U, q) IN
         \E m \in 1..(Len(G) - q) :
           /\ EncodedLength(P) = 4 * m
           /\ IF 4 * m <= Len(P) THEN Decodable(SubSeq(P, 1, 4 * m)) ELSE Halted(U, q)
<1> DEFINE P == Ahead(U, q)
           l == Len(P)
           g == Len(G)
           pads == {i \in DOMAIN P : P[i] = Pad}
<1>1. /\ P \in Seq(0..Pad) /\ l = Len(U) - 4 * q
      /\ Len(U) <= 4 * g /\ g \in Nat /\ q \in Nat
  BY AheadIs
<1>2. \A i \in 1..l : P[i] = T[4 * q + i] /\ T[4 * q + i] = U[4 * q + i]
  BY AheadIs
<1>3. l \in Nat /\ Len(U) \in Nat /\ DOMAIN P = 1..l /\ l >= 4
  BY <1>1
<1>4. CASE pads = {}
  <2> DEFINE m == l \div 4
  <2>1. EncodedLength(P) = l - (l % 4)
    BY <1>4 DEF EncodedLength
  <2> HIDE DEF P, l, g
  <2>2. l - (l % 4) = 4 * m /\ m \in 1..(g - q) /\ 4 * m <= l /\ 4 * m \in Nat
    <3>1. l \in Nat /\ l >= 4 /\ l <= 4 * g - 4 * q /\ g \in Nat /\ q \in Nat
      BY <1>1, <1>3
    <3>2. m \in Nat /\ l - (l % 4) = 4 * m /\ 4 * m <= l /\ l < 4 * m + 4
      BY <3>1
    <3> HIDE DEF m
    <3> QED
      BY <3>1, <3>2
  <2> HIDE DEF m
  <2> DEFINE n == 4 * m
             s == SubSeq(P, 1, n)
  <2>3. n \in 0..Len(P) /\ n \in Nat
    BY <1>3, <2>2 DEF l
  <2>4. Len(s) = n
    BY <1>1, <2>3, FrontType DEF l
  <2>5. Decodable(s)
    <3>1. \A i \in 1..n : s[i] = P[i]
      <4> HIDE DEF n
      <4> QED
        BY <1>1, <2>3
    <3> HIDE DEF s, n
    <3>2. ASSUME NEW i \in 1..(Len(s) - 4) PROVE s[i] # Pad
      <4>1. i \in 1..n /\ i \in 1..l
        BY <2>3, <2>4 DEF l
      <4> QED
        BY <1>3, <1>4, <3>1, <4>1
    <3> QED
      BY <3>2 DEF Decodable
  <2> QED
    BY <2>1, <2>2, <2>5 DEF P, l, g
<1>5. CASE pads # {}
  <2> DEFINE p == Min(pads)
             m == (p + 3) \div 4
  <2>1. p \in pads /\ \A i \in pads : p <= i
    <3>1. pads \subseteq Nat
      BY <1>3
    <3> HIDE DEF pads
    <3> QED
      BY <1>5, <3>1, LeastNat
  <2>2. EncodedLength(P) = m * 4
    BY <1>5 DEF EncodedLength
  <2> HIDE DEF p
  <2>3. p \in 1..l /\ P[p] = Pad
    BY <1>3, <2>1
  <2> HIDE DEF P, l, g
  <2>4. m \in 1..(g - q) /\ 4 * (m - 1) < p /\ p <= 4 * m /\ m * 4 = 4 * m
    BY <1>1, <1>3, <2>3
  <2> HIDE DEF m
  <2>5. CASE 4 * m <= l
    <3> DEFINE n == 4 * m
               s == SubSeq(P, 1, n)
    <3>1. n \in 0..Len(P) /\ n \in Nat /\ n - 4 < p
      BY <1>1, <1>3, <2>3, <2>4, <2>5 DEF l
    <3> HIDE DEF n
    <3>2. Len(s) = n
      BY <1>1, <3>1, FrontType DEF l
    <3>3. \A i \in 1..n : s[i] = P[i]
      BY <1>1, <3>1
    <3> HIDE DEF s
    <3>4. ASSUME NEW i \in 1..(Len(s) - 4) PROVE s[i] # Pad
      <4>1. i \in 1..n /\ i \in 1..l /\ ~(p <= i)
        BY <2>3, <3>1, <3>2 DEF l
      <4>2. i \notin pads
        BY <2>1, <4>1
      <4>3. P[i] # Pad
        BY <1>3, <4>1, <4>2
      <4> QED
        BY <3>3, <4>1, <4>3
    <3>5. Decodable(s)
      BY <3>4 DEF Decodable
    <3> QED
      BY <2>2, <2>4, <2>5, <3>5 DEF P, l, g, s, n
  <2>6. CASE ~ 4 * m <= l
    <3> DEFINE a == p - 4 * (m - 1)
               c == l - 4 * (m - 1)
               j == q + m
    <3>1. a \in 1..4 /\ c \in 1..3 /\ a <= c /\ j \in 1..g
          /\ 4 * (j - 1) + a = 4 * q + p /\ 4 * (j - 1) + c = 4 * q + l /\ 4 * q + l = Len(U)
      BY <1>1, <1>3, <2>3, <2>4, <2>6
    <3>2. (Len(U) % 4) # 0
      <4>1. Len(U) = 4 * (j - 1) + c
        BY <3>1
      <4>2. j \in Nat /\ j >= 1
        BY <1>1, <2>4
      <4> HIDE DEF j, c
      <4> QED
        BY <3>1, <4>1, <4>2
    <3> HIDE DEF a, c, j
    <3>3. j \in 1..Len(G)
      BY <3>1 DEF g
    <3>40. \A i \in 1..4 : T[4 * (j - 1) + i] = Quad(G[j])[i]
      BY <3>3 DEF IsText
    <3>4. T[4 * (j - 1) + a] = Quad(G[j])[a] /\ T[4 * (j - 1) + c] = Quad(G[j])[c]
      <4>1. a \in 1..4 /\ c \in 1..4
        BY <3>1
      <4> QED
        BY <3>40, <4>1
    <3>5. \A i \in 1..4 : Quad(G[j])[i] = Pad <=> i > Len(G[j]) + 1
      BY <3>3, GroupQuad DEF IsText
    <3>6. Len(G[j]) \in 1..3
      BY <3>3 DEF IsText, AreGroups
    <3>7. Quad(G[j])[a] = Pad
      BY <1>2, <2>3, <3>1, <3>4
    <3>8. Quad(G[j])[c] = Pad
      <4>1. a > Len(G[j]) + 1
        BY <3>1, <3>5, <3>7
      <4>2. c > Len(G[j]) + 1 /\ c \in 1..4
        BY <3>1, <3>6, <4>1
      <4> QED
        BY <3>5, <4>2
    <3>9. U[Len(U)] = Pad
      <4>1. l \in 1..l
        BY <1>3
      <4> QED
        BY <1>2, <3>1, <3>4, <3>8, <4>1
    <3>10. Halted(U, q)
      BY <3>2, <3>9 DEF Halted
    <3> QED
      BY <2>2, <2>4, <2>6, <3>10 DEF P, l, g
  <2> QED
    BY <2>5, <2>6
<1> QED
  BY <1>4, <1>5

LEMMA SegmentTurns ==
  ASSUME NEW X, NEW b \in Seq(X)
  PROVE  LET n == Len(b) \div 4 IN
         \E turn : /\ turn[0] = [decoded |-> <<>>, pending |-> b, failed |-> FALSE]
                   /\ \A i \in 1..n : turn[i] = SegmentTurn(turn[i - 1])
                   /\ Segments(b) = turn[n]
<1> DEFINE start == [decoded |-> <<>>, pending |-> b, failed |-> FALSE]
           Is(f, n) == f = [i \in 0..n |-> IF i = 0 THEN start ELSE SegmentTurn(f[i - 1])]
           S == {n \in Nat : \E f : Is(f, n)}
           m == Len(b) \div 4
           turn == CHOOSE f : Is(f, m)
<1>1. 0 \in S
  <2>1. Is([i \in 0..0 |-> start], 0)
    OBVIOUS
  <2> QED
    BY <2>1
<1>2. ASSUME NEW n \in Nat, n \in S PROVE n + 1 \in S
  <2>1. PICK f : Is(f, n)
    BY <1>2
  <2> DEFINE last == SegmentTurn(f[n])
             g == [i \in 0..(n + 1) |-> IF i = n + 1 THEN last ELSE f[i]]
  <2>2. \A i \in 0..n : f[i] = IF i = 0 THEN start ELSE SegmentTurn(f[i - 1])
    BY <2>1
  <2>3. ASSUME NEW i \in 0..(n + 1) PROVE g[i] = IF i = 0 THEN start ELSE SegmentTurn(g[i - 1])
    <3> HIDE DEF start
    <3>1. CASE i = n + 1
      <4>1. g[n] = f[n] /\ i # 0 /\ i - 1 = n /\ g[i] = last
        BY <3>1
      <4> HIDE DEF g
      <4> QED
        BY <4>1
    <3>2. CASE i # n + 1
      <4>1. i \in 0..n /\ g[i] = f[i]
        BY <3>2
      <4>2. i # 0 => g[i - 1] = f[i - 1]
        BY <4>1
      <4> HIDE DEF g
      <4> QED
        BY <2>2, <4>1, <4>2
    <3> QED
      BY <3>1, <3>2
  <2>4. g = [i \in 0..(n + 1) |-> g[i]]
    OBVIOUS
  <2> HIDE DEF g, start
  <2>5. Is(g, n + 1)
    BY <2>3, <2>4
  <2> HIDE DEF Is, last
  <2>6. \E h : Is(h, n + 1)
    BY <2>5
  <2> QED
    BY <2>6
<1>3. m \in S
  <2>1. m \in Nat
    OBVIOUS
  <2> HIDE DEF S, m
  <2> QED
    BY <1>1, <1>2, <2>1, SetInduction
<1>4. \E f : Is(f, m)
  BY <1>3
<1>5. Is(turn, m)
  <2> HIDE DEF Is
  <2> QED
    BY <1>4, Zenon
<1>6. Segments(b) = turn[m]
  BY DEF Segments
<1>7. m \in Nat
  OBVIOUS
<1> HIDE DEF turn, start, m
<1>8. turn[0] = start
  BY <1>5, <1>7
<1>9. \A i \in 1..m : turn[i] = SegmentTurn(turn[i - 1])
  BY <1>5, <1>7
<1> QED
  BY <1>6, <1>8, <1>9 DEF start, m

\* What the loop of #decodeCompleteSegments has made of the text U, of which q0
\* quads were decoded before.
Decoded(G, U, q0, at, q) ==
  /\ Reached(G, U, q)
  /\ ~at.failed /\ at.pending = Ahead(U, q)
  /\ at.decoded \in Seq(Seq(Octet))
  /\ FlatTo(G, q0) \o FlattenSeq(at.decoded) = FlatTo(G, q)

\* A turn decodes further quads, or halts for good.
LEMMA TurnDecodes ==
  ASSUME NEW G, NEW T, IsText(T, G), NEW U \in Seq(0..Pad), Leads(U, T),
         NEW q0 \in 0..Len(G), NEW at, NEW q, Decoded(G, U, q0, at, q)
  PROVE  \/ SegmentTurn(at) = at /\ Halted(U, q)
         \/ \E r \in (q + 1)..Len(G) : Decoded(G, U, q0, SegmentTurn(at), r)
<1> DEFINE P == Ahead(U, q)
<1>1. at.pending = P /\ ~at.failed /\ Reached(G, U, q)
  BY DEF Decoded
<1>2. /\ P \in Seq(0..Pad) /\ Len(P) = Len(U) - 4 * q
      /\ Len(U) <= 4 * Len(G) /\ Len(G) \in Nat /\ q \in Nat
      /\ \A i \in 1..Len(P) : P[i] = T[4 * q + i]
  BY <1>1, AheadIs
<1>20. Len(P) \in Nat /\ Len(U) \in Nat
  BY <1>2
<1> HIDE DEF P
<1>3. CASE Len(P) < 4
  <2>1. SegmentTurn(at) = at
    BY <1>1, <1>3 DEF SegmentTurn
  <2>2. Halted(U, q)
    BY <1>2, <1>3 DEF Halted
  <2> QED
    BY <2>1, <2>2
<1>4. CASE ~(Len(P) < 4)
  <2>1. PICK m \in 1..(Len(G) - q) :
           /\ EncodedLength(P) = 4 * m
           /\ IF 4 * m <= Len(P) THEN Decodable(SubSeq(P, 1, 4 * m)) ELSE Halted(U, q)
    <3>1. Len(P) >= 4
      BY <1>20, <1>4
    <3> QED
      BY <1>1, <3>1, SegmentFound DEF P
  <2>2. 4 * m # 0 /\ m \in Nat /\ q + m <= Len(G) /\ q + m \in (q + 1)..Len(G) /\ q + m \in 0..Len(G)
    BY <1>2
  <2>3. CASE ~ 4 * m <= Len(P)
    <3>1. Len(P) < 4 * m
      BY <1>20, <2>2, <2>3
    <3>2. SegmentTurn(at) = at
      BY <1>1, <2>1, <3>1 DEF SegmentTurn
    <3> QED
      BY <2>1, <2>3, <3>2
  <2>4. CASE 4 * m <= Len(P)
    <3> DEFINE s == SubSeq(P, 1, 4 * m)
               H == SubSeq(G, q + 1, q + m)
               c == decodeBase64Segment(s)
               after == SegmentTurn(at)
    <3>1. ~(Len(P) < 4 * m) /\ Decodable(s)
      BY <1>20, <2>1, <2>2, <2>4
    <3>2. after = [decoded |-> Append(at.decoded, c), pending |-> SubSeq(P, 4 * m + 1, Len(P)), failed |-> FALSE]
      BY <1>1, <1>4, <2>1, <2>2, <3>1 DEF SegmentTurn
    <3>3. s = SubSeq(T, 4 * q + 1, 4 * (q + m))
      <4> DEFINE a == 4 * q
                 n == 4 * m
                 e == 4 * (q + m)
                 t == SubSeq(T, a + 1, e)
      <4>1. a \in Nat /\ e \in Nat /\ a <= e /\ e - a = n /\ e <= 4 * Len(G) /\ n \in Nat
        BY <1>2, <2>2
      <4>2. T \in Seq(0..Pad) /\ Len(T) = 4 * Len(G)
        BY DEF IsText
      <4>3. n \in 0..Len(P)
        BY <1>20, <2>4, <4>1
      <4> HIDE DEF a, n, e
      <4>40. e <= Len(T)
        BY <4>1, <4>2
      <4>41. t \in Seq(0..Pad) /\ Len(t) = e - a /\ \A i \in 1..(e - a) : t[i] = T[a + i]
        <5> DEFINE X == 0..Pad
        <5>1. T \in Seq(X)
          BY <4>2
        <5> HIDE DEF X
        <5>2. t \in Seq(X)
          BY <4>1, <4>40, <5>1, Cutting
        <5>3. Len(t) = e - a
          BY <4>1, <4>40, <5>1, Cutting
        <5>4. \A i \in 1..(e - a) : t[i] = T[a + i]
          BY <4>1, <4>40, <5>1, Cutting
        <5> QED
          BY <5>2, <5>3, <5>4 DEF X
      <4>4. t \in Seq(0..Pad) /\ Len(t) = n /\ \A i \in 1..n : t[i] = T[a + i]
        BY <4>1, <4>41, Zenon
      <4> DEFINE u == SubSeq(P, 1, n)
      <4>5. u \in Seq(0..Pad) /\ Len(u) = n
        BY <1>2, <4>3, FrontType
      <4>6. \A i \in 1..n : u[i] = P[i]
        BY <1>2, <4>3
      <4>7. \A i \in 1..n : P[i] = T[a + i]
        BY <1>2, <1>20, <4>3 DEF a
      <4> HIDE DEF t, u
      <4>8. t = u
        BY <4>4, <4>5, <4>6, <4>7, SeqEqual
      <4> QED
        BY <4>8 DEF t, u, a, n, e
    <3>4. IsText(s, H)
      BY <1>2, <2>2, <3>3, TextSlice
    <3>5. c = FlattenSeq(H)
      BY <3>4, TextDecoded
    <3>6. G \in Seq(Seq(Octet)) /\ H \in Seq(Seq(Octet))
      BY <3>4 DEF IsText, AreGroups
    <3>7. c \in Seq(Octet)
      BY <3>5, <3>6, FlattenTo
    <3>8. FlatTo(G, q) \o c = FlatTo(G, q + m)
      BY <1>2, <2>2, <3>5, <3>6, FlattenPart
    <3>9. SubSeq(P, 4 * m + 1, Len(P)) = Ahead(U, q + m)
      <4> DEFINE o == 4 * q
                 l == 4 * m
      <4>1. o \in Nat /\ l \in Nat /\ o + l <= Len(U) /\ o + l = 4 * (q + m)
        BY <1>2, <1>20, <2>2, <2>4
      <4>2. P = SubSeq(U, o + 1, Len(U))
        BY DEF P, Ahead
      <4> HIDE DEF o, l
      <4>3. SubSeq(P, l + 1, Len(P)) = SubSeq(U, (o + l) + 1, Len(U))
        BY <4>1, <4>2, SliceAgain
      <4> QED
        BY <4>1, <4>3 DEF Ahead, l
    <3>10. Reached(G, U, q + m)
      <4>1. 4 * (q + m) <= Len(U)
        BY <1>2, <1>20, <2>2, <2>4
      <4> QED
        BY <2>2, <4>1 DEF Reached
    <3> DEFINE d == at.decoded
               f == FlattenSeq(d)
               g0 == FlatTo(G, q0)
    <3>11. d \in Seq(Seq(Octet)) /\ g0 \o f = FlatTo(G, q)
      BY DEF Decoded
    <3>12. Append(d, c) \in Seq(Seq(Octet))
      <4> HIDE DEF d, c
      <4> QED
        BY <3>7, <3>11
    <3>13. FlattenSeq(Append(d, c)) = f \o c
      BY <3>7, <3>11, FlattenAppend
    <3>14. f \in Seq(Octet)
      BY <3>11, FlattenTo
    <3>15. g0 \in Seq(Octet)
      BY <3>6, FlatType
    <3> HIDE DEF f, g0, c, d
    <3>16. (g0 \o f) \o c = g0 \o (f \o c)
      <4>1. OneLine(g0, f, c)
        BY <3>7, <3>14, <3>15, Joined
      <4> QED
        BY <4>1, Zenon DEF OneLine
    <3>17. g0 \o FlattenSeq(Append(d, c)) = FlatTo(G, q + m)
      BY <3>8, <3>11, <3>13, <3>16
    <3> HIDE DEF after
    <3>18. Decoded(G, U, q0, after, q + m)
      BY <3>2, <3>9, <3>10, <3>12, <3>17 DEF Decoded, d, g0
    <3> QED
      BY <2>2, <3>18 DEF after
  <2> QED
    BY <2>3, <2>4
<1> QED
  BY <1>3, <1>4

\* The segments that have arrived are decoded to their bytes.
LEMMA SegmentsRead ==
  ASSUME NEW G, NEW T, IsText(T, G), NEW U \in Seq(0..Pad), Leads(U, T),
         NEW q0, Reached(G, U, q0)
  PROVE  \E q \in 0..Len(G) : Decoded(G, U, q0, Segments(Ahead(U, q0)), q) /\ Halted(U, q)
<1> DEFINE P == Ahead(U, q0)
           n == Len(P) \div 4
<1>1. /\ P \in Seq(0..Pad) /\ Len(P) = Len(U) - 4 * q0
      /\ Len(U) <= 4 * Len(G) /\ Len(G) \in Nat /\ q0 \in Nat
  BY AheadIs
<1>2. Len(P) \in Nat /\ Len(U) \in Nat /\ q0 \in 0..Len(G)
  BY <1>1 DEF Reached
<1>3. PICK turn : /\ turn[0] = [decoded |-> <<>>, pending |-> P, failed |-> FALSE]
                  /\ \A i \in 1..n : turn[i] = SegmentTurn(turn[i - 1])
                  /\ Segments(P) = turn[n]
  BY <1>1, SegmentTurns
<1> DEFINE Stuck(at, q) == SegmentTurn(at) = at /\ Halted(U, q)
           Done(i) == \E q \in 0..Len(G) : /\ Decoded(G, U, q0, turn[i], q)
                                           /\ Stuck(turn[i], q) \/ q0 + i <= q
           S == {i \in Nat : i <= n => Done(i)}
<1> HIDE DEF P
<1>4. n \in Nat /\ Len(P) < 4 * n + 4
  BY <1>2
<1> HIDE DEF n
<1>5. 0 \in S
  <2> DEFINE g == FlatTo(G, q0)
             e == <<>>
  <2>1. G \in Seq(Seq(Octet))
    BY DEF IsText, AreGroups
  <2>2. g \in Seq(Octet)
    BY <1>2, <2>1, FlatType
  <2>3. e \in Seq(Seq(Octet)) /\ Len(e) = 0
    OBVIOUS
  <2>4. FlattenSeq(e) = <<>>
    <3>1. FlattenSeq(e) = FlatTo(e, Len(e))
      BY <2>3, FlattenTo
    <3> QED
      BY <2>3, <3>1, FlatNone
  <2>5. g \o <<>> = g
    BY <2>2, ConcatEmptySeq
  <2> HIDE DEF g
  <2>9. turn[0] = [decoded |-> e, pending |-> P, failed |-> FALSE]
    BY <1>3
  <2>10. g \o FlattenSeq(e) = g
    BY <2>4, <2>5, Zenon
  <2> HIDE DEF e
  <2>11. ~turn[0].failed /\ turn[0].pending = P /\ turn[0].decoded = e
    BY <2>9
  <2>6. Decoded(G, U, q0, turn[0], q0)
    BY <2>3, <2>10, <2>11, Zenon DEF Decoded, P, g
  <2>7. q0 + 0 <= q0
    BY <1>1
  <2>8. Done(0)
    BY <1>2, <2>6, <2>7
  <2> HIDE DEF Done
  <2> QED
    BY <2>8
<1>6. ASSUME NEW i \in 0..(n - 1), i \in S PROVE i + 1 \in S
  <2>1. i + 1 \in 1..n /\ (i + 1) - 1 = i /\ i \in Nat /\ i + 1 \in Nat /\ i <= n
    BY <1>4
  <2>2. turn[i + 1] = SegmentTurn(turn[i])
    BY <1>3, <2>1
  <2>3. PICK q \in 0..Len(G) : Decoded(G, U, q0, turn[i], q) /\ (Stuck(turn[i], q) \/ q0 + i <= q)
    BY <1>6, <2>1
  <2>4. CASE Stuck(turn[i], q)
    <3>1. turn[i + 1] = turn[i]
      BY <2>2, <2>4
    <3> HIDE DEF Stuck
    <3>2. Done(i + 1)
      BY <2>3, <2>4, <3>1, Zenon
    <3> HIDE DEF Done
    <3> QED
      BY <2>1, <3>2
  <2>5. CASE ~Stuck(turn[i], q)
    <3>1. PICK r \in (q + 1)..Len(G) : Decoded(G, U, q0, turn[i + 1], r)
      BY <1>2, <2>2, <2>3, <2>5, TurnDecodes
    <3>2. r \in 0..Len(G) /\ q0 + (i + 1) <= r
      BY <1>1, <2>1, <2>3, <2>5
    <3> HIDE DEF Stuck
    <3>3. Done(i + 1)
      BY <3>1, <3>2, Zenon
    <3> HIDE DEF Done
    <3> QED
      BY <2>1, <3>3
  <2> QED
    BY <2>4, <2>5
<1> HIDE DEF S
<1>7. 0..n \subseteq S
  BY <1>4, <1>5, <1>6, UpTo
<1>8. n \in 0..n
  BY <1>4
<1>9. Done(n)
  <2>1. n \in S
    BY <1>7, <1>8
  <2> HIDE DEF Done
  <2> QED
    BY <1>4, <2>1 DEF S
<1>10. PICK q \in 0..Len(G) : Decoded(G, U, q0, turn[n], q) /\ (Stuck(turn[n], q) \/ q0 + n <= q)
  BY <1>9
<1>11. CASE Stuck(turn[n], q)
  BY <1>3, <1>10, <1>11 DEF P
<1>12. CASE q0 + n <= q
  <2>1. Len(U) - 4 * q < 4
    BY <1>1, <1>2, <1>4, <1>12
  <2>2. Halted(U, q)
    BY <2>1 DEF Halted
  <2> QED
    BY <1>3, <1>10, <2>2 DEF P
<1> QED
  BY <1>10, <1>11, <1>12

-----------------------------------------------------------------------------
(* The reader *)

\* What a body is made of: bytes, or a text with white space.
Letters(layout) == IF layout = "raw" THEN Octet ELSE 0..Space

\* Of the body of the frames F the front has arrived; the text decoder has turned
\* it into the bytes R, and keeps what waits.
Stands(F, layout, front, waits, R) ==
  IF layout = "raw" THEN waits = <<>> /\ R = front
  ELSE \E G : /\ IsText(Unspaced(Layout(F, layout)), G) /\ FlattenSeq(G) = FlattenSeq(F)
              /\ LET U == Unspaced(front) IN
                 \E q : /\ Reached(G, U, q) /\ Halted(U, q)
                        /\ waits = Ahead(U, q) /\ R = FlatTo(G, q)

\* A body is made of its letters.
LEMMA LayoutType ==
  ASSUME NEW F \in Seq(Seq(Octet)), NEW layout
  PROVE  Layout(F, layout) \in Seq(Letters(layout))
<1>1. FlattenSeq(F) \in Seq(Octet)
  BY FlattenTo
<1> QED
  BY <1>1, LayoutText DEF Letters

\* The front of a text leads the text.
LEMMA TextLeads ==
  ASSUME NEW W, NEW front \in Seq(0..Space), NEW tail \in Seq(0..Space), W = front \o tail
  PROVE  /\ Unspaced(front) \in Seq(0..Pad) /\ Unspaced(tail) \in Seq(0..Pad)
         /\ Unspaced(W) = Unspaced(front) \o Unspaced(tail)
         /\ Leads(Unspaced(front), Unspaced(W))
<1> DEFINE a == Unspaced(front)
           b == Unspaced(tail)
<1>1. a \in Seq(0..Pad) /\ b \in Seq(0..Pad)
  BY UnspacedType
<1>2. Unspaced(W) = a \o b
  BY UnspacedConcat
<1> HIDE DEF a, b
<1>3. Leads(a, a \o b)
  BY <1>1, ConcatLeads
<1> QED
  BY <1>1, <1>2, <1>3 DEF a, b

\* What has been decoded are the first bytes of the frames.
LEMMA StandsLeads ==
  ASSUME NEW F \in Seq(Seq(Octet)), NEW layout, NEW front \in Seq(Letters(layout)),
         NEW tail \in Seq(Letters(layout)), Layout(F, layout) = front \o tail,
         NEW waits, NEW R, Stands(F, layout, front, waits, R)
  PROVE  R \in Seq(Octet) /\ Leads(R, FlattenSeq(F))
<1>1. CASE layout = "raw"
  <2>1. R = front /\ front \in Seq(Octet) /\ tail \in Seq(Octet)
    BY <1>1 DEF Stands, Letters
  <2>2. FlattenSeq(F) = front \o tail
    BY <1>1, LayoutText
  <2>3. Leads(front, front \o tail)
    BY <2>1, ConcatLeads
  <2> QED
    BY <2>1, <2>2, <2>3
<1>2. CASE layout # "raw"
  <2>1. PICK G, q : /\ AreGroups(G) /\ FlattenSeq(G) = FlattenSeq(F)
                    /\ q \in 0..Len(G) /\ R = FlatTo(G, q)
    BY <1>2 DEF Stands, Reached, IsText
  <2>2. G \in Seq(Seq(Octet)) /\ Len(G) \in 0..Len(G)
    BY <2>1 DEF AreGroups
  <2>3. R \in Seq(Octet)
    BY <2>1, <2>2, FlatType
  <2>4. Leads(FlatTo(G, q), FlatTo(G, Len(G)))
    BY <2>1, <2>2, FlatLeads
  <2>5. FlattenSeq(G) = FlatTo(G, Len(G))
    BY <2>2, FlattenTo
  <2> QED
    BY <2>1, <2>3, <2>4, <2>5
<1> QED
  BY <1>1, <1>2

\* What the text decoder makes of a chunk.
Unwrapped(layout, chunk) ==
  IF layout = "raw" THEN [decoded |-> <<chunk>>, pending |-> <<>>, failed |-> FALSE]
  ELSE TextPush(chunk)

\* A chunk goes through the text decoder.
LEMMA ChunkUnwrapped ==
  ASSUME NEW F \in Seq(Seq(Octet)), NEW layout, NEW front \in Seq(Letters(layout)),
         NEW chunk \in Seq(Letters(layout)), NEW tail \in Seq(Letters(layout)),
         Layout(F, layout) = (front \o chunk) \o tail,
         NEW R, Stands(F, layout, front, pending, R)
  PROVE  LET read == Unwrapped(layout, chunk) IN
         /\ ~read.failed /\ read.decoded \in Seq(Seq(Octet))
         /\ Stands(F, layout, front \o chunk, read.pending, R \o FlattenSeq(read.decoded))
<1> DEFINE read == Unwrapped(layout, chunk)
<1>1. CASE layout = "raw"
  <2>1. R = front /\ chunk \in Seq(Octet)
    BY <1>1 DEF Stands, Letters
  <2>2. FlattenSeq(<<chunk>>) = chunk
    BY <2>1, FlattenOne
  <2>3. read.decoded = <<chunk>> /\ ~read.failed /\ read.pending = <<>>
    BY <1>1 DEF Unwrapped
  <2>4. <<chunk>> \in Seq(Seq(Octet))
    BY <2>1
  <2> HIDE DEF read
  <2>5. R \o FlattenSeq(read.decoded) = front \o chunk
    BY <2>1, <2>2, <2>3
  <2>6. Stands(F, layout, front \o chunk, read.pending, R \o FlattenSeq(read.decoded))
    BY <1>1, <2>3, <2>5 DEF Stands
  <2> QED
    BY <2>3, <2>4, <2>6 DEF read
<1>2. CASE layout # "raw"
  <2> DEFINE W == Layout(F, layout)
             T == Unspaced(W)
             U == Unspaced(front)
             c == Unspaced(chunk)
             V == Unspaced(front \o chunk)
  <2>1. front \in Seq(0..Space) /\ chunk \in Seq(0..Space) /\ tail \in Seq(0..Space)
    BY <1>2 DEF Letters
  <2>2. front \o chunk \in Seq(0..Space)
    BY <2>1
  <2>3. U \in Seq(0..Pad) /\ c \in Seq(0..Pad) /\ V = U \o c
    BY <2>1, TextLeads
  <2>4. V \in Seq(0..Pad) /\ Leads(V, T)
    BY <2>1, <2>2, TextLeads
  <2>5. PICK G, q0 : /\ IsText(T, G) /\ FlattenSeq(G) = FlattenSeq(F)
                     /\ Reached(G, U, q0) /\ pending = Ahead(U, q0) /\ R = FlatTo(G, q0)
    BY <1>2 DEF Stands
  <2> HIDE DEF T, U, V
  <2>6. G \in Seq(Seq(Octet))
    BY <2>5 DEF IsText, AreGroups
  <2>7. q0 \in 0..Len(G) /\ 4 * q0 \in Nat /\ 4 * q0 <= Len(U)
    BY <2>5, <2>6 DEF Reached
  <2>8. pending \o c = Ahead(V, q0)
    <3> DEFINE o == 4 * q0
               X == 0..Pad
    <3>1. U \in Seq(X) /\ c \in Seq(X) /\ o \in Nat /\ o <= Len(U)
      BY <2>3, <2>7
    <3> HIDE DEF o, X, c
    <3>2. SubSeq(U, o + 1, Len(U)) \o c = SubSeq(U \o c, o + 1, Len(U \o c))
      BY <3>1, SliceMore
    <3> QED
      BY <2>3, <2>5, <3>2, Zenon DEF Ahead, o
  <2>9. Reached(G, V, q0)
    <3> DEFINE X == 0..Pad
    <3>1. U \in Seq(X) /\ c \in Seq(X)
      BY <2>3
    <3> HIDE DEF c, X
    <3>2. Len(U \o c) = Len(U) + Len(c) /\ Len(U) \in Nat /\ Len(c) \in Nat
      BY <3>1
    <3>3. Len(V) = Len(U) + Len(c)
      BY <2>3, <3>2
    <3>4. 4 * q0 <= Len(V)
      BY <2>7, <3>2, <3>3
    <3> QED
      BY <2>7, <3>4 DEF Reached
  <2>10. read = Segments(Ahead(V, q0))
    BY <1>2, <2>8 DEF Unwrapped, TextPush
  <2>11. PICK q \in 0..Len(G) : Decoded(G, V, q0, Segments(Ahead(V, q0)), q) /\ Halted(V, q)
    BY <2>4, <2>5, <2>9, SegmentsRead
  <2> HIDE DEF read
  <2>12. Decoded(G, V, q0, read, q)
    BY <2>10, <2>11
  <2>13. /\ ~read.failed /\ read.decoded \in Seq(Seq(Octet)) /\ read.pending = Ahead(V, q)
         /\ Reached(G, V, q) /\ R \o FlattenSeq(read.decoded) = FlatTo(G, q)
    BY <2>5, <2>12 DEF Decoded
  <2> DEFINE S == R \o FlattenSeq(read.decoded)
  <2>14. Reached(G, V, q) /\ Halted(V, q) /\ read.pending = Ahead(V, q) /\ S = FlatTo(G, q)
    BY <2>11, <2>13
  <2> HIDE DEF S
  <2>15. Stands(F, layout, front \o chunk, read.pending, S)
    BY <1>2, <2>5, <2>14 DEF Stands, T, V
  <2> QED
    BY <2>13, <2>15 DEF read, S
<1> QED
  BY <1>1, <1>2

\* Nothing has arrived, and nothing waits.
LEMMA StandsFirst ==
  ASSUME NEW F \in Seq(Seq(Octet)), NEW layout
  PROVE  Stands(F, layout, <<>>, <<>>, <<>>)
<1>1. CASE layout = "raw"
  BY <1>1 DEF Stands
<1>2. CASE layout # "raw"
  <2> DEFINE e == <<>>
  <2>1. PICK G : IsText(Unspaced(Layout(F, layout)), G) /\ FlattenSeq(G) = FlattenSeq(F)
    BY <1>2, LayoutText
  <2>2. Len(G) \in Nat
    BY <2>1 DEF IsText, AreGroups
  <2>3. e \in Seq(0..Pad) /\ Len(e) = 0
    OBVIOUS
  <2>4. SubSeq(e, 1, 0) = e
    OBVIOUS
  <2>5. FlatTo(G, 0) = e
    BY FlatNone, Zenon
  <2> HIDE DEF e
  <2>6. Unspaced(e) = e
    BY <2>3, UnspacedPlain
  <2>7. Reached(G, e, 0)
    BY <2>2, <2>3 DEF Reached
  <2>8. Halted(e, 0)
    BY <2>3 DEF Halted
  <2>9. Ahead(e, 0) = e
    BY <2>3, <2>4 DEF Ahead
  <2>10. Stands(F, layout, e, e, e)
    BY <1>2, <2>1, <2>5, <2>6, <2>7, <2>8, <2>9, Zenon DEF Stands
  <2> QED
    BY <2>10 DEF e
<1> QED
  BY <1>1, <1>2

\* All has arrived, and nothing waits.
LEMMA StandsLast ==
  ASSUME NEW F \in Seq(Seq(Octet)), NEW layout, NEW waits, NEW R,
         Stands(F, layout, Layout(F, layout), waits, R)
  PROVE  waits = <<>> /\ R = FlattenSeq(F)
<1>1. CASE layout = "raw"
  BY <1>1, LayoutText DEF Stands
<1>2. CASE layout # "raw"
  <2> DEFINE T == Unspaced(Layout(F, layout))
  <2>1. PICK G, q : /\ IsText(T, G) /\ FlattenSeq(G) = FlattenSeq(F)
                    /\ Reached(G, T, q) /\ Halted(T, q) /\ waits = Ahead(T, q) /\ R = FlatTo(G, q)
    BY <1>2 DEF Stands
  <2> HIDE DEF T
  <2>2. G \in Seq(Seq(Octet)) /\ Len(T) = 4 * Len(G) /\ T \in Seq(0..Pad)
    BY <2>1 DEF IsText, AreGroups
  <2>3. Len(G) \in Nat /\ q \in 0..Len(G)
    BY <2>1, <2>2 DEF Reached
  <2>4. Len(T) % 4 = 0
    BY <2>2, <2>3
  <2>5. Len(T) - 4 * q < 4
    BY <2>1, <2>4 DEF Halted
  <2>6. q = Len(G)
    BY <2>2, <2>3, <2>5
  <2>7. R = FlattenSeq(F)
    BY <2>1, <2>2, <2>6, FlattenTo
  <2>8. waits = SubSeq(T, Len(T) + 1, Len(T))
    BY <2>1, <2>2, <2>6 DEF Ahead
  <2>9. SubSeq(T, Len(T) + 1, Len(T)) = <<>>
    <3> DEFINE X == 0..Pad
    <3>1. T \in Seq(X)
      BY <2>2
    <3> HIDE DEF X
    <3> QED
      BY <3>1
  <2> QED
    BY <2>7, <2>8, <2>9
<1> QED
  BY <1>1, <1>2

\* When nothing waits in the text decoder, and less than a frame of the body is
\* missing, less than a frame of the bytes is.
LEMMA StandsNear ==
  ASSUME NEW F \in Seq(Seq(Octet)), NEW layout, NEW front \in Seq(Letters(layout)),
         NEW lost \in Seq(Letters(layout)), Layout(F, layout) = front \o lost, Len(lost) <= 4,
         NEW R, Stands(F, layout, front, <<>>, R)
  PROVE  Len(FlattenSeq(F)) <= Len(R) + 4
<1>1. CASE layout = "raw"
  <2>1. R = front /\ front \in Seq(Octet) /\ lost \in Seq(Octet)
    BY <1>1 DEF Stands, Letters
  <2>2. FlattenSeq(F) = front \o lost
    BY <1>1, LayoutText
  <2>3. Len(front \o lost) = Len(front) + Len(lost) /\ Len(front) \in Nat /\ Len(lost) \in Nat
    BY <2>1
  <2>4. Len(FlattenSeq(F)) = Len(R) + Len(lost) /\ Len(R) \in Nat
    BY <2>1, <2>2, <2>3
  <2> QED
    BY <2>3, <2>4
<1>2. CASE layout # "raw"
  <2> DEFINE T == Unspaced(Layout(F, layout))
             U == Unspaced(front)
             u == Unspaced(lost)
  <2>1. front \in Seq(0..Space) /\ lost \in Seq(0..Space)
    BY <1>2 DEF Letters
  <2>2. U \in Seq(0..Pad) /\ u \in Seq(0..Pad) /\ T = U \o u /\ Leads(U, T)
    BY <2>1, TextLeads
  <2>3. Len(u) <= Len(lost) /\ Len(lost) \in Nat
    BY <2>1, UnspacedShort
  <2>4. PICK G, q : /\ IsText(T, G) /\ FlattenSeq(G) = FlattenSeq(F)
                    /\ Reached(G, U, q) /\ <<>> = Ahead(U, q) /\ R = FlatTo(G, q)
    BY <1>2 DEF Stands
  <2> HIDE DEF T, U, u
  <2>5. AreGroups(G) /\ G \in Seq(Seq(Octet)) /\ Len(T) = 4 * Len(G) /\ Len(G) \in Nat /\ q \in 0..Len(G)
    BY <2>4 DEF IsText, AreGroups, Reached
  <2>6. Len(Ahead(U, q)) = Len(U) - 4 * q
    BY <2>2, <2>4, AheadIs
  <2>7. Len(Ahead(U, q)) = 0
    BY <2>4
  <2>8. Len(T) = Len(U) + Len(u) /\ Len(u) \in Nat /\ Len(U) \in Nat
    <3> DEFINE X == 0..Pad
    <3>1. U \in Seq(X) /\ u \in Seq(X)
      BY <2>2
    <3> HIDE DEF X
    <3>2. Len(U \o u) = Len(U) + Len(u) /\ Len(u) \in Nat /\ Len(U) \in Nat
      BY <3>1
    <3> QED
      BY <2>2, <3>2
  <2>9. Len(G) <= q + 1
    BY <2>3, <2>5, <2>6, <2>7, <2>8
  <2>10. FlattenSeq(G) = FlatTo(G, Len(G))
    BY <2>5, FlattenTo
  <2>11. CASE Len(G) = q
    <3>1. R \in Seq(Octet)
      BY <2>4, <2>5, FlatType
    <3>2. Len(R) \in Nat
      BY <3>1
    <3> QED
      BY <2>4, <2>10, <2>11, <3>2
  <2>12. CASE Len(G) = q + 1
    <3>1. q + 1 \in 1..Len(G) /\ (q + 1) - 1 = q
      BY <2>5, <2>12
    <3>2. Len(FlatTo(G, q + 1)) = Len(FlatTo(G, q)) + Len(G[q + 1])
      BY <2>5, <3>1, FlatPlace
    <3>3. Len(G[q + 1]) \in 1..3
      BY <2>5, <3>1 DEF AreGroups
    <3>4. R \in Seq(Octet)
      BY <2>4, <2>5, FlatType
    <3>5. Len(R) \in Nat
      BY <3>4
    <3>6. Len(FlattenSeq(F)) = Len(R) + Len(G[q + 1])
      BY <2>4, <2>10, <2>12, <3>2
    <3> DEFINE a == Len(FlattenSeq(F))
               b == Len(R)
               c == Len(G[q + 1])
    <3>7. a = b + c /\ b \in Nat /\ c \in 1..3
      BY <3>3, <3>5, <3>6
    <3> HIDE DEF a, b, c
    <3>8. a <= b + 4
      BY <3>7
    <3> QED
      BY <3>8 DEF a, b
  <2> QED
    BY <2>5, <2>9, <2>11, <2>12
<1> QED
  BY <1>1, <1>2

-----------------------------------------------------------------------------
(* What the reader has read *)

\* Nothing has been read of the frames.
LEMMA ReadNone ==
  ASSUME NEW F, AreFrames(F)
  PROVE  Within(F, <<>>, 0) /\ NoMore(F, <<>>, 0) /\ Behind(F, <<>>, 0) = <<>>
<1> DEFINE e == <<>>
<1>1. Off(F, 0) = 0
  BY OffEnds
<1>2. Len(e) = 0
  OBVIOUS
<1>3. SubSeq(e, 1, 0) = e
  OBVIOUS
<1>4. Len(F) \in Nat
  BY DEF AreFrames
<1> HIDE DEF e
<1>5. Within(F, e, 0)
  BY <1>1, <1>2, <1>4 DEF Within
<1>6. NoMore(F, e, 0)
  <2>1. CASE Len(F) # 0
    <3>1. 1 \in 1..Len(F) /\ 1 - 1 = 0 /\ 1 \in 0..Len(F)
      BY <1>4, <2>1
    <3>2. Off(F, 0) + 5 <= Off(F, 1)
      BY <3>1, OffSteps
    <3>3. Off(F, 1) \in Nat
      BY <3>1, OffNat
    <3>4. Off(F, 0 + 1) > Len(e)
      BY <1>1, <1>2, <3>2, <3>3
    <3> QED
      BY <3>4 DEF NoMore
  <2> QED
    BY <2>1 DEF NoMore
<1>7. Behind(F, e, 0) = e
  BY <1>1, <1>2, <1>3 DEF Behind
<1> QED
  BY <1>5, <1>6, <1>7 DEF e

\* When no bytes wait in the frame decoder, and less than a frame is missing, every
\* frame has been read; when all bytes have been read, none wait.
LEMMA ReadEnds ==
  ASSUME NEW F, AreFrames(F), NEW R \in Seq(Octet), Leads(R, FlattenSeq(F)), NEW at, ReadTo(F, R, at)
  PROVE  /\ at.buffer = <<>> /\ Len(FlattenSeq(F)) <= Len(R) + 4 => Yielded(F, at.got, Len(F))
         /\ R = FlattenSeq(F) => at.buffer = <<>>
<1> DEFINE w == FlattenSeq(F)
<1>1. PICK k \in 0..Len(F) : /\ Within(F, R, k) /\ NoMore(F, R, k)
                             /\ at.buffer = Behind(F, R, k) /\ Yielded(F, at.got, k)
  BY DEF ReadTo
<1>2. F \in Seq(Seq(Octet))
  BY DEF AreFrames
<1>3. Len(F) \in Nat /\ Len(R) \in Nat
  BY <1>2
<1>4. w \in Seq(Octet) /\ Off(F, Len(F)) = Len(w)
  BY <1>2, FlattenTo, OffEnds
<1> DEFINE o == Off(F, k)
<1>5. o \in Nat /\ o <= Len(R)
  BY <1>1, OffNat DEF Within
<1>6. Len(w) \in Nat
  BY <1>4
<1>7. k # Len(F) => /\ o + 5 <= Off(F, k + 1) /\ Off(F, k + 1) <= Len(w)
                    /\ Off(F, k + 1) > Len(R) /\ Off(F, k + 1) \in Nat
  <2>1. SUFFICES ASSUME k # Len(F)
                 PROVE  /\ o + 5 <= Off(F, k + 1) /\ Off(F, k + 1) <= Len(w)
                        /\ Off(F, k + 1) > Len(R) /\ Off(F, k + 1) \in Nat
    OBVIOUS
  <2>2. k + 1 \in 1..Len(F) /\ (k + 1) - 1 = k /\ k + 1 \in 0..Len(F)
    BY <1>3, <2>1
  <2>3. o + 5 <= Off(F, k + 1) /\ Off(F, k + 1) <= Len(w)
    BY <2>2, OffSteps
  <2>4. Off(F, k + 1) > Len(R)
    BY <1>1, <2>1 DEF NoMore
  <2>5. Off(F, k + 1) \in Nat
    BY <2>2, OffNat
  <2> QED
    BY <2>3, <2>4, <2>5
<1> DEFINE b == Behind(F, R, k)
<1>8. b = SubSeq(R, o + 1, Len(R))
  BY DEF Behind
<1> HIDE DEF o, b, w
<1>9. Len(b) = Len(R) - o
  BY <1>3, <1>5, <1>8
<1>10. ASSUME at.buffer = <<>>, Len(w) <= Len(R) + 4 PROVE Yielded(F, at.got, Len(F))
  <2>1. Len(b) = 0
    BY <1>1, <1>10 DEF b
  <2>2. k = Len(F)
    BY <1>3, <1>5, <1>6, <1>7, <1>9, <1>10, <2>1
  <2> QED
    BY <1>1, <2>2
<1>11. ASSUME R = w PROVE at.buffer = <<>>
  <2>1. k = Len(F)
    BY <1>3, <1>6, <1>7, <1>11
  <2>2. o = Len(R)
    BY <1>4, <1>11, <2>1 DEF o
  <2>3. b = SubSeq(R, Len(R) + 1, Len(R))
    BY <1>8, <2>2
  <2>4. b = <<>>
    BY <2>3
  <2> QED
    BY <1>1, <2>4 DEF b
<1> QED
  BY <1>10, <1>11 DEF w

\* How many frames have arrived.
LEMMA FramesArrived ==
  ASSUME NEW F, AreFrames(F), NEW R \in Seq(Octet), NEW k, Within(F, R, k), NoMore(F, R, k)
  PROVE  Cardinality({j \in DOMAIN F : Len(FlattenSeq(SubSeq(F, 1, j))) <= Len(R)}) = k
<1> DEFINE A == {j \in DOMAIN F : Len(FlattenSeq(SubSeq(F, 1, j))) <= Len(R)}
<1>1. F \in Seq(Seq(Octet)) /\ k \in 0..Len(F)
  BY DEF AreFrames, Within
<1>2. DOMAIN F = 1..Len(F) /\ Len(F) \in Nat /\ Len(R) \in Nat /\ k \in Nat
  BY <1>1
<1>3. ASSUME NEW j \in 1..Len(F) PROVE Len(FlattenSeq(SubSeq(F, 1, j))) = Off(F, j) /\ Off(F, j) \in Nat
  <2>1. j \in 0..Len(F)
    BY <1>2
  <2> QED
    BY <1>1, <2>1, FlattenFront, OffNat DEF Off
<1>4. ASSUME NEW i \in 0..Len(F), NEW j \in 0..i PROVE Off(F, j) <= Off(F, i)
  BY <1>1, FlatLeads DEF Leads, Off
<1>5. A = 1..k
  <2>1. ASSUME NEW j \in 1..Len(F) PROVE Off(F, j) <= Len(R) <=> j <= k
    <3>1. j \in 0..Len(F) /\ Off(F, j) \in Nat /\ Off(F, k) \in Nat
      BY <1>1, <1>2, OffNat
    <3>2. CASE j <= k
      <4>1. j \in 0..k
        BY <1>2, <3>2
      <4>2. Off(F, j) <= Off(F, k) /\ Off(F, k) <= Len(R)
        BY <1>1, <1>4, <4>1 DEF Within
      <4> QED
        BY <1>2, <3>1, <3>2, <4>2
    <3>3. CASE ~ j <= k
      <4>1. k + 1 \in 0..j /\ k # Len(F) /\ k + 1 \in 0..Len(F)
        <5> DEFINE n == Len(F)
        <5>1. n \in Nat /\ k \in 0..n /\ j \in 1..n
          BY <1>1, <1>2
        <5> HIDE DEF n
        <5>2. k + 1 \in 0..j /\ k # n /\ k + 1 \in 0..n
          BY <3>3, <5>1
        <5> QED
          BY <5>2 DEF n
      <4>2. Off(F, k + 1) <= Off(F, j) /\ Off(F, k + 1) > Len(R) /\ Off(F, k + 1) \in Nat
        BY <1>4, <3>1, <4>1, OffNat DEF NoMore
      <4>3. ~ Off(F, j) <= Len(R)
        BY <1>2, <3>1, <4>2
      <4> QED
        BY <3>3, <4>3
    <3> QED
      BY <3>2, <3>3
  <2>2. A = {j \in 1..Len(F) : j <= k}
    BY <1>2, <1>3, <2>1
  <2> HIDE DEF A
  <2>3. {j \in 1..Len(F) : j <= k} = 1..k
    BY <1>1, <1>2
  <2> QED
    BY <2>2, <2>3
<1> HIDE DEF A
<1>6. Cardinality(1..k) = k
  <2>1. Cardinality(1..k) = IF 1 > k THEN 0 ELSE (k - 1) + 1
    BY <1>2, FS_Interval
  <2> HIDE DEF A
  <2> QED
    BY <1>2, <2>1
<1> QED
  BY <1>5, <1>6 DEF A

\* What has been yielded is a front part of what the sender meant.
LEMMA YieldedMeant ==
  ASSUME AreFrames(sent.frames), NEW values, NEW k, Yielded(sent.frames, values, k)
  PROVE  IsPrefix(values, Meant) /\ Len(values) = k /\ Len(SentFrames) = Len(sent.frames)
<1> DEFINE F == sent.frames
           n == Len(F)
           V(i) == ValueOf(FrameOf(F[i]))
           bad == {i \in DOMAIN SentFrames : Malformed(SentFrames[i])}
<1>1. F \in Seq(Seq(Octet)) /\ k \in 0..n
  BY DEF AreFrames, Yielded
<1>2. n \in Nat /\ DOMAIN F = 1..n
  BY <1>1
<1>3. values = [i \in 1..k |-> V(i)] /\ \A i \in 1..k : ~Malformed(FrameOf(F[i]))
  BY DEF Yielded
<1>4. SentFrames = [i \in 1..n |-> FrameOf(F[i])]
  BY <1>2 DEF SentFrames, Map, FrameOf
<1> HIDE DEF V, n
<1>5. Len(SentFrames) = n /\ DOMAIN SentFrames = 1..n
  BY <1>2, <1>4
<1>6. \E m \in 0..n : k <= m /\ Meant = [i \in 1..m |-> V(i)]
  <2>1. CASE bad = {}
    <3>1. Meant = Map(ValueOf, SentFrames)
      BY <2>1 DEF Meant
    <3>2. Meant = [i \in 1..n |-> V(i)]
      BY <1>4, <1>5, <3>1 DEF Map, V
    <3> QED
      BY <1>1, <1>2, <3>2 DEF n
  <2>2. CASE bad # {}
    <3> DEFINE p == Min(bad)
               s == SubSeq(SentFrames, 1, p - 1)
    <3>1. bad \subseteq Nat
      BY <1>2, <1>5
    <3>2. p \in bad
      <4> HIDE DEF bad
      <4> QED
        BY <2>2, <3>1, LeastNat
    <3>3. Meant = Map(ValueOf, s)
      BY <2>2 DEF Meant
    <3> HIDE DEF p
    <3>4. p \in 1..n /\ Malformed(FrameOf(F[p]))
      BY <1>4, <1>5, <3>2
    <3> DEFINE m == p - 1
    <3>5. m \in 0..n /\ ~(p \in 1..k) /\ m \in Nat
      BY <1>2, <1>3, <3>4
    <3>6. k <= m
      BY <1>1, <1>2, <3>4, <3>5 DEF n
    <3> HIDE DEF m
    <3>7. s = [i \in 1..m |-> FrameOf(F[i])]
      <4>1. SentFrames \in Seq({FrameOf(F[i]) : i \in 1..n})
        BY <1>2, <1>4
      <4> DEFINE X == {FrameOf(F[i]) : i \in 1..n}
      <4> HIDE DEF X
      <4>2. SentFrames \in Seq(X)
        BY <4>1 DEF X
      <4>3. s = SubSeq(SentFrames, 1, m)
        BY DEF m
      <4> DEFINE r == SubSeq(SentFrames, 1, m)
      <4>6. m \in 0..Len(SentFrames)
        BY <1>5, <3>5
      <4>7. r \in Seq(X) /\ Len(r) = m
        BY <4>2, <4>6, FrontType
      <4>8. \A i \in 1..m : r[i] = SentFrames[i]
        BY <4>2, <4>6
      <4> HIDE DEF r
      <4>9. r = [i \in 1..Len(r) |-> r[i]]
        BY <4>7
      <4>10. r = [i \in 1..m |-> SentFrames[i]]
        BY <4>7, <4>8, <4>9
      <4>4. s = [i \in 1..m |-> SentFrames[i]]
        BY <4>3, <4>10 DEF r
      <4>5. \A i \in 1..m : SentFrames[i] = FrameOf(F[i])
        BY <1>2, <1>4, <3>5
      <4> QED
        BY <4>4, <4>5
    <3> HIDE DEF s
    <3>8. DOMAIN s = 1..m
      BY <3>7
    <3>9. Meant = [i \in 1..m |-> V(i)]
      BY <3>3, <3>7, <3>8 DEF Map, V
    <3> QED
      BY <3>5, <3>6, <3>9
  <2> QED
    BY <2>1, <2>2
<1>7. PICK m \in 0..n : k <= m /\ Meant = [i \in 1..m |-> V(i)]
  BY <1>6
<1>8. k \in Nat /\ m \in Nat /\ k <= m
  BY <1>1, <1>2, <1>7 DEF n
<1>9. Len(values) = k /\ Len(Meant) = m
  BY <1>3, <1>7, <1>8
<1> DEFINE X == {V(i) : i \in Nat}
<1>10. values \in Seq(X) /\ Meant \in Seq(X)
  <2>1. \A i \in 1..m : V(i) \in X
    BY <1>8
  <2>2. \A i \in 1..k : V(i) \in X
    BY <1>8
  <2> HIDE DEF X
  <2> QED
    BY <1>3, <1>7, <1>8, <2>1, <2>2
<1> HIDE DEF X
<1>11. Leads(values, Meant)
  <2>1. ASSUME NEW i \in 1..k PROVE Meant[i] = values[i]
    <3>1. i \in 1..m
      BY <1>8
    <3> QED
      BY <1>3, <1>7, <3>1
  <2> QED
    BY <1>8, <1>9, <2>1 DEF Leads
<1>12. values = SubSeq(Meant, 1, Len(values))
  BY <1>10, <1>11, LeadsSlice
<1>13. Leads(values, values)
  BY <1>8, <1>9 DEF Leads
<1>14. values = SubSeq(values, 1, Len(values))
  BY <1>10, <1>13, LeadsSlice
<1>15. IsPrefix(values, Meant)
  BY <1>8, <1>9, <1>12, <1>14 DEF IsPrefix
<1> QED
  BY <1>5, <1>9, <1>15 DEF n

\* What is left over of the quads of a text is less than a quad.
LEMMA WholeQuads ==
  ASSUME NEW l \in Nat, NEW q \in Nat, 4 * q <= l, l - 4 * q < 4
  PROVE  l - (l % 4) = 4 * q
<1> DEFINE e == l - 4 * q
<1>1. e \in 0..3 /\ l = 4 * q + e
  OBVIOUS
<1>2. CASE e = 0
  <2>1. l = 4 * q
    BY <1>1, <1>2
  <2> QED
    BY <2>1
<1>3. CASE e = 1
  <2>1. l = 4 * q + 1
    BY <1>1, <1>3
  <2> QED
    BY <2>1
<1>4. CASE e = 2
  <2>1. l = 4 * q + 2
    BY <1>1, <1>4
  <2> QED
    BY <2>1
<1>5. CASE e = 3
  <2>1. l = 4 * q + 3
    BY <1>1, <1>5
  <2> QED
    BY <2>1
<1> HIDE DEF e
<1> QED
  BY <1>1, <1>2, <1>3, <1>4, <1>5

\* The bytes that have arrived are those that have been decoded, unless the text
\* decoder stands inside a padding.
LEMMA ArrivedIs ==
  ASSUME sent.frames \in Seq(Seq(Octet)), NEW front \in Seq(Letters(sent.layout)),
         rest \in Seq(Letters(sent.layout)), body = front \o rest,
         NEW lost \in Seq(Letters(sent.layout)), Layout(sent.frames, sent.layout) = body \o lost,
         NEW R, Stands(sent.frames, sent.layout, front, pending, R), ~InPadding
  PROVE  Arrived = R
<1> DEFINE F == sent.frames
           X == Letters(sent.layout)
           p == Len(body) - Len(rest)
<1>1. Len(body) = Len(front) + Len(rest) /\ Len(front) \in Nat /\ Len(rest) \in Nat
  <2>1. front \in Seq(X) /\ rest \in Seq(X)
    OBVIOUS
  <2> HIDE DEF X
  <2> QED
    BY <2>1
<1>2. p = Len(front)
  BY <1>1
<1>3. SubSeq(body, 1, p) = front
  <2>1. front \in Seq(X) /\ rest \in Seq(X) /\ body = front \o rest
    OBVIOUS
  <2> HIDE DEF X
  <2>2. Leads(front, body)
    BY <2>1, ConcatLeads
  <2>3. body \in Seq(X)
    BY <2>1
  <2>4. front = SubSeq(body, 1, Len(front))
    BY <2>1, <2>2, <2>3, LeadsSlice
  <2> QED
    BY <1>2, <2>4
<1>4. CASE sent.layout = "raw"
  <2>1. Arrived = front
    BY <1>3, <1>4 DEF Arrived
  <2> QED
    BY <1>4, <2>1 DEF Stands
<1>5. CASE sent.layout # "raw"
  <2> DEFINE W == Layout(F, sent.layout)
             T == Unspaced(W)
             U == Unspaced(front)
  <2>1. front \in Seq(0..Space) /\ rest \in Seq(0..Space) /\ lost \in Seq(0..Space)
    BY <1>5 DEF Letters
  <2>2. rest \o lost \in Seq(0..Space)
    BY <2>1
  <2>3. W = front \o (rest \o lost)
    <3> DEFINE Y == 0..Space
    <3>1. front \in Seq(Y) /\ rest \in Seq(Y) /\ lost \in Seq(Y)
      BY <2>1
    <3> HIDE DEF Y
    <3>2. (front \o rest) \o lost = front \o (rest \o lost)
      <4>1. OneLine(front, rest, lost)
        BY <3>1, Joined
      <4> QED
        BY <4>1, Zenon DEF OneLine
    <3> QED
      BY <3>2
  <2>4. U \in Seq(0..Pad) /\ Leads(U, T)
    BY <2>1, <2>2, <2>3, TextLeads
  <2>5. PICK G, q : /\ IsText(T, G) /\ FlattenSeq(G) = FlattenSeq(F)
                    /\ Reached(G, U, q) /\ Halted(U, q) /\ pending = Ahead(U, q) /\ R = FlatTo(G, q)
    BY <1>5 DEF Stands
  <2>6. Arrived = decodeBase64Segment(SubSeq(U, 1, Len(U) - (Len(U) % 4)))
    BY <1>3, <1>5 DEF Arrived
  <2> HIDE DEF W, T, U
  <2>7. /\ Ahead(U, q) \in Seq(0..Pad) /\ Len(Ahead(U, q)) = Len(U) - 4 * q /\ q \in Nat
        /\ Len(U) <= 4 * Len(G) /\ Len(G) \in Nat /\ q \in 0..Len(G) /\ 4 * q <= Len(U)
    BY <2>4, <2>5, AheadIs DEF Reached
  <2>8. \A i \in 1..Len(pending) : pending[i] = U[4 * q + i]
    BY <2>4, <2>5, AheadIs
  <2>9. Len(U) \in Nat
    BY <2>4
  <2>10. Len(U) - 4 * q < 4
    <3>1. SUFFICES ASSUME ~ Len(U) - 4 * q < 4 PROVE FALSE
      OBVIOUS
    <3>2. U[Len(U)] = Pad
      BY <2>5, <3>1 DEF Halted
    <3> DEFINE l == Len(pending)
    <3>3. l = Len(U) - 4 * q
      BY <2>5, <2>7
    <3> HIDE DEF l
    <3>4. l \in 1..l /\ 4 * q + l = Len(U) /\ l # 0
      BY <2>7, <2>9, <3>1, <3>3
    <3>5. pending[l] = Pad
      BY <2>8, <3>2, <3>4 DEF l
    <3>6. pending # <<>>
      <4>1. pending = <<>> => l = 0
        BY DEF l
      <4> QED
        BY <3>4, <4>1
    <3> QED
      BY <3>5, <3>6 DEF InPadding, Last, l
  <2>11. Len(U) - (Len(U) % 4) = 4 * q
    <3> DEFINE l == Len(U)
    <3>1. l \in Nat /\ q \in Nat /\ 4 * q <= l /\ l - 4 * q < 4
      BY <2>7, <2>9, <2>10
    <3> HIDE DEF l
    <3>2. l - (l % 4) = 4 * q
      BY <3>1, WholeQuads
    <3> QED
      BY <3>2 DEF l
  <2>12. SubSeq(U, 1, 4 * q) = SubSeq(T, 1, 4 * q)
    <3> DEFINE c == 4 * q
               u == SubSeq(U, 1, c)
               t == SubSeq(T, 1, c)
               Y == 0..Pad
    <3>1. U \in Seq(Y) /\ T \in Seq(Y) /\ c \in 0..Len(U) /\ c \in 0..Len(T)
      <4>1. Len(T) = 4 * Len(G) /\ T \in Seq(0..Pad)
        BY <2>5 DEF IsText
      <4> QED
        BY <2>4, <2>7, <2>9, <4>1
    <3> HIDE DEF c, Y
    <3>2. u \in Seq(Y) /\ Len(u) = c /\ t \in Seq(Y) /\ Len(t) = c
      BY <3>1, FrontType
    <3>3. \A i \in 1..c : u[i] = U[i] /\ t[i] = T[i]
      BY <3>1
    <3>4. \A i \in 1..c : T[i] = U[i]
      BY <2>4, <3>1 DEF Leads
    <3> HIDE DEF u, t
    <3>5. u = t
      BY <3>2, <3>3, <3>4, SeqEqual
    <3> QED
      BY <3>5 DEF u, t, c
  <2>13. SubSeq(T, 1, 4 * q) = SubSeq(T, 4 * 0 + 1, 4 * (0 + q)) /\ SubSeq(G, 1, q) = SubSeq(G, 0 + 1, 0 + q)
    BY <2>7
  <2>14. IsText(SubSeq(T, 4 * 0 + 1, 4 * (0 + q)), SubSeq(G, 0 + 1, 0 + q))
    <3>1. 0 \in Nat /\ 0 + q <= Len(G)
      BY <2>7
    <3> QED
      BY <2>5, <2>7, <3>1, TextSlice
  <2>15. decodeBase64Segment(SubSeq(T, 1, 4 * q)) = FlattenSeq(SubSeq(G, 1, q))
    <3>1. IsText(SubSeq(T, 1, 4 * q), SubSeq(G, 1, q))
      BY <2>13, <2>14, Zenon
    <3> QED
      BY <3>1, TextDecoded
  <2>16. FlattenSeq(SubSeq(G, 1, q)) = FlatTo(G, q)
    <3>1. G \in Seq(Seq(Octet))
      BY <2>5 DEF IsText, AreGroups
    <3> QED
      BY <2>7, <3>1, FlattenFront
  <2> QED
    BY <2>5, <2>6, <2>11, <2>12, <2>15, <2>16, Zenon
<1> QED
  BY <1>4, <1>5

-----------------------------------------------------------------------------
(* The invariant of a body that is read *)

Whole == Layout(sent.frames, sent.layout)
Reader == [buffer |-> buffer, got |-> got, failed |-> FALSE]

\* Where the body is cut: the front has arrived, and the end is lost.
Cut(front, lost) ==
  /\ front \in Seq(Letters(sent.layout)) /\ lost \in Seq(Letters(sent.layout))
  /\ rest \in Seq(Letters(sent.layout))
  /\ body = front \o rest /\ Whole = body \o lost /\ Len(lost) <= 4

Unsent ==
  /\ decoding = "idle"
  /\ sent = [frames |-> <<>>, compression |-> "identity", layout |-> "raw"]
  /\ body = <<>> /\ rest = <<>> /\ pending = <<>> /\ buffer = <<>> /\ got = <<>>

Reading ==
  /\ decoding = "open" /\ AreFrames(sent.frames)
  /\ \E front, lost, R : /\ Cut(front, lost)
                         /\ Stands(sent.frames, sent.layout, front, pending, R)
                         /\ ReadTo(sent.frames, R, Reader)

Ended ==
  /\ decoding = "end" /\ AreFrames(sent.frames)
  /\ Yielded(sent.frames, got, Len(sent.frames))

Broken ==
  /\ decoding = "error" /\ AreFrames(sent.frames)
  /\ \E k \in 0..Len(sent.frames) : Yielded(sent.frames, got, k)
  /\ (\E i \in 1..Len(sent.frames) : Malformed(FrameOf(sent.frames[i]))) \/ body # Whole

WireInv == Unsent \/ Reading \/ Ended \/ Broken

\* A sender writes frames.
Written(b, compression) == [i \in DOMAIN b |-> FrameBytes(b[i], compression)]

\* What a sender writes are frames.
LEMMA FramesWritten ==
  ASSUME NEW b \in Bodies, NEW compression
  PROVE  AreFrames(Written(b, compression))
<1> DEFINE F == [i \in DOMAIN b |-> FrameBytes(b[i], compression)]
<1>1. b \in Seq(Values)
  BY GrpcWebBodyAssumption
<1>2. DOMAIN b = 1..Len(b) /\ Len(b) \in Nat
  BY <1>1
<1>3. ASSUME NEW i \in 1..Len(b) PROVE F[i] \in Seq(Octet) /\ IsFrame(F[i])
  <2>1. b[i] \in Values
    BY <1>1
  <2>2. F[i] = FrameBytes(b[i], compression)
    BY <1>2
  <2>3. IsFrame(F[i])
    BY <2>1, <2>2, FrameSent
  <2> QED
    BY <2>3 DEF IsFrame
<1>4. F = [i \in 1..Len(b) |-> F[i]]
  BY <1>2
<1> HIDE DEF F
<1>5. F \in Seq(Seq(Octet)) /\ Len(F) = Len(b)
  BY <1>2, <1>3, <1>4
<1>6. AreFrames(F)
  BY <1>3, <1>5 DEF AreFrames
<1> QED
  BY <1>6 DEF Written, F

\* A body is sent: nothing of it has been read.
LEMMA SendKeeps ==
  ASSUME Unsent, SendBody
  PROVE  Reading'
<1>1. PICK b \in Bodies, compression \in {"identity", "gzip"},
           layout \in {"raw", "separate", "joint", "lines"}, cut \in 0..MaxCut :
        LET frames == Map(LAMBDA f : FrameBytes(f, compression), b)
            whole == Layout(frames, layout)
        IN /\ cut <= Len(whole)
           /\ sent' = [frames |-> frames, compression |-> compression, layout |-> layout]
           /\ body' = SubSeq(whole, 1, Len(whole) - cut)
           /\ rest' = body'
  BY DEF SendBody
<1> DEFINE F == Written(b, compression)
           W == Layout(F, layout)
           X == Letters(layout)
           p == Len(W) - cut
           e == <<>>
<1>2. AreFrames(F)
  BY FramesWritten
<1>3. /\ cut <= Len(W) /\ sent' = [frames |-> F, compression |-> compression, layout |-> layout]
      /\ body' = SubSeq(W, 1, p) /\ rest' = body'
  <2>1. Map(LAMBDA f : FrameBytes(f, compression), b) = F
    BY DEF Map, Written
  <2> HIDE DEF F
  <2> QED
    BY <1>1, <2>1
<1> HIDE DEF F
<1>4. sent'.frames = F /\ sent'.layout = layout
  BY <1>3
<1>5. W \in Seq(X)
  BY <1>2, LayoutType DEF AreFrames
<1> HIDE DEF W, X
<1>6. cut \in Nat /\ cut <= 4
  BY GrpcWebBodyAssumption
<1>7. p \in Nat /\ p \in 0..Len(W) /\ p <= Len(W) /\ Len(W) \in Nat /\ Len(W) - p = cut
  BY <1>3, <1>5, <1>6
<1> HIDE DEF p
<1> DEFINE c == SubSeq(W, 1, p)
           lost == SubSeq(W, p + 1, Len(W))
<1>8. c \in Seq(X) /\ lost \in Seq(X) /\ Len(lost) <= 4
  BY <1>5, <1>6, <1>7, Cutting, FrontType
<1>9. W = c \o lost
  <2> DEFINE n == Len(W)
             d == SubSeq(W, p + 1, n)
  <2>3. p \in Nat /\ n \in Nat /\ p <= n /\ n <= Len(W)
    BY <1>7
  <2> HIDE DEF n
  <2>4. c \o d = SubSeq(W, 1, n)
    BY <1>5, <2>3, SliceJoin
  <2>1. c \o lost = SubSeq(W, 1, Len(W))
    BY <2>4 DEF n
  <2>2. SubSeq(W, 1, Len(W)) = W
    BY <1>5
  <2> QED
    BY <2>1, <2>2
<1> HIDE DEF lost
<1>10. body' = c /\ rest' = c
  BY <1>3
<1> HIDE DEF c
<1>11. e \o c = c
  BY <1>8
<1>12. e \in Seq(X)
  OBVIOUS
<1>13. pending' = e /\ buffer' = e /\ got' = e /\ decoding' = "open"
  BY DEF SendBody, Unsent
<1>14. Cut(e, lost)'
  <2> HIDE DEF e
  <2> QED
    BY <1>4, <1>8, <1>9, <1>10, <1>11, <1>12 DEF Cut, Whole, W, X
<1>15. Stands(F, layout, e, e, e)
  BY <1>2, StandsFirst DEF AreFrames
<1>16. Within(F, e, 0) /\ NoMore(F, e, 0) /\ Behind(F, e, 0) = e
  BY <1>2, ReadNone
<1>17. 0 \in 0..Len(F)
  BY <1>2 DEF AreFrames
<1>18. e = [i \in 1..0 |-> ValueOf(FrameOf(F[i]))]
  OBVIOUS
<1> HIDE DEF e
<1>19. Yielded(F, e, 0)'
  BY <1>17, <1>18 DEF Yielded
<1>20. ~Reader'.failed /\ Reader'.buffer = e /\ Reader'.got = e
  BY <1>13 DEF Reader
<1>21. ReadTo(F, e, Reader)'
  BY <1>16, <1>17, <1>19, <1>20 DEF ReadTo
<1> QED
  BY <1>2, <1>4, <1>13, <1>14, <1>15, <1>21 DEF Reading

\* What a frame is does not change while the sender's body is read.
LEMMA YieldedKept ==
  ASSUME NEW CONSTANT F, NEW CONSTANT values, NEW CONSTANT k, sent' = sent, Yielded(F, values, k)
  PROVE  Yielded(F, values, k)'
<1>1. \A i \in 1..k : Malformed(FrameOf(F[i]))' <=> Malformed(FrameOf(F[i]))
  BY DEF Malformed, Undecodable
<1> QED
  BY <1>1 DEF Yielded

\* A chunk is cut off what has not arrived.
LEMMA CutNext ==
  ASSUME NEW front, NEW lost, Cut(front, lost), NEW n \in Nat, n <= Len(rest)
  PROVE  LET chunk == SubSeq(rest, 1, n)
             r == SubSeq(rest, n + 1, Len(rest))
             X == Letters(sent.layout)
         IN /\ chunk \in Seq(X) /\ r \in Seq(X) /\ r \o lost \in Seq(X) /\ front \o chunk \in Seq(X)
            /\ body = (front \o chunk) \o r /\ Whole = (front \o chunk) \o (r \o lost)
<1> DEFINE X == Letters(sent.layout)
           chunk == SubSeq(rest, 1, n)
           r == SubSeq(rest, n + 1, Len(rest))
<1>1. /\ front \in Seq(X) /\ lost \in Seq(X) /\ rest \in Seq(X)
      /\ body = front \o rest /\ Whole = body \o lost
  BY DEF Cut
<1> HIDE DEF X
<1>2. Len(rest) \in Nat /\ n \in 0..Len(rest)
  BY <1>1
<1>3. chunk \in Seq(X)
  BY <1>1, <1>2, FrontType
<1>4. r \in Seq(X)
  BY <1>1, <1>2, Cutting
<1>5. rest = chunk \o r
  <2> DEFINE m == Len(rest)
             d == SubSeq(rest, n + 1, m)
  <2>1. n \in Nat /\ m \in Nat /\ n <= m /\ m <= Len(rest)
    BY <1>2
  <2>2. SubSeq(rest, 1, m) = rest
    BY <1>1
  <2> HIDE DEF m
  <2>3. chunk \o d = SubSeq(rest, 1, m)
    BY <1>1, <2>1, SliceJoin
  <2> QED
    BY <2>2, <2>3 DEF m
<1> HIDE DEF chunk, r
<1>6. r \o lost \in Seq(X) /\ front \o chunk \in Seq(X)
  BY <1>1, <1>3, <1>4
<1>7. (front \o chunk) \o r = front \o (chunk \o r)
  <2>1. OneLine(front, chunk, r)
    BY <1>1, <1>3, <1>4, Joined
  <2> QED
    BY <2>1, Zenon DEF OneLine
<1>8. body = (front \o chunk) \o r
  BY <1>1, <1>5, <1>7
<1> DEFINE fc == front \o chunk
<1>9. fc \in Seq(X)
  BY <1>6
<1> HIDE DEF fc
<1>10. (fc \o r) \o lost = fc \o (r \o lost)
  <2>1. OneLine(fc, r, lost)
    BY <1>1, <1>4, <1>9, Joined
  <2> QED
    BY <2>1, Zenon DEF OneLine
<1>11. Whole = fc \o (r \o lost)
  BY <1>1, <1>8, <1>10 DEF fc
<1> QED
  BY <1>3, <1>4, <1>6, <1>8, <1>11 DEF X, chunk, r, fc

\* A chunk is read, or spoils the reading with a bad frame.
LEMMA DeliverKeeps ==
  ASSUME Reading, NEW n \in Nat, Deliver(n)
  PROVE  Reading' \/ Broken'
<1>1. PICK F, layout : F = sent.frames /\ layout = sent.layout
  OBVIOUS
<1>2. AreFrames(F) /\ F \in Seq(Seq(Octet))
  BY <1>1 DEF Reading, AreFrames
<1>3. PICK front, lost, R : Cut(front, lost) /\ Stands(F, layout, front, pending, R) /\ ReadTo(F, R, Reader)
  BY <1>1 DEF Reading
<1>4. PICK chunk : chunk = SubSeq(rest, 1, n)
  OBVIOUS
<1>5. PICK r : r = SubSeq(rest, n + 1, Len(rest))
  OBVIOUS
<1>6. PICK read : read = Unwrapped(layout, chunk)
  OBVIOUS
<1>7. PICK after : after = PushAll(read.decoded)
  OBVIOUS
<1>8. /\ n <= Len(rest)
      /\ rest' = r /\ pending' = read.pending /\ buffer' = after.buffer /\ got' = after.got
      /\ decoding' = IF read.failed \/ after.failed THEN "error" ELSE "open"
      /\ sent' = sent /\ body' = body
  BY <1>1, <1>4, <1>5, <1>6, <1>7 DEF Deliver, Unwrapped
<1> DEFINE X == Letters(layout)
           W == Layout(F, layout)
           more == front \o chunk
           S == R \o FlattenSeq(read.decoded)
<1>9. /\ front \in Seq(X) /\ lost \in Seq(X) /\ Len(lost) <= 4
      /\ chunk \in Seq(X) /\ r \in Seq(X) /\ r \o lost \in Seq(X) /\ more \in Seq(X)
      /\ body = more \o r /\ W = more \o (r \o lost) /\ W = body \o lost
  <2>1. /\ chunk \in Seq(X) /\ r \in Seq(X) /\ r \o lost \in Seq(X) /\ more \in Seq(X)
        /\ body = more \o r /\ W = more \o (r \o lost)
    BY <1>1, <1>3, <1>4, <1>5, <1>8, CutNext DEF Whole
  <2> QED
    BY <1>1, <1>3, <2>1 DEF Cut, Whole
<1>10. ~read.failed /\ read.decoded \in Seq(Seq(Octet)) /\ Stands(F, layout, more, read.pending, S)
  BY <1>2, <1>3, <1>6, <1>9, ChunkUnwrapped
<1>11. S \in Seq(Octet) /\ Leads(S, FlattenSeq(F))
  <2> HIDE DEF S, more, X, W
  <2> QED
    BY <1>2, <1>9, <1>10, StandsLeads DEF X, W
<1>12. R \in Seq(Octet)
  <2> DEFINE tail == chunk \o (r \o lost)
  <2>1. tail \in Seq(X)
    <3> DEFINE t == r \o lost
    <3>1. t \in Seq(X)
      BY <1>9
    <3> HIDE DEF t, X
    <3> QED
      BY <1>9, <3>1 DEF t
  <2>2. W = front \o tail
    <3> DEFINE t == r \o lost
    <3>1. t \in Seq(X) /\ W = more \o t
      BY <1>9
    <3> HIDE DEF t, X, W
    <3>2. (front \o chunk) \o t = front \o (chunk \o t)
      <4>1. OneLine(front, chunk, t)
        BY <1>9, <3>1, Joined
      <4> QED
        BY <4>1, Zenon DEF OneLine
    <3> QED
      BY <3>1, <3>2 DEF t
  <2> HIDE DEF tail
  <2> QED
    BY <1>2, <1>3, <1>9, <2>1, <2>2, StandsLeads
<1> HIDE DEF X, W, more
<1>13. ReadTo(F, S, after) \/ Spoiled(F, after)
  BY <1>2, <1>3, <1>7, <1>10, <1>11, <1>12, ChunksRead DEF Reader
<1> HIDE DEF S
<1>14. sent'.frames = F /\ sent'.layout = layout
  BY <1>1, <1>8
<1>15. CASE ReadTo(F, S, after)
  <2>1. PICK k \in 0..Len(F) : /\ Within(F, S, k) /\ NoMore(F, S, k)
                               /\ after.buffer = Behind(F, S, k) /\ Yielded(F, after.got, k)
    BY <1>15 DEF ReadTo
  <2>2. Yielded(F, after.got, k)'
    <3>1. PICK values : values = after.got
      OBVIOUS
    <3>2. Yielded(F, values, k)'
      BY <1>8, <2>1, <3>1, YieldedKept
    <3> QED
      BY <3>1, <3>2
  <2>3. decoding' = "open"
    BY <1>8, <1>10, <1>15 DEF ReadTo
  <2>4. ~Reader'.failed /\ Reader'.buffer = after.buffer /\ Reader'.got = after.got
    BY <1>8 DEF Reader
  <2>5. ReadTo(F, S, Reader)'
    BY <2>1, <2>2, <2>4 DEF ReadTo
  <2>6. Cut(more, lost)'
    BY <1>8, <1>9, <1>14 DEF Cut, Whole, X, W
  <2> QED
    BY <1>2, <1>8, <1>10, <1>14, <2>3, <2>5, <2>6 DEF Reading
<1>16. CASE Spoiled(F, after)
  <2>1. PICK k \in 0..Len(F) : Yielded(F, after.got, k)
    BY <1>16 DEF Spoiled
  <2>2. Yielded(F, after.got, k)'
    BY <1>8, <2>1, YieldedKept
  <2>3. PICK i \in 1..Len(F) : Malformed(FrameOf(F[i]))
    BY <1>16 DEF Spoiled
  <2>4. Malformed(FrameOf(F[i]))'
    BY <1>8, <2>3 DEF Malformed, Undecodable
  <2>5. decoding' = "error"
    BY <1>8, <1>16 DEF Spoiled
  <2> QED
    BY <1>2, <1>8, <1>14, <2>2, <2>4, <2>5 DEF Broken
<1> QED
  BY <1>13, <1>15, <1>16

\* The end of the body: every frame was read, or something is missing.
LEMMA FinishKeeps ==
  ASSUME Reading, Finish
  PROVE  Ended' \/ Broken'
<1>1. PICK F, layout : F = sent.frames /\ layout = sent.layout
  OBVIOUS
<1>2. AreFrames(F) /\ F \in Seq(Seq(Octet))
  BY <1>1 DEF Reading, AreFrames
<1>3. PICK front, lost, R : Cut(front, lost) /\ Stands(F, layout, front, pending, R) /\ ReadTo(F, R, Reader)
  BY <1>1 DEF Reading
<1>4. rest = <<>> /\ UNCHANGED <<sent, body, got>>
  BY DEF Finish
<1> DEFINE X == Letters(layout)
           W == Layout(F, layout)
<1>5. /\ front \in Seq(X) /\ lost \in Seq(X) /\ Len(lost) <= 4
      /\ body = front \o rest /\ W = body \o lost
  BY <1>1, <1>3 DEF Cut, Whole
<1>6. body = front /\ W = front \o lost
  <2> HIDE DEF X, W
  <2>1. front \o <<>> = front
    BY <1>5, ConcatEmptySeq
  <2> QED
    BY <1>4, <1>5, <2>1
<1>7. R \in Seq(Octet) /\ Leads(R, FlattenSeq(F))
  BY <1>2, <1>3, <1>5, <1>6, StandsLeads
<1>8. Reader.buffer = buffer /\ Reader.got = got
  BY DEF Reader
<1>9. /\ buffer = <<>> /\ Len(FlattenSeq(F)) <= Len(R) + 4 => Yielded(F, got, Len(F))
      /\ R = FlattenSeq(F) => buffer = <<>>
  BY <1>2, <1>3, <1>7, <1>8, ReadEnds
<1>10. CASE TextFinish /\ FrameFinish
  <2>1. pending = <<>> /\ buffer = <<>> /\ decoding' = "end"
    BY <1>10 DEF TextFinish, FrameFinish, Finish
  <2>2. Len(FlattenSeq(F)) <= Len(R) + 4
    BY <1>2, <1>3, <1>5, <1>6, <2>1, StandsNear
  <2>3. Yielded(F, got, Len(F))
    BY <1>9, <2>1, <2>2
  <2>4. PICK values : values = got
    OBVIOUS
  <2>5. Yielded(F, values, Len(F))'
    BY <1>4, <2>3, <2>4, YieldedKept
  <2>6. got' = values /\ sent'.frames = F
    BY <1>1, <1>4, <2>4
  <2> QED
    BY <1>2, <2>1, <2>5, <2>6 DEF Ended
<1>11. CASE ~(TextFinish /\ FrameFinish)
  <2>1. decoding' = "error"
    BY <1>11 DEF Finish
  <2>2. body # W
    <3>1. SUFFICES ASSUME body = W PROVE FALSE
      OBVIOUS
    <3>2. pending = <<>> /\ R = FlattenSeq(F)
      BY <1>2, <1>3, <1>6, <3>1, StandsLast
    <3> QED
      BY <1>9, <1>11, <3>2 DEF TextFinish, FrameFinish
  <2>3. PICK k \in 0..Len(F) : Yielded(F, got, k)
    BY <1>3, <1>8 DEF ReadTo
  <2>4. PICK values : values = got
    OBVIOUS
  <2>5. Yielded(F, values, k)'
    BY <1>4, <2>3, <2>4, YieldedKept
  <2>6. got' = values /\ sent'.frames = F /\ sent'.layout = layout /\ body' = body
    BY <1>1, <1>4, <2>4
  <2>7. body' # Whole'
    BY <2>2, <2>6 DEF Whole
  <2> QED
    BY <1>2, <2>1, <2>5, <2>6, <2>7 DEF Broken
<1> QED
  BY <1>10, <1>11

LEMMA WireStays ==
  InitWire /\ [][WireNext]_wire => []WireInv
<1>1. InitWire => WireInv
  BY DEF InitWire, WireInv, Unsent
<1>2. ASSUME WireInv, [WireNext]_wire PROVE WireInv'
  <2>1. CASE SendBody
    <3>1. Unsent
      BY <1>2, <2>1 DEF WireInv, Unsent, Reading, Ended, Broken, SendBody
    <3> QED
      BY <2>1, <3>1, SendKeeps DEF WireInv
  <2>2. CASE \E n \in ChunkSizes \cup {Len(rest)} : n > 0 /\ Deliver(n)
    <3>1. PICK n \in ChunkSizes \cup {Len(rest)} : n > 0 /\ Deliver(n)
      BY <2>2
    <3>2. Reading
      BY <1>2, <3>1 DEF WireInv, Unsent, Reading, Ended, Broken, Deliver
    <3>3. Len(rest) \in Nat
      BY <3>2 DEF Reading, Cut
    <3>4. n \in Nat
      BY <3>1, <3>3, GrpcWebBodyAssumption
    <3> QED
      BY <3>1, <3>2, <3>4, DeliverKeeps DEF WireInv
  <2>3. CASE Finish
    <3>1. Reading
      BY <1>2, <2>3 DEF WireInv, Unsent, Reading, Ended, Broken, Finish
    <3> QED
      BY <2>3, <3>1, FinishKeeps DEF WireInv
  <2>4. CASE UNCHANGED wire
    <3>1. /\ sent' = sent /\ body' = body /\ rest' = rest /\ pending' = pending
          /\ buffer' = buffer /\ got' = got /\ decoding' = decoding
      BY <2>4 DEF wire
    <3>2. CASE Unsent
      BY <3>1, <3>2 DEF WireInv, Unsent
    <3>3. PICK F, values : F = sent.frames /\ values = got
      OBVIOUS
    <3>4. ASSUME NEW CONSTANT k, Yielded(F, values, k) PROVE Yielded(F, values, k)'
      BY <3>1, <3>4, YieldedKept
    <3>5. CASE Reading
      <4>1. PICK front, lost, R : /\ Cut(front, lost) /\ Stands(F, sent.layout, front, pending, R)
                                  /\ ReadTo(F, R, Reader)
        BY <3>3, <3>5 DEF Reading
      <4>2. PICK k \in 0..Len(F) : /\ Within(F, R, k) /\ NoMore(F, R, k)
                                   /\ buffer = Behind(F, R, k) /\ Yielded(F, values, k)
        BY <3>3, <4>1 DEF ReadTo, Reader
      <4>3. Yielded(F, values, k)'
        BY <3>4, <4>2
      <4>4. ~Reader'.failed /\ Reader'.buffer = buffer /\ Reader'.got = values
        BY <3>1, <3>3 DEF Reader
      <4>5. ReadTo(F, R, Reader)'
        BY <4>2, <4>3, <4>4 DEF ReadTo
      <4>6. Cut(front, lost)'
        BY <3>1, <4>1 DEF Cut, Whole
      <4>7. Reading'
        BY <3>1, <3>3, <3>5, <4>1, <4>5, <4>6 DEF Reading
      <4> QED
        BY <4>7 DEF WireInv
    <3>6. CASE Ended
      <4>1. Yielded(F, values, Len(F))'
        BY <3>3, <3>4, <3>6 DEF Ended
      <4>2. Ended'
        BY <3>1, <3>3, <3>6, <4>1 DEF Ended
      <4> QED
        BY <4>2 DEF WireInv
    <3>7. CASE Broken
      <4>1. PICK k \in 0..Len(F) : Yielded(F, values, k)
        BY <3>3, <3>7 DEF Broken
      <4>2. Yielded(F, values, k)'
        BY <3>4, <4>1
      <4>3. \A i \in 1..Len(F) : Malformed(FrameOf(F[i]))' <=> Malformed(FrameOf(F[i]))
        BY <3>1 DEF Malformed, Undecodable
      <4>4. Broken'
        BY <3>1, <3>3, <3>7, <4>2, <4>3 DEF Broken, Whole
      <4> QED
        BY <4>4 DEF WireInv
    <3> QED
      BY <1>2, <3>2, <3>5, <3>6, <3>7 DEF WireInv
  <2> QED
    BY <1>2, <2>1, <2>2, <2>3, <2>4 DEF WireNext
<1> QED
  BY <1>1, <1>2, PTL

\* However a body is laid out and cut into chunks, the values the sender meant are
\* yielded in order up to a bad frame, and only a whole body of good frames ends well.
THEOREM BodiesReassembled ==
  InitWire /\ [][WireNext]_wire => []Reassembled
<1>1. ASSUME WireInv PROVE Reassembled
  <2> DEFINE F == sent.frames
  <2>1. CASE Unsent
    <3>1. AreFrames(F)
      BY <2>1 DEF Unsent, AreFrames
    <3>2. Yielded(F, got, 0)
      BY <2>1 DEF Unsent, Yielded
    <3> QED
      BY <2>1, <3>1, <3>2, YieldedMeant DEF Unsent, Reassembled
  <2>2. CASE Reading
    <3>1. PICK k \in 0..Len(F) : Yielded(F, got, k)
      BY <2>2 DEF Reading, ReadTo, Reader
    <3> QED
      BY <2>2, <3>1, YieldedMeant DEF Reading, Reassembled
  <2>3. CASE Ended
    BY <2>3, YieldedMeant DEF Ended, Reassembled
  <2>4. CASE Broken
    <3>1. PICK k \in 0..Len(F) : Yielded(F, got, k)
      BY <2>4 DEF Broken
    <3>2. IsPrefix(got, Meant)
      BY <2>4, <3>1, YieldedMeant DEF Broken
    <3>3. CASE body # Whole
      BY <2>4, <3>2, <3>3 DEF Broken, Reassembled, Whole
    <3>4. CASE \E i \in 1..Len(F) : Malformed(FrameOf(F[i]))
      <4>1. PICK i \in 1..Len(F) : Malformed(FrameOf(F[i]))
        BY <3>4
      <4>2. F \in Seq(Seq(Octet))
        BY <2>4 DEF Broken, AreFrames
      <4>3. SentFrames = [j \in 1..Len(F) |-> FrameOf(F[j])]
        BY <4>2 DEF SentFrames, Map, FrameOf
      <4>4. FrameOf(F[i]) \in ToSet(SentFrames)
        BY <4>3 DEF ToSet
      <4> QED
        BY <2>4, <3>2, <4>1, <4>4 DEF Broken, Reassembled
    <3> QED
      BY <2>4, <3>3, <3>4 DEF Broken
  <2> QED
    BY <1>1, <2>1, <2>2, <2>3, <2>4 DEF WireInv
<1> QED
  BY <1>1, WireStays, PTL

\* Outside of a padding a value is yielded with the chunk that completes its frame.
THEOREM MessagesPrompt ==
  InitWire /\ [][WireNext]_wire => []Prompt
<1>1. ASSUME WireInv PROVE Prompt
  <2> SUFFICES ASSUME decoding = "open", ~InPadding
               PROVE  Len(got) = Cardinality({k \in DOMAIN sent.frames :
                                   Len(FlattenSeq(SubSeq(sent.frames, 1, k))) <= Len(Arrived)})
    BY DEF Prompt
  <2> DEFINE F == sent.frames
             layout == sent.layout
  <2>1. Reading
    BY <1>1 DEF WireInv, Unsent, Ended, Broken
  <2>2. AreFrames(F) /\ F \in Seq(Seq(Octet))
    BY <2>1 DEF Reading, AreFrames
  <2>3. PICK front, lost, R : Cut(front, lost) /\ Stands(F, layout, front, pending, R) /\ ReadTo(F, R, Reader)
    BY <2>1 DEF Reading
  <2> DEFINE X == Letters(layout)
             W == Layout(F, layout)
  <2>4. /\ front \in Seq(X) /\ lost \in Seq(X) /\ rest \in Seq(X)
        /\ body = front \o rest /\ W = body \o lost
    BY <2>3 DEF Cut, Whole
  <2>5. Arrived = R
    BY <2>2, <2>3, <2>4, ArrivedIs
  <2>6. PICK k \in 0..Len(F) : Within(F, R, k) /\ NoMore(F, R, k) /\ Yielded(F, got, k)
    BY <2>3 DEF ReadTo, Reader
  <2>7. Len(got) = k
    BY <2>2, <2>6, YieldedMeant
  <2>8. R \in Seq(Octet)
    <3> DEFINE tail == rest \o lost
    <3>1. tail \in Seq(X) /\ W = front \o tail
      <4> HIDE DEF X, W
      <4>1. (front \o rest) \o lost = front \o (rest \o lost)
        <5>1. OneLine(front, rest, lost)
          BY <2>4, Joined
        <5> QED
          BY <5>1, Zenon DEF OneLine
      <4> QED
        BY <2>4, <4>1
    <3> HIDE DEF tail
    <3> QED
      BY <2>2, <2>3, <2>4, <3>1, StandsLeads
  <2> QED
    BY <2>2, <2>5, <2>6, <2>7, <2>8, FramesArrived
<1> QED
  BY <1>1, WireStays, PTL
===============================================================================
