-------------------------- MODULE MarkdownStateProofs --------------------------
(***************************************************************************)
(* Proofs about MarkdownState: after any sequence of writes of the two     *)
(* writers the parser reads what was written, and the index is valid.      *)
(* A document keeps a shape (Shape) in which every line is in its place;   *)
(* an edit keeps the shape and changes what is read by the one write, and  *)
(* so do the writes of an operation, one after the other.                  *)
(***************************************************************************)
EXTENDS MarkdownState, SequenceTheorems, NaturalsInduction, WellFoundedInduction, TLAPS

Start == [ok |-> TRUE, section |-> Nothing, data |-> <<>>]

\* What holds at 0 and is handed on by every step below N holds up to N.
LEMMA CountUp ==
  ASSUME NEW S, 0 \in S, NEW N \in Nat, \A n \in Nat : n < N /\ n \in S => n + 1 \in S
  PROVE  \A n \in 0..N : n \in S
<1>. DEFINE Bad == {n \in 0..N : n \notin S}
<1>1. SUFFICES ASSUME Bad # {} PROVE FALSE
  OBVIOUS
<1>2. PICK b \in Bad : \A y \in Bad : ~ (<<y, b>> \in OpToRel(<, Nat))
  <2>1. Bad \subseteq Nat
    OBVIOUS
  <2>. HIDE DEF Bad
  <2>. QED
    BY <1>1, <2>1, NatLessThanWellFounded, WFMin
<1>3. b \in Nat /\ b # 0 /\ b <= N /\ b \notin S
  OBVIOUS
<1>4. b - 1 \notin Bad
  <2>1. <<b - 1, b>> \in OpToRel(<, Nat)
    BY <1>3 DEF OpToRel
  <2>. QED
    BY <1>2, <2>1
<1>5. b - 1 \in S
  BY <1>3, <1>4
<1>. QED
  BY <1>3, <1>5

\* Whether f reads the first m lines, one after the other.
Follows(f, ls, m) ==
  f = [n \in 0..m |-> IF n = 0 THEN Start ELSE ParseLine(f[n - 1], ls[n])]

LEMMA ReadingsUnfold ==
  ASSUME NEW ls, Len(ls) \in Nat
  PROVE  Follows(Readings(ls), ls, Len(ls))
<1>. DEFINE S == {m \in Nat : \E f : Follows(f, ls, m)}
<1>1. 0 \in S
  <2>. DEFINE f == [n \in 0..0 |-> Start]
  <2>1. Follows(f, ls, 0)
    BY DEF Follows
  <2>. QED
    BY <2>1
<1>2. ASSUME NEW m \in Nat, m \in S PROVE m + 1 \in S
  <2>1. PICK f : Follows(f, ls, m)
    BY <1>2
  <2>. DEFINE g == [n \in 0..(m + 1) |-> IF n = m + 1 THEN ParseLine(f[m], ls[m + 1]) ELSE f[n]]
  <2>2. Follows(g, ls, m + 1)
    <3>1. ASSUME NEW n \in 0..(m + 1)
          PROVE  g[n] = IF n = 0 THEN Start ELSE ParseLine(g[n - 1], ls[n])
      <4>1. CASE n = m + 1
        BY <4>1
      <4>2. CASE n # m + 1
        BY <4>2, <2>1 DEF Follows
      <4>. QED
        BY <4>1, <4>2
    <3>. QED
      BY <3>1 DEF Follows
  <2>. QED
    BY <2>2
<1>3. Len(ls) \in S
  <2>. HIDE DEF S
  <2>1. \A n \in Nat : n < Len(ls) /\ n \in S => n + 1 \in S
    BY <1>2
  <2>2. \A n \in 0..Len(ls) : n \in S
    BY <1>1, <2>1, CountUp
  <2>. QED
    BY <2>2
<1>4. PICK f : Follows(f, ls, Len(ls))
  BY <1>3
<1>. QED
  BY <1>4 DEF Follows, Readings, Start

\* A set of positions that is not empty has a first and a last one.
LEMMA FirstIs ==
  ASSUME NEW N \in Nat, NEW S, S \subseteq 1..N
  PROVE  /\ S = {} => First(S) = 0
         /\ S # {} => First(S) \in S /\ \A x \in S : First(S) <= x
<1>1. SUFFICES ASSUME S # {} PROVE First(S) \in S /\ \A x \in S : First(S) <= x
  BY DEF First
<1>2. PICK b \in S : \A y \in S : ~ (<<y, b>> \in OpToRel(<, Nat))
  <2>1. S \subseteq Nat
    OBVIOUS
  <2>. QED
    BY <1>1, <2>1, NatLessThanWellFounded, WFMin
<1>3. \A y \in S : b <= y
  <2>. SUFFICES ASSUME NEW y \in S, y < b PROVE FALSE
    OBVIOUS
  <2>1. <<y, b>> \in OpToRel(<, Nat)
    BY DEF OpToRel
  <2>. QED
    BY <1>2, <2>1
<1>. QED
  BY <1>1, <1>3 DEF First, Min

LEMMA MaxIs ==
  ASSUME NEW N \in Nat, NEW S, S \subseteq 1..N, S # {}
  PROVE  Max(S) \in S /\ \A x \in S : x <= Max(S)
<1>. DEFINE U == {u \in 1..N : \A x \in S : x <= u}
<1>1. U \subseteq 1..N /\ U # {}
  <2>1. PICK x \in S : x \in 1..N
    OBVIOUS
  <2>2. N \in 1..N /\ \A y \in S : y <= N
    BY <2>1
  <2>. QED
    BY <2>2
<1>2. First(U) \in U /\ \A u \in U : First(U) <= u
  <2>. HIDE DEF U
  <2>. QED
    BY <1>1, FirstIs
<1>. DEFINE b == First(U)
<1>. HIDE DEF b
<1>3. b \in Nat /\ b \in U /\ \A u \in U : b <= u
  BY <1>2 DEF b
<1>4. b \in S
  <2>. SUFFICES ASSUME b \notin S PROVE FALSE
    OBVIOUS
  <2>1. PICK x \in S : TRUE
    OBVIOUS
  <2>2. x < b /\ x >= 1
    BY <1>3, <2>1
  <2>3. b - 1 \in U
    BY <1>3, <2>2
  <2>. QED
    BY <1>3, <2>3
<1>. QED
  BY <1>3, <1>4 DEF Max

LEMMA SectionEndIs ==
  ASSUME NEW ls, Len(ls) \in Nat, NEW i \in 1..Len(ls)
  PROVE  LET e == SectionEnd(ls, i)
         IN /\ e \in i..Len(ls)
            /\ \A k \in (i + 1)..e : ls[k].level = "nested"
            /\ e < Len(ls) => ls[e + 1].level # "nested"
<1>. DEFINE S == {k \in (i + 1)..Len(ls) : ls[k].level # "nested"}
<1>1. S \subseteq 1..Len(ls)
  OBVIOUS
<1>2. \E e \in i..Len(ls) :
         /\ \A k \in (i + 1)..e : ls[k].level = "nested"
         /\ e < Len(ls) => ls[e + 1].level # "nested"
  <2>1. CASE S = {}
    <3>1. \A k \in (i + 1)..Len(ls) : ls[k].level = "nested"
      BY <2>1
    <3>. QED
      BY <3>1
  <2>2. CASE S # {}
    <3>1. First(S) \in S /\ \A x \in S : First(S) <= x
      <4>. HIDE DEF S
      <4>. QED
        BY <1>1, <2>2, FirstIs
    <3>. DEFINE f == First(S)
    <3>. HIDE DEF f
    <3>2. f \in (i + 1)..Len(ls) /\ ls[f].level # "nested" /\ \A x \in S : f <= x
      BY <3>1 DEF f
    <3>3. \A k \in (i + 1)..(f - 1) : ls[k].level = "nested"
      BY <3>2
    <3>4. f - 1 \in i..Len(ls) /\ (f - 1) + 1 = f
      BY <3>2
    <3>. QED
      BY <3>2, <3>3, <3>4
  <2>. QED
    BY <2>1, <2>2
<1>. QED
  BY <1>2 DEF SectionEnd

---------------------------------------------------------------------------
(* What is read.                                                           *)

AtRoot(line) == line.level \in {"header", "root"}

\* The documents with keys R on their line and sections H: the lines of a section
\* stand under its head, and a key stands once, but a section may come behind the
\* line of its key.
Shape(ls, R, H) ==
  /\ ls \in Seq(ToSet(ls))
  /\ Nothing \notin H
  /\ \A i \in 1..Len(ls) :
       /\ ls[i].level \in {"header", "root", "nested", "remark"}
       /\ ls[i].level = "root" => ls[i].key \in R
       /\ ls[i].level = "header" => ls[i].key \in H
       /\ ls[i].level = "nested" => i > 1 /\ ls[i - 1].level \in {"header", "nested"}
  /\ \A i, j \in 1..Len(ls) :
       i < j /\ AtRoot(ls[i]) /\ AtRoot(ls[j]) /\ ls[i].key = ls[j].key
         => ls[i].level = "root" /\ ls[j].level = "header"

Reading(section, data) == [ok |-> TRUE, section |-> section, data |-> data]
IsFunction(data) == data = [p \in DOMAIN data |-> data[p]]

\* A key at column 0, and one in a section.
KeyPath(key) == <<key>>
EntryPath(section, key) == <<section, key>>
AtKey(data, key, value) == With(Without(data, key), KeyPath(key), value)
InSection(data, section, key, value) == With(data, EntryPath(section, key), value)

LEMMA PathsAre ==
  ASSUME NEW key, NEW section, NEW other, NEW k
  PROVE  /\ KeyPath(key)[1] = key /\ EntryPath(section, key)[1] = section
         /\ KeyPath(other) # EntryPath(section, key)
         /\ KeyPath(key) = KeyPath(other) => key = other
         /\ EntryPath(section, key) = EntryPath(other, k) => section = other /\ key = k
<1>1. Len(<<other>>) = 1 /\ Len(<<section, key>>) = 2
  OBVIOUS
<1>. QED
  BY <1>1 DEF KeyPath, EntryPath

\* What a line adds to what was read over it.
LEMMA RemarkIs ==
  ASSUME NEW section, NEW data, NEW line, line.level = "remark"
  PROVE  ParseLine(Reading(section, data), line) = Reading(section, data)
BY DEF ParseLine, Reading

LEMMA HeaderIs ==
  ASSUME NEW section, NEW data, NEW line, line.level = "header"
  PROVE  ParseLine(Reading(section, data), line) =
           Reading(line.key, AtKey(data, line.key, Mapping))
BY DEF ParseLine, Reading, AtKey, KeyPath

LEMMA RootIs ==
  ASSUME NEW section, NEW data, NEW line, line.level = "root"
  PROVE  ParseLine(Reading(section, data), line) =
           Reading(Nothing, AtKey(data, line.key, ParseValue(line.raw)))
BY DEF ParseLine, Reading, AtKey, KeyPath

LEMMA NestedIs ==
  ASSUME NEW section, NEW data, NEW line, line.level = "nested", section # Nothing
  PROVE  ParseLine(Reading(section, data), line) =
           Reading(section, InSection(data, section, line.key, ParseValue(line.raw)))
BY DEF ParseLine, Reading, InSection, EntryPath

LEMMA WithIs ==
  ASSUME NEW data, NEW path, NEW value
  PROVE  /\ IsFunction(With(data, path, value))
         /\ DOMAIN With(data, path, value) = DOMAIN data \cup {path}
         /\ With(data, path, value)[path] = value
         /\ \A p \in DOMAIN data : p # path => With(data, path, value)[p] = data[p]
BY DEF With, IsFunction

LEMMA WithAt ==
  ASSUME NEW data, NEW path, NEW value, NEW p
  PROVE  /\ p \in DOMAIN With(data, path, value) <=> p \in DOMAIN data \/ p = path
         /\ p = path => With(data, path, value)[p] = value
         /\ p \in DOMAIN data /\ p # path => With(data, path, value)[p] = data[p]
BY DEF With

LEMMA AreFunctions ==
  ASSUME NEW data, NEW section, NEW key, NEW value
  PROVE  IsFunction(AtKey(data, key, value)) /\ IsFunction(InSection(data, section, key, value))
BY WithIs DEF AtKey, InSection

\* Every line of a document of that shape is read.
LEMMA IsRead ==
  ASSUME NEW ls, NEW R, NEW H, Shape(ls, R, H), NEW n \in 0..Len(ls)
  PROVE  LET r == Readings(ls)
         IN /\ r[n] = Reading(r[n].section, r[n].data)
            /\ IsFunction(r[n].data)
            /\ r[n].section \in H \cup {Nothing}
            /\ n > 0 /\ ls[n].level \in {"header", "nested"} => r[n].section # Nothing
<1>. DEFINE r == Readings(ls)
            Good(m) == /\ r[m] = Reading(r[m].section, r[m].data)
                       /\ IsFunction(r[m].data)
                       /\ r[m].section \in H \cup {Nothing}
                       /\ m > 0 /\ ls[m].level \in {"header", "nested"} => r[m].section # Nothing
            S == {m \in Nat : Good(m)}
<1>1. Len(ls) \in Nat /\ Follows(r, ls, Len(ls))
  <2>1. Len(ls) \in Nat
    BY LenProperties DEF Shape
  <2>. QED
    BY <2>1, ReadingsUnfold
<1>. HIDE DEF r
<1>2. 0 \in S
  <2>1. r[0] = Reading(Nothing, <<>>)
    BY <1>1 DEF Follows, Start, Reading
  <2>2. r[0].section = Nothing /\ r[0].data = <<>>
    BY <2>1 DEF Reading
  <2>3. IsFunction(<<>>)
    BY DEF IsFunction
  <2>. QED
    BY <2>1, <2>2, <2>3
<1>3. ASSUME NEW m \in Nat, m < Len(ls), m \in S PROVE m + 1 \in S
  <2>. DEFINE l == ls[m + 1]
              q == r[m].section
              d == r[m].data
  <2>0. r[m] = Reading(q, d) /\ IsFunction(d) /\ q \in H \cup {Nothing}
        /\ (m > 0 /\ ls[m].level \in {"header", "nested"} => q # Nothing)
    BY <1>3
  <2>1. r[m + 1] = ParseLine(Reading(q, d), l)
    BY <1>1, <1>3, <2>0 DEF Follows
  <2>2. m + 1 \in 1..Len(ls) /\ l.level \in {"header", "root", "nested", "remark"}
    BY <1>1, <1>3 DEF Shape
  <2>7. SUFFICES Good(m + 1)
    OBVIOUS
  <2>3. CASE l.level = "remark"
    <3>1. r[m + 1] = Reading(q, d)
      BY <2>1, <2>3, RemarkIs
    <3>2. r[m + 1].section = q /\ r[m + 1].data = d
      BY <3>1 DEF Reading
    <3>. QED
      BY <2>0, <2>3, <3>1, <3>2
  <2>4. CASE l.level = "header"
    <3>. DEFINE e == AtKey(d, l.key, Mapping)
    <3>1. r[m + 1] = Reading(l.key, e)
      BY <2>1, <2>4, HeaderIs
    <3>2. l.key \in H /\ Nothing \notin H
      BY <2>2, <2>4 DEF Shape
    <3>3. r[m + 1].section = l.key /\ r[m + 1].data = e
      BY <3>1 DEF Reading
    <3>. QED
      BY <3>1, <3>2, <3>3, AreFunctions
  <2>5. CASE l.level = "root"
    <3>. DEFINE e == AtKey(d, l.key, ParseValue(l.raw))
    <3>1. r[m + 1] = Reading(Nothing, e)
      BY <2>1, <2>5, RootIs
    <3>3. r[m + 1].section = Nothing /\ r[m + 1].data = e
      BY <3>1 DEF Reading
    <3>. QED
      BY <2>5, <3>1, <3>3, AreFunctions
  <2>6. CASE l.level = "nested"
    <3>. DEFINE e == InSection(d, q, l.key, ParseValue(l.raw))
    <3>1. m + 1 > 1 /\ ls[m].level \in {"header", "nested"}
      <4>1. (m + 1) - 1 = m
        OBVIOUS
      <4>. QED
        BY <2>2, <2>6, <4>1 DEF Shape
    <3>2. q # Nothing /\ q \in H
      BY <2>0, <3>1
    <3>3. r[m + 1] = Reading(q, e)
      BY <2>1, <2>6, <3>2, NestedIs
    <3>4. r[m + 1].section = q /\ r[m + 1].data = e
      BY <3>3 DEF Reading
    <3>. QED
      BY <3>2, <3>3, <3>4, AreFunctions
  <2>. QED
    BY <2>2, <2>3, <2>4, <2>5, <2>6
<1>4. n \in S
  <2>. HIDE DEF S
  <2>1. \A m \in Nat : m < Len(ls) /\ m \in S => m + 1 \in S
    BY <1>3
  <2>2. \A m \in 0..Len(ls) : m \in S
    BY <1>1, <1>2, <2>1, CountUp
  <2>. QED
    BY <2>2
<1>. QED
  BY <1>4 DEF r

\* The section and the data read with the first n lines.
SectionAt(ls, n) == Readings(ls)[n].section
DataAt(ls, n) == Readings(ls)[n].data

LEMMA LineIsRead ==
  ASSUME NEW ls, NEW R, NEW H, Shape(ls, R, H), NEW n \in 1..Len(ls)
  PROVE  /\ ls[n].level \in {"header", "root", "nested", "remark"}
         /\ n - 1 \in 0..Len(ls)
         /\ ls[n].level = "remark" =>
              /\ SectionAt(ls, n) = SectionAt(ls, n - 1)
              /\ DataAt(ls, n) = DataAt(ls, n - 1)
         /\ ls[n].level = "header" =>
              /\ ls[n].key \in H /\ SectionAt(ls, n) = ls[n].key
              /\ DataAt(ls, n) = AtKey(DataAt(ls, n - 1), ls[n].key, Mapping)
         /\ ls[n].level = "root" =>
              /\ ls[n].key \in R /\ SectionAt(ls, n) = Nothing
              /\ DataAt(ls, n) = AtKey(DataAt(ls, n - 1), ls[n].key, ParseValue(ls[n].raw))
         /\ ls[n].level = "nested" =>
              /\ n > 1 /\ ls[n - 1].level \in {"header", "nested"}
              /\ SectionAt(ls, n - 1) # Nothing /\ SectionAt(ls, n) = SectionAt(ls, n - 1)
              /\ DataAt(ls, n) = InSection(DataAt(ls, n - 1), SectionAt(ls, n - 1), ls[n].key,
                                           ParseValue(ls[n].raw))
<1>. DEFINE r == Readings(ls)
            l == ls[n]
            q == SectionAt(ls, n - 1)
            d == DataAt(ls, n - 1)
<1>1. Len(ls) \in Nat /\ Follows(r, ls, Len(ls)) /\ n \in Nat /\ n - 1 \in 0..Len(ls)
  <2>1. Len(ls) \in Nat
    BY LenProperties DEF Shape
  <2>. QED
    BY <2>1, ReadingsUnfold
<1>2. r[n - 1] = Reading(q, d)
  BY <1>1, IsRead DEF SectionAt, DataAt
<1>3. r[n] = ParseLine(Reading(q, d), l)
  BY <1>1, <1>2 DEF Follows
<1>4. /\ l.level \in {"header", "root", "nested", "remark"}
      /\ l.level = "root" => l.key \in R
      /\ l.level = "header" => l.key \in H
      /\ l.level = "nested" => n > 1 /\ ls[n - 1].level \in {"header", "nested"}
  BY DEF Shape
<1>. HIDE DEF r, l, q, d
<1>5. CASE l.level = "remark"
  <2>1. r[n] = Reading(q, d)
    BY <1>3, <1>5, RemarkIs
  <2>2. r[n].section = q /\ r[n].data = d
    BY <2>1 DEF Reading
  <2>. QED
    BY <1>1, <1>5, <2>2 DEF SectionAt, DataAt, r, l, q, d
<1>6. CASE l.level = "header"
  <2>1. r[n] = Reading(l.key, AtKey(d, l.key, Mapping))
    BY <1>3, <1>6, HeaderIs
  <2>2. r[n].section = l.key /\ r[n].data = AtKey(d, l.key, Mapping)
    BY <2>1 DEF Reading
  <2>. QED
    BY <1>1, <1>4, <1>6, <2>2 DEF SectionAt, DataAt, r, l, q, d
<1>7. CASE l.level = "root"
  <2>1. r[n] = Reading(Nothing, AtKey(d, l.key, ParseValue(l.raw)))
    BY <1>3, <1>7, RootIs
  <2>2. r[n].section = Nothing /\ r[n].data = AtKey(d, l.key, ParseValue(l.raw))
    BY <2>1 DEF Reading
  <2>. QED
    BY <1>1, <1>4, <1>7, <2>2 DEF SectionAt, DataAt, r, l, q, d
<1>8. CASE l.level = "nested"
  <2>1. q # Nothing
    <3>1. n - 1 > 0 /\ n - 1 \in 0..Len(ls) /\ ls[n - 1].level \in {"header", "nested"}
      BY <1>1, <1>4, <1>8
    <3>. QED
      BY <3>1, IsRead DEF q, SectionAt
  <2>2. r[n] = Reading(q, InSection(d, q, l.key, ParseValue(l.raw)))
    BY <1>3, <1>8, <2>1, NestedIs
  <2>3. r[n].section = q /\ r[n].data = InSection(d, q, l.key, ParseValue(l.raw))
    BY <2>2 DEF Reading
  <2>. QED
    BY <1>1, <1>4, <1>8, <2>1, <2>3 DEF SectionAt, DataAt, r, l, q, d
<1>. QED
  BY <1>4, <1>5, <1>6, <1>7, <1>8 DEF l

LEMMA NothingIsRead ==
  ASSUME NEW ls, Len(ls) \in Nat
  PROVE  SectionAt(ls, 0) = Nothing /\ DataAt(ls, 0) = <<>>
<1>1. Readings(ls)[0] = Start
  BY ReadingsUnfold DEF Follows
<1>. QED
  BY <1>1 DEF SectionAt, DataAt, Start

LEMMA ParseIs ==
  ASSUME NEW ls, NEW R, NEW H, Shape(ls, R, H)
  PROVE  Parse(ls).ok /\ Parse(ls).data = DataAt(ls, Len(ls)) /\ Len(ls) \in Nat
<1>1. Len(ls) \in Nat
  BY LenProperties DEF Shape
<1>2. Readings(ls)[Len(ls)] = Reading(SectionAt(ls, Len(ls)), DataAt(ls, Len(ls)))
  BY <1>1, IsRead DEF SectionAt, DataAt
<1>. QED
  BY <1>1, <1>2 DEF Parse, Reading, DataAt

LEMMA AtKeyIs ==
  ASSUME NEW data, NEW key, NEW value
  PROVE  /\ \A p : p \in DOMAIN AtKey(data, key, value) <=>
                (p \in DOMAIN data /\ p[1] # key) \/ p = KeyPath(key)
         /\ AtKey(data, key, value)[KeyPath(key)] = value
         /\ \A p \in DOMAIN data : p[1] # key => AtKey(data, key, value)[p] = data[p]
BY PathsAre DEF AtKey, With, Without, Restrict

LEMMA InSectionIs ==
  ASSUME NEW data, NEW section, NEW key, NEW value
  PROVE  /\ \A p : p \in DOMAIN InSection(data, section, key, value) <=>
                p \in DOMAIN data \/ p = EntryPath(section, key)
         /\ InSection(data, section, key, value)[EntryPath(section, key)] = value
         /\ \A p \in DOMAIN data : p # EntryPath(section, key) =>
              InSection(data, section, key, value)[p] = data[p]
BY DEF InSection, With

\* What is read under a key stands under a line of that key.
LEMMA KeysAreRead ==
  ASSUME NEW ls, NEW R, NEW H, Shape(ls, R, H), NEW n \in 0..Len(ls)
  PROVE  /\ \A p \in DOMAIN DataAt(ls, n) :
              \E i \in 1..n : AtRoot(ls[i]) /\ ls[i].key = p[1]
         /\ SectionAt(ls, n) # Nothing =>
              \E i \in 1..n : ls[i].level = "header" /\ ls[i].key = SectionAt(ls, n)
<1>. DEFINE Good(m) ==
              /\ \A p \in DOMAIN DataAt(ls, m) :
                   \E i \in 1..m : AtRoot(ls[i]) /\ ls[i].key = p[1]
              /\ SectionAt(ls, m) # Nothing =>
                   \E i \in 1..m : ls[i].level = "header" /\ ls[i].key = SectionAt(ls, m)
            S == {m \in Nat : Good(m)}
<1>1. Len(ls) \in Nat
  BY ParseIs
<1>2. 0 \in S
  BY <1>1, NothingIsRead
<1>3. ASSUME NEW m \in Nat, m < Len(ls), m \in S PROVE m + 1 \in S
  <2>. DEFINE k == m + 1
              d == DataAt(ls, m)
  <2>1. Good(m) /\ k \in 1..Len(ls) /\ k - 1 = m /\ k \in 1..k /\ \A i \in 1..m : i \in 1..k
    BY <1>1, <1>3
  <2>. HIDE DEF k
  <2>2. SUFFICES Good(k)
    BY <2>1 DEF k
  <2>3. CASE ls[k].level = "remark"
    BY <2>1, <2>3, LineIsRead
  <2>4. CASE ls[k].level = "header"
    <3>1. /\ SectionAt(ls, k) = ls[k].key
          /\ DataAt(ls, k) = AtKey(d, ls[k].key, Mapping)
      BY <2>1, <2>4, LineIsRead
    <3>2. \A p \in DOMAIN DataAt(ls, k) : p \in DOMAIN d \/ p = KeyPath(ls[k].key)
      BY <3>1, AtKeyIs
    <3>3. AtRoot(ls[k])
      BY <2>4 DEF AtRoot
    <3>4. ASSUME NEW p \in DOMAIN DataAt(ls, k)
          PROVE  \E i \in 1..k : AtRoot(ls[i]) /\ ls[i].key = p[1]
      <4>1. CASE p \in DOMAIN d
        BY <2>1, <4>1
      <4>2. CASE p = KeyPath(ls[k].key)
        <5>1. p[1] = ls[k].key
          BY <4>2, PathsAre
        <5>. QED
          BY <2>1, <3>3, <5>1
      <4>. QED
        BY <3>2, <4>1, <4>2
    <3>. QED
      BY <2>1, <2>4, <3>1, <3>4
  <2>5. CASE ls[k].level = "root"
    <3>1. /\ SectionAt(ls, k) = Nothing
          /\ DataAt(ls, k) = AtKey(d, ls[k].key, ParseValue(ls[k].raw))
      BY <2>1, <2>5, LineIsRead
    <3>2. \A p \in DOMAIN DataAt(ls, k) : p \in DOMAIN d \/ p = KeyPath(ls[k].key)
      BY <3>1, AtKeyIs
    <3>3. AtRoot(ls[k])
      BY <2>5 DEF AtRoot
    <3>4. ASSUME NEW p \in DOMAIN DataAt(ls, k)
          PROVE  \E i \in 1..k : AtRoot(ls[i]) /\ ls[i].key = p[1]
      <4>1. CASE p \in DOMAIN d
        BY <2>1, <4>1
      <4>2. CASE p = KeyPath(ls[k].key)
        <5>1. p[1] = ls[k].key
          BY <4>2, PathsAre
        <5>. QED
          BY <2>1, <3>3, <5>1
      <4>. QED
        BY <3>2, <4>1, <4>2
    <3>. QED
      BY <2>1, <2>5, <3>1, <3>4
  <2>6. CASE ls[k].level = "nested"
    <3>. DEFINE q == SectionAt(ls, m)
    <3>1. /\ q # Nothing /\ SectionAt(ls, k) = q
          /\ DataAt(ls, k) = InSection(d, q, ls[k].key, ParseValue(ls[k].raw))
      BY <2>1, <2>6, LineIsRead
    <3>2. \A p \in DOMAIN DataAt(ls, k) : p \in DOMAIN d \/ p = EntryPath(q, ls[k].key)
      BY <3>1, InSectionIs
    <3>3. PICK i \in 1..m : ls[i].level = "header" /\ ls[i].key = q
      BY <2>1, <3>1
    <3>. QED
      BY <2>1, <3>1, <3>2, <3>3, PathsAre DEF AtRoot
  <2>. QED
    BY <2>1, <2>3, <2>4, <2>5, <2>6, LineIsRead
<1>4. n \in S
  <2>. HIDE DEF S
  <2>1. \A m \in Nat : m < Len(ls) /\ m \in S => m + 1 \in S
    BY <1>3
  <2>2. \A m \in 0..Len(ls) : m \in S
    BY <1>1, <1>2, <2>1, CountUp
  <2>. QED
    BY <2>2
<1>. QED
  BY <1>4

LEMMA ValueIsNoMapping ==
  ASSUME NEW raw
  PROVE  ParseValue(raw) # Mapping
<1>. DEFINE t == ParseValue(raw).type
<1>1. t \in {"str", "null", "bool", "int", "list", "object", "error"}
  BY DEF ParseValue, Str, Null, Number, List, Object, FormatError, Value
<1>2. Mapping.type = "map"
  BY DEF Mapping, Value
<1>. QED
  BY <1>1, <1>2

HasSection(data, s) == KeyPath(s) \in DOMAIN data /\ data[KeyPath(s)] = Mapping
HeadOf(line, s) == line.level = "header" /\ line.key = s

\* A key is read as a section where there is a head of one.
LEMMA HeadsAreRead ==
  ASSUME NEW ls, NEW R, NEW H, Shape(ls, R, H), NEW n \in 0..Len(ls), NEW s
  PROVE  HasSection(DataAt(ls, n), s) <=> \E i \in 1..n : HeadOf(ls[i], s)
<1>. DEFINE Good(m) == HasSection(DataAt(ls, m), s) <=> \E i \in 1..m : HeadOf(ls[i], s)
            S == {m \in Nat : Good(m)}
<1>1. Len(ls) \in Nat
  BY ParseIs
<1>2. 0 \in S
  BY <1>1, NothingIsRead DEF HasSection
<1>3. ASSUME NEW m \in Nat, m < Len(ls), m \in S PROVE m + 1 \in S
  <2>. DEFINE k == m + 1
              d == DataAt(ls, m)
  <2>1. /\ Good(m) /\ k \in 1..Len(ls) /\ k - 1 = m /\ k \in 1..k /\ k \in Nat
        /\ \A i \in 1..k : i = k \/ i \in 1..m
        /\ \A i \in 1..m : i \in 1..k /\ i \in 1..Len(ls) /\ i < k
    BY <1>1, <1>3
  <2>. HIDE DEF k
  <2>2. SUFFICES Good(k)
    BY <2>1 DEF k
  <2>3. CASE ls[k].level = "remark"
    <3>1. DataAt(ls, k) = d /\ ~HeadOf(ls[k], s)
      BY <2>1, <2>3, LineIsRead DEF HeadOf
    <3>. QED
      BY <2>1, <3>1
  <2>4. CASE ls[k].level = "header"
    <3>1. DataAt(ls, k) = AtKey(d, ls[k].key, Mapping)
      BY <2>1, <2>4, LineIsRead
    <3>2. CASE ls[k].key = s
      <4>1. HasSection(DataAt(ls, k), s)
        BY <3>1, <3>2, AtKeyIs DEF HasSection
      <4>2. HeadOf(ls[k], s)
        BY <2>4, <3>2 DEF HeadOf
      <4>. QED
        BY <2>1, <4>1, <4>2
    <3>3. CASE ls[k].key # s
      <4>1. HasSection(DataAt(ls, k), s) <=> HasSection(d, s)
        BY <3>1, <3>3, AtKeyIs, PathsAre DEF HasSection
      <4>2. ~HeadOf(ls[k], s)
        BY <3>3 DEF HeadOf
      <4>. QED
        BY <2>1, <4>1, <4>2
    <3>. QED
      BY <3>2, <3>3
  <2>5. CASE ls[k].level = "root"
    <3>1. DataAt(ls, k) = AtKey(d, ls[k].key, ParseValue(ls[k].raw)) /\ ~HeadOf(ls[k], s)
      BY <2>1, <2>5, LineIsRead DEF HeadOf
    <3>2. CASE ls[k].key = s
      <4>1. ~HasSection(DataAt(ls, k), s)
        BY <3>1, <3>2, AtKeyIs, ValueIsNoMapping DEF HasSection
      <4>2. \A i \in 1..m : ~HeadOf(ls[i], s)
        BY <2>1, <2>5, <3>2 DEF HeadOf, Shape, AtRoot
      <4>. QED
        BY <2>1, <3>1, <4>1, <4>2
    <3>3. CASE ls[k].key # s
      <4>1. HasSection(DataAt(ls, k), s) <=> HasSection(d, s)
        BY <3>1, <3>3, AtKeyIs, PathsAre DEF HasSection
      <4>. QED
        BY <2>1, <3>1, <4>1
    <3>. QED
      BY <3>2, <3>3
  <2>6. CASE ls[k].level = "nested"
    <3>. DEFINE q == SectionAt(ls, m)
    <3>1. DataAt(ls, k) = InSection(d, q, ls[k].key, ParseValue(ls[k].raw)) /\ ~HeadOf(ls[k], s)
      BY <2>1, <2>6, LineIsRead DEF HeadOf
    <3>2. HasSection(DataAt(ls, k), s) <=> HasSection(d, s)
      BY <3>1, InSectionIs, PathsAre DEF HasSection
    <3>. QED
      BY <2>1, <3>1, <3>2
  <2>. QED
    BY <2>1, <2>3, <2>4, <2>5, <2>6, LineIsRead
<1>4. n \in S
  <2>. HIDE DEF S
  <2>1. \A m \in Nat : m < Len(ls) /\ m \in S => m + 1 \in S
    BY <1>3
  <2>2. \A m \in 0..Len(ls) : m \in S
    BY <1>1, <1>2, <2>1, CountUp
  <2>. QED
    BY <2>2
<1>. QED
  BY <1>4

\* In the lines of a section its head is the section.
LEMMA SectionRuns ==
  ASSUME NEW ls, NEW R, NEW H, Shape(ls, R, H), NEW i \in 1..Len(ls), ls[i].level = "header",
         NEW n \in i..Len(ls), \A k \in (i + 1)..n : ls[k].level = "nested"
  PROVE  SectionAt(ls, n) = ls[i].key
<1>1. Len(ls) \in Nat
  BY ParseIs
<1>. DEFINE S == {m \in Nat : i + m <= n => SectionAt(ls, i + m) = ls[i].key}
<1>2. 0 \in S
  BY <1>1, LineIsRead
<1>3. ASSUME NEW m \in Nat, m \in S PROVE m + 1 \in S
  <2>1. SUFFICES ASSUME i + (m + 1) <= n PROVE SectionAt(ls, i + (m + 1)) = ls[i].key
    OBVIOUS
  <2>. DEFINE k == i + (m + 1)
  <2>2. /\ SectionAt(ls, i + m) = ls[i].key
        /\ k - 1 = i + m /\ k \in (i + 1)..n /\ k \in 1..Len(ls)
    BY <1>1, <1>3, <2>1
  <2>. HIDE DEF k
  <2>3. SectionAt(ls, k) = SectionAt(ls, k - 1)
    BY <2>2, LineIsRead
  <2>. QED
    BY <2>2, <2>3 DEF k
<1>4. n - i \in S
  <2>1. n - i \in Nat /\ n - i \in 0..(n - i)
    BY <1>1
  <2>. HIDE DEF S
  <2>2. \A m \in Nat : m < n - i /\ m \in S => m + 1 \in S
    BY <1>3
  <2>3. \A m \in 0..(n - i) : m \in S
    BY <1>2, <2>1, <2>2, CountUp
  <2>. QED
    BY <2>1, <2>3
<1>5. n - i \in Nat /\ i + (n - i) = n
  BY <1>1
<1>. QED
  BY <1>4, <1>5

\* What is read with the first lines does not depend on the others.
LEMMA PrefixReads ==
  ASSUME NEW A, NEW B, Len(A) \in Nat, Len(B) \in Nat, NEW c \in Nat, c <= Len(A), c <= Len(B),
         \A i \in 1..c : A[i] = B[i]
  PROVE  SectionAt(A, c) = SectionAt(B, c) /\ DataAt(A, c) = DataAt(B, c)
<1>. DEFINE S == {m \in Nat : m <= c => Readings(A)[m] = Readings(B)[m]}
<1>1. Follows(Readings(A), A, Len(A)) /\ Follows(Readings(B), B, Len(B))
  BY ReadingsUnfold
<1>2. 0 \in S
  BY <1>1 DEF Follows
<1>3. ASSUME NEW m \in Nat, m \in S PROVE m + 1 \in S
  <2>1. SUFFICES ASSUME m + 1 <= c PROVE Readings(A)[m + 1] = Readings(B)[m + 1]
    OBVIOUS
  <2>2. /\ m + 1 \in 0..Len(A) /\ m + 1 \in 0..Len(B) /\ m + 1 # 0 /\ (m + 1) - 1 = m
        /\ m + 1 \in 1..c /\ m <= c
    BY <2>1
  <2>3. Readings(A)[m] = Readings(B)[m] /\ A[m + 1] = B[m + 1]
    BY <1>3, <2>2
  <2>4. Readings(A)[m + 1] = ParseLine(Readings(A)[m], A[m + 1])
    BY <1>1, <2>2 DEF Follows
  <2>5. Readings(B)[m + 1] = ParseLine(Readings(B)[m], B[m + 1])
    BY <1>1, <2>2 DEF Follows
  <2>. QED
    BY <2>3, <2>4, <2>5
<1>4. c \in S
  <2>. HIDE DEF S
  <2>1. \A m \in Nat : m < c /\ m \in S => m + 1 \in S
    BY <1>3
  <2>2. \A m \in 0..c : m \in S
    BY <1>2, <2>1, CountUp
  <2>. QED
    BY <2>2
<1>. QED
  BY <1>4 DEF SectionAt, DataAt

---------------------------------------------------------------------------
(* What a change of the lines changes in what is read.                     *)

\* The data with those of e written over them.
Over(data, e) ==
  [p \in DOMAIN data \cup DOMAIN e |-> IF p \in DOMAIN e THEN e[p] ELSE data[p]]

LEMMA OverIs ==
  ASSUME NEW data, NEW e
  PROVE  /\ IsFunction(Over(data, e))
         /\ \A p : p \in DOMAIN Over(data, e) <=> p \in DOMAIN data \/ p \in DOMAIN e
         /\ \A p \in DOMAIN e : Over(data, e)[p] = e[p]
         /\ \A p \in DOMAIN data : p \notin DOMAIN e => Over(data, e)[p] = data[p]
BY DEF Over, IsFunction

LEMMA SameFunction ==
  ASSUME NEW f, NEW g, IsFunction(f), IsFunction(g),
         \A p : p \in DOMAIN f <=> p \in DOMAIN g, \A p \in DOMAIN f : f[p] = g[p]
  PROVE  f = g
<1>1. DOMAIN f = DOMAIN g
  OBVIOUS
<1>. QED
  BY <1>1 DEF IsFunction

LEMMA OverAtKey ==
  ASSUME NEW data, NEW e, NEW key, NEW value, \A p \in DOMAIN e : p[1] # key
  PROVE  AtKey(Over(data, e), key, value) = Over(AtKey(data, key, value), e)
<1>. DEFINE f == AtKey(Over(data, e), key, value)
            g == Over(AtKey(data, key, value), e)
<1>1. KeyPath(key) \notin DOMAIN e
  BY PathsAre
<1>2. ASSUME NEW p PROVE p \in DOMAIN f <=> p \in DOMAIN g
  BY <1>1, AtKeyIs, OverIs, PathsAre
<1>3. ASSUME NEW p \in DOMAIN f PROVE f[p] = g[p]
  <2>1. CASE p = KeyPath(key)
    <3>1. f[p] = value
      BY <2>1, AtKeyIs
    <3>2. p \in DOMAIN AtKey(data, key, value) /\ p \notin DOMAIN e
      BY <1>1, <2>1, AtKeyIs
    <3>3. g[p] = value
      BY <2>1, <3>2, AtKeyIs, OverIs
    <3>. QED
      BY <3>1, <3>3
  <2>2. CASE p # KeyPath(key)
    <3>1. p \in DOMAIN Over(data, e) /\ p[1] # key
      BY <1>3, <2>2, AtKeyIs
    <3>2. f[p] = Over(data, e)[p]
      BY <3>1, AtKeyIs
    <3>3. CASE p \in DOMAIN e
      BY <3>2, <3>3, OverIs
    <3>4. CASE p \notin DOMAIN e
      <4>1. p \in DOMAIN data /\ p \in DOMAIN AtKey(data, key, value)
        BY <3>1, <3>4, OverIs, AtKeyIs
      <4>2. g[p] = AtKey(data, key, value)[p] /\ Over(data, e)[p] = data[p]
        BY <3>4, <4>1, OverIs
      <4>. QED
        BY <3>1, <3>2, <4>1, <4>2, AtKeyIs
    <3>. QED
      BY <3>3, <3>4
  <2>. QED
    BY <2>1, <2>2
<1>. QED
  BY <1>2, <1>3, SameFunction, AreFunctions, OverIs

LEMMA OverInSection ==
  ASSUME NEW data, NEW e, NEW section, NEW key, NEW value, EntryPath(section, key) \notin DOMAIN e
  PROVE  InSection(Over(data, e), section, key, value)
           = Over(InSection(data, section, key, value), e)
<1>. DEFINE f == InSection(Over(data, e), section, key, value)
            g == Over(InSection(data, section, key, value), e)
<1>2. ASSUME NEW p PROVE p \in DOMAIN f <=> p \in DOMAIN g
  BY InSectionIs, OverIs
<1>3. ASSUME NEW p \in DOMAIN f PROVE f[p] = g[p]
  <2>1. CASE p = EntryPath(section, key)
    <3>1. f[p] = value
      BY <2>1, InSectionIs
    <3>2. p \in DOMAIN InSection(data, section, key, value)
      BY <2>1, InSectionIs
    <3>3. g[p] = value
      BY <2>1, <3>2, InSectionIs, OverIs
    <3>. QED
      BY <3>1, <3>3
  <2>2. CASE p # EntryPath(section, key)
    <3>1. p \in DOMAIN Over(data, e)
      BY <1>3, <2>2, InSectionIs
    <3>2. f[p] = Over(data, e)[p]
      BY <2>2, <3>1, InSectionIs
    <3>3. CASE p \in DOMAIN e
      BY <3>2, <3>3, OverIs
    <3>4. CASE p \notin DOMAIN e
      <4>1. p \in DOMAIN data /\ p \in DOMAIN InSection(data, section, key, value)
        BY <3>1, <3>4, OverIs, InSectionIs
      <4>2. g[p] = InSection(data, section, key, value)[p] /\ Over(data, e)[p] = data[p]
        BY <3>4, <4>1, OverIs
      <4>. QED
        BY <2>2, <3>2, <4>1, <4>2, InSectionIs
    <3>. QED
      BY <3>3, <3>4
  <2>. QED
    BY <2>1, <2>2
<1>. QED
  BY <1>2, <1>3, SameFunction, AreFunctions, OverIs

\* Two documents that are alike behind a line of each, where what is read of the one
\* is what is read of the other with e over it: it stays so, when no line behind
\* touches e.
LEMMA AlikeBehind ==
  ASSUME NEW A, NEW B, NEW R, NEW H, Shape(A, R, H), Shape(B, R, H), NEW e,
         NEW a \in 0..Len(A), NEW b \in 0..Len(B), Len(B) - b = Len(A) - a,
         \A i \in 1..(Len(A) - a) : B[b + i] = A[a + i],
         DataAt(B, b) = Over(DataAt(A, a), e),
         SectionAt(B, b) = SectionAt(A, a) \/ (a < Len(A) => A[a + 1].level # "nested"),
         \A n \in (a + 1)..Len(A) :
           /\ AtRoot(A[n]) => \A p \in DOMAIN e : p[1] # A[n].key
           /\ A[n].level = "nested" => EntryPath(SectionAt(A, n - 1), A[n].key) \notin DOMAIN e
  PROVE  DataAt(B, Len(B)) = Over(DataAt(A, Len(A)), e)
<1>. DEFINE Good(m) ==
              /\ DataAt(B, b + m) = Over(DataAt(A, a + m), e)
              /\ SectionAt(B, b + m) = SectionAt(A, a + m)
                   \/ (a + m < Len(A) => A[a + m + 1].level # "nested")
            S == {m \in Nat : m <= Len(A) - a => Good(m)}
<1>1. Len(A) \in Nat /\ Len(B) \in Nat
  BY ParseIs
<1>2. 0 \in S
  <2>1. a + 0 = a /\ b + 0 = b /\ a + 0 + 1 = a + 1
    BY <1>1
  <2>. QED
    BY <2>1
<1>3. ASSUME NEW m \in Nat, m \in S PROVE m + 1 \in S
  <2>1. SUFFICES ASSUME m + 1 <= Len(A) - a PROVE Good(m + 1)
    OBVIOUS
  <2>. DEFINE k == a + m + 1
              j == b + m + 1
  <2>2. /\ k \in 1..Len(A) /\ k \in (a + 1)..Len(A) /\ k - 1 = a + m /\ a + (m + 1) = k
        /\ j \in 1..Len(B) /\ j - 1 = b + m /\ b + (m + 1) = j /\ k \in Nat
        /\ B[j] = A[k] /\ m <= Len(A) - a /\ a + m < Len(A)
    <3>1. m + 1 \in 1..(Len(A) - a) /\ b + (m + 1) = j /\ a + (m + 1) = k
      BY <1>1, <2>1
    <3>2. B[j] = A[k]
      BY <3>1
    <3>3. /\ k \in 1..Len(A) /\ k \in (a + 1)..Len(A) /\ k - 1 = a + m
          /\ j \in 1..Len(B) /\ j - 1 = b + m /\ k \in Nat
      BY <1>1, <2>1
    <3>4. m <= Len(A) - a /\ a + m < Len(A)
      BY <1>1, <2>1
    <3>. QED
      BY <3>1, <3>2, <3>3, <3>4
  <2>3. Good(m)
    BY <1>3, <2>2
  <2>. DEFINE dA == DataAt(A, k - 1)
              dB == DataAt(B, j - 1)
              qA == SectionAt(A, k - 1)
              qB == SectionAt(B, j - 1)
              l == A[k]
  <2>4. /\ dB = Over(dA, e)
        /\ l.level = "nested" => qB = qA
        /\ AtRoot(l) => \A p \in DOMAIN e : p[1] # l.key
        /\ l.level = "nested" => EntryPath(qA, l.key) \notin DOMAIN e
    BY <2>2, <2>3
  <2>5. SUFFICES /\ DataAt(B, j) = Over(DataAt(A, k), e)
                 /\ SectionAt(B, j) = SectionAt(A, k)
                      \/ (k < Len(A) => A[k + 1].level # "nested")
    BY <2>2
  <2>. HIDE DEF k, j
  <2>6. CASE l.level = "remark"
    <3>1. DataAt(A, k) = dA /\ DataAt(B, j) = dB
      BY <2>2, <2>6, LineIsRead
    <3>2. ASSUME k < Len(A) PROVE A[k + 1].level # "nested"
      <4>1. k + 1 \in 1..Len(A) /\ (k + 1) - 1 = k
        BY <1>1, <2>2, <3>2
      <4>. QED
        BY <2>6, <4>1, LineIsRead
    <3>. QED
      BY <2>4, <3>1, <3>2
  <2>7. CASE l.level = "header"
    <3>1. DataAt(A, k) = AtKey(dA, l.key, Mapping) /\ SectionAt(A, k) = l.key
      BY <2>2, <2>7, LineIsRead
    <3>2. j \in 1..Len(B) /\ B[j].level = "header" /\ B[j].key = l.key
      BY <2>2, <2>7
    <3>3. DataAt(B, j) = AtKey(dB, l.key, Mapping) /\ SectionAt(B, j) = l.key
      BY <3>2, LineIsRead
    <3>. QED
      BY <2>4, <2>7, <3>1, <3>3, OverAtKey DEF AtRoot
  <2>8. CASE l.level = "root"
    <3>1. DataAt(A, k) = AtKey(dA, l.key, ParseValue(l.raw)) /\ SectionAt(A, k) = Nothing
      BY <2>2, <2>8, LineIsRead
    <3>2. j \in 1..Len(B) /\ B[j].level = "root" /\ B[j].key = l.key /\ B[j].raw = l.raw
      BY <2>2, <2>8
    <3>3. DataAt(B, j) = AtKey(dB, l.key, ParseValue(l.raw)) /\ SectionAt(B, j) = Nothing
      BY <3>2, LineIsRead
    <3>. QED
      BY <2>4, <2>8, <3>1, <3>3, OverAtKey DEF AtRoot
  <2>9. CASE l.level = "nested"
    <3>1. /\ DataAt(A, k) = InSection(dA, qA, l.key, ParseValue(l.raw)) /\ SectionAt(A, k) = qA
          /\ DataAt(B, j) = InSection(dB, qB, l.key, ParseValue(l.raw)) /\ SectionAt(B, j) = qB
      BY <2>2, <2>9, LineIsRead
    <3>2. qB = qA /\ EntryPath(qA, l.key) \notin DOMAIN e
      BY <2>4, <2>9
    <3>. QED
      BY <2>4, <3>1, <3>2, OverInSection
  <2>. QED
    BY <2>2, <2>6, <2>7, <2>8, <2>9, LineIsRead
<1>4. Len(A) - a \in S
  <2>1. Len(A) - a \in Nat /\ Len(A) - a \in 0..(Len(A) - a)
    BY <1>1
  <2>. HIDE DEF S
  <2>2. \A m \in Nat : m < Len(A) - a /\ m \in S => m + 1 \in S
    BY <1>3
  <2>3. \A m \in 0..(Len(A) - a) : m \in S
    BY <1>2, <2>1, <2>2, CountUp
  <2>. QED
    BY <2>1, <2>3
<1>5. Len(A) - a \in Nat /\ a + (Len(A) - a) = Len(A) /\ b + (Len(A) - a) = Len(B)
      /\ Len(A) - a <= Len(A) - a
  BY <1>1
<1>6. Good(Len(A) - a)
  BY <1>4, <1>5
<1>. QED
  BY <1>5, <1>6

---------------------------------------------------------------------------
(* The edits.                                                              *)

LEMMA IsASeq1 ==
  ASSUME NEW T, NEW ls, ls \in Seq(T)
  PROVE  ls \in Seq(ToSet(ls)) /\ Len(ls) \in Nat
<1>1. Len(ls) \in Nat /\ ls \in [1..Len(ls) -> T] /\ DOMAIN ls = 1..Len(ls)
  BY LenProperties
<1>2. ls \in [1..Len(ls) -> ToSet(ls)]
  BY <1>1 DEF ToSet
<1>. QED
  BY <1>1, <1>2

LEMMA Replaced ==
  ASSUME NEW A, A \in Seq(ToSet(A)), NEW i \in 1..Len(A), NEW line
  PROVE  LET B == ReplaceAt(A, i, line)
         IN /\ B \in Seq(ToSet(B)) /\ Len(B) = Len(A) /\ B[i] = line
            /\ \A j \in 1..Len(A) : j # i => B[j] = A[j]
<1>. DEFINE T == ToSet(A) \cup {line}
            B == ReplaceAt(A, i, line)
<1>1. A \in Seq(T) /\ line \in T
  BY SeqMonotonic
<1>. HIDE DEF T
<1>2. B \in Seq(T) /\ Len(B) = Len(A)
      /\ \A j \in 1..Len(A) : B[j] = IF j = i THEN line ELSE A[j]
  BY <1>1, ExceptSeq DEF ReplaceAt
<1>. QED
  BY <1>2, IsASeq1

LEMMA Appended ==
  ASSUME NEW A, A \in Seq(ToSet(A)), NEW line
  PROVE  LET B == Append(A, line)
         IN /\ B \in Seq(ToSet(B)) /\ Len(B) = Len(A) + 1 /\ B[Len(A) + 1] = line
            /\ \A j \in 1..Len(A) : B[j] = A[j]
<1>. DEFINE T == ToSet(A) \cup {line}
            B == Append(A, line)
<1>1. A \in Seq(T) /\ line \in T
  BY SeqMonotonic
<1>. HIDE DEF T
<1>2. B \in Seq(T) /\ Len(B) = Len(A) + 1 /\ B[Len(A) + 1] = line
      /\ \A j \in 1..Len(A) : B[j] = A[j]
  BY <1>1, AppendProperties
<1>. QED
  BY <1>2, IsASeq1

\* Lines put between the first c ones and the others.
IsSpliced(A, B, c, new) ==
  /\ B \in Seq(ToSet(B)) /\ Len(B) = Len(A) + Len(new)
  /\ \A j \in 1..c : B[j] = A[j]
  /\ \A j \in 1..Len(new) : B[c + j] = new[j]
  /\ \A j \in 1..(Len(A) - c) : B[c + Len(new) + j] = A[c + j]

LEMMA Spliced ==
  ASSUME NEW A, A \in Seq(ToSet(A)), NEW c \in 0..Len(A), NEW T, NEW new \in Seq(T),
         NEW B, B = SubSeq(A, 1, c) \o new \o SubSeq(A, c + 1, Len(A))
  PROVE  IsSpliced(A, B, c, new)
<1>. DEFINE U == ToSet(A) \cup T
            P == SubSeq(A, 1, c)
            Q == SubSeq(A, c + 1, Len(A))
<1>1. A \in Seq(U) /\ new \in Seq(U) /\ Len(A) \in Nat /\ Len(new) \in Nat
  BY SeqMonotonic, LenProperties
<1>2. \A i \in 1..Len(A) : A[i] \in U
  BY <1>1, ElementOfSeq
<1>. HIDE DEF U
<1>3. P \in Seq(U) /\ Len(P) = c /\ \A j \in 1..c : P[j] = A[j]
  <2>1. \A i \in 1..c : A[i] \in U
    BY <1>1, <1>2
  <2>2. c \in Int /\ 1 \in Int /\ c - 1 + 1 = c /\ (1 > c => c = 0)
    BY <1>1
  <2>3. \A j \in 1..c : 1 + j - 1 = j
    BY <1>1
  <2>. QED
    BY <2>1, <2>2, <2>3, SubSeqProperties
<1>4. Q \in Seq(U) /\ Len(Q) = Len(A) - c /\ \A j \in 1..(Len(A) - c) : Q[j] = A[c + j]
  <2>. DEFINE lo == c + 1
              hi == Len(A)
  <2>1. lo \in Int /\ hi \in Int /\ \A i \in lo..hi : A[i] \in U
    BY <1>1, <1>2
  <2>2. Q = SubSeq(A, lo, hi)
    OBVIOUS
  <2>. HIDE DEF lo, hi, Q
  <2>6. /\ Q \in Seq(U) /\ Len(Q) = IF lo <= hi THEN hi - lo + 1 ELSE 0
        /\ \A j \in 1..(hi - lo + 1) : Q[j] = A[lo + j - 1]
    BY <2>1, <2>2, SubSeqProperties
  <2>3. /\ Q \in Seq(U) /\ Len(Q) = IF c + 1 <= Len(A) THEN Len(A) - (c + 1) + 1 ELSE 0
        /\ \A j \in 1..(Len(A) - (c + 1) + 1) : Q[j] = A[(c + 1) + j - 1]
    BY <2>6 DEF lo, hi
  <2>4. Len(Q) = Len(A) - c
    BY <1>1, <2>3
  <2>5. ASSUME NEW j \in 1..(Len(A) - c) PROVE Q[j] = A[c + j]
    <3>1. (c + 1) + j - 1 = c + j /\ j \in 1..(Len(A) - (c + 1) + 1)
      BY <1>1
    <3>. QED
      BY <2>3, <3>1
  <2>. QED
    BY <2>3, <2>4, <2>5
<1>. HIDE DEF P, Q
<1>. DEFINE M == P \o new
<1>5. M \in Seq(U) /\ Len(M) = c + Len(new)
      /\ \A j \in 1..(c + Len(new)) : M[j] = IF j <= c THEN P[j] ELSE new[j - c]
  BY <1>1, <1>3, ConcatProperties
<1>. DEFINE C == M \o Q
<1>0. B = C
  BY DEF P, Q
<1>. HIDE DEF C, M
<1>6. C \in Seq(U) /\ Len(C) = c + Len(new) + (Len(A) - c)
      /\ \A j \in 1..(c + Len(new) + (Len(A) - c)) :
           C[j] = IF j <= c + Len(new) THEN M[j] ELSE Q[j - (c + Len(new))]
  <2>1. C \in Seq(U) /\ Len(C) = Len(M) + Len(Q)
        /\ \A j \in 1..(Len(M) + Len(Q)) : C[j] = IF j <= Len(M) THEN M[j] ELSE Q[j - Len(M)]
    BY <1>4, <1>5, ConcatProperties DEF C
  <2>. QED
    BY <1>1, <1>4, <1>5, <2>1
<1>7. Len(C) = Len(A) + Len(new) /\ C \in Seq(ToSet(C))
  <2>1. Len(C) = Len(A) + Len(new)
    BY <1>1, <1>6
  <2>2. C \in Seq(U)
    BY <1>6
  <2>. QED
    BY <2>1, <2>2, IsASeq1
<1>8. ASSUME NEW j \in 1..c PROVE C[j] = A[j]
  <2>1. j \in 1..(c + Len(new) + (Len(A) - c)) /\ j \in 1..(c + Len(new)) /\ j <= c + Len(new)
        /\ j <= c
    BY <1>1
  <2>. QED
    BY <1>3, <1>5, <1>6, <2>1
<1>9. ASSUME NEW j \in 1..Len(new) PROVE C[c + j] = new[j]
  <2>1. /\ c + j \in 1..(c + Len(new) + (Len(A) - c)) /\ c + j \in 1..(c + Len(new))
        /\ c + j <= c + Len(new) /\ ~(c + j <= c) /\ (c + j) - c = j
    BY <1>1
  <2>. QED
    BY <1>5, <1>6, <2>1
<1>10. ASSUME NEW j \in 1..(Len(A) - c) PROVE C[c + Len(new) + j] = A[c + j]
  <2>1. /\ c + Len(new) + j \in 1..(c + Len(new) + (Len(A) - c))
        /\ ~(c + Len(new) + j <= c + Len(new)) /\ (c + Len(new) + j) - (c + Len(new)) = j
    BY <1>1
  <2>. QED
    BY <1>4, <1>6, <2>1
<1>11. IsSpliced(A, C, c, new)
  BY <1>7, <1>8, <1>9, <1>10 DEF IsSpliced
<1>. QED
  BY <1>0, <1>11

\* A document whose lines have the level and the key they had.
LEMMA SameShape ==
  ASSUME NEW A, NEW B, NEW R, NEW H, Shape(A, R, H), B \in Seq(ToSet(B)), Len(B) = Len(A),
         \A i \in 1..Len(A) : B[i].level = A[i].level /\ B[i].key = A[i].key
  PROVE  Shape(B, R, H)
<1>1. Len(A) \in Nat
  BY ParseIs
<1>2. ASSUME NEW i \in 1..Len(B)
      PROVE  /\ B[i].level \in {"header", "root", "nested", "remark"}
             /\ B[i].level = "root" => B[i].key \in R
             /\ B[i].level = "header" => B[i].key \in H
             /\ B[i].level = "nested" => i > 1 /\ B[i - 1].level \in {"header", "nested"}
  <2>1. i > 1 => i - 1 \in 1..Len(A)
    BY <1>1
  <2>. QED
    BY <2>1, LineIsRead
<1>3. ASSUME NEW i \in 1..Len(B), NEW j \in 1..Len(B), i < j, AtRoot(B[i]), AtRoot(B[j]),
             B[i].key = B[j].key
      PROVE  B[i].level = "root" /\ B[j].level = "header"
  <2>1. AtRoot(A[i]) /\ AtRoot(A[j]) /\ A[i].key = A[j].key
    BY <1>3 DEF AtRoot
  <2>2. A[i].level = "root" /\ A[j].level = "header"
    BY <1>3, <2>1 DEF Shape
  <2>. QED
    BY <2>2
<1>. QED
  BY <1>2, <1>3 DEF Shape

\* A write over what was there, and a key that is new.
Only(path, value) == [p \in {path} |-> value]

LEMMA OverOne ==
  ASSUME NEW data, NEW path, NEW value
  PROVE  Over(data, Only(path, value)) = With(data, path, value)
BY DEF Over, Only, With

LEMMA OnlyIs ==
  ASSUME NEW path, NEW value
  PROVE  /\ \A p : p \in DOMAIN Only(path, value) <=> p = path
         /\ Only(path, value)[path] = value
BY DEF Only

LEMMA AtNewKey ==
  ASSUME NEW data, NEW key, NEW value, IsFunction(data), \A p \in DOMAIN data : p[1] # key
  PROVE  AtKey(data, key, value) = With(data, KeyPath(key), value)
<1>1. {p \in DOMAIN data : p[1] # key} = DOMAIN data
  OBVIOUS
<1>2. Without(data, key) = data
  BY <1>1 DEF Without, Restrict, IsFunction
<1>. QED
  BY <1>2 DEF AtKey

LEMMA AtKeyAgain ==
  ASSUME NEW data, NEW key, NEW value, NEW other
  PROVE  AtKey(data, key, value) = Over(AtKey(data, key, other), Only(KeyPath(key), value))
<1>. DEFINE f == AtKey(data, key, value)
            g == Over(AtKey(data, key, other), Only(KeyPath(key), value))
<1>1. ASSUME NEW p PROVE p \in DOMAIN f <=> p \in DOMAIN g
  BY AtKeyIs, OverIs, OnlyIs
<1>2. ASSUME NEW p \in DOMAIN f PROVE f[p] = g[p]
  <2>1. CASE p = KeyPath(key)
    <3>1. p \in DOMAIN Only(KeyPath(key), value)
      BY <2>1, OnlyIs
    <3>2. g[p] = Only(KeyPath(key), value)[p]
      BY <3>1, OverIs
    <3>. QED
      BY <2>1, <3>2, AtKeyIs, OnlyIs
  <2>2. CASE p # KeyPath(key)
    <3>0. p \in DOMAIN data /\ p[1] # key
      BY <1>2, <2>2, AtKeyIs
    <3>1. p \in DOMAIN data /\ p[1] # key /\ p \in DOMAIN AtKey(data, key, other)
          /\ p \notin DOMAIN Only(KeyPath(key), value)
      BY <2>2, <3>0, AtKeyIs, OnlyIs
    <3>2. f[p] = data[p] /\ AtKey(data, key, other)[p] = data[p]
      BY <3>1, AtKeyIs
    <3>3. g[p] = AtKey(data, key, other)[p]
      BY <3>1, OverIs
    <3>. QED
      BY <3>2, <3>3
  <2>. QED
    BY <2>1, <2>2
<1>. QED
  BY <1>1, <1>2, SameFunction, AreFunctions, OverIs

LEMMA InSectionAgain ==
  ASSUME NEW data, NEW section, NEW key, NEW value, NEW other
  PROVE  InSection(data, section, key, value)
           = Over(InSection(data, section, key, other), Only(EntryPath(section, key), value))
<1>. DEFINE path == EntryPath(section, key)
            f == InSection(data, section, key, value)
            g == Over(InSection(data, section, key, other), Only(path, value))
<1>1. ASSUME NEW p PROVE p \in DOMAIN f <=> p \in DOMAIN g
  BY InSectionIs, OverIs, OnlyIs
<1>2. ASSUME NEW p \in DOMAIN f PROVE f[p] = g[p]
  <2>1. CASE p = path
    <3>1. p \in DOMAIN Only(path, value)
      BY <2>1, OnlyIs
    <3>2. g[p] = Only(path, value)[p]
      BY <3>1, OverIs
    <3>. QED
      BY <2>1, <3>2, InSectionIs, OnlyIs
  <2>2. CASE p # path
    <3>1. p \in DOMAIN data /\ p \in DOMAIN InSection(data, section, key, other)
          /\ p \notin DOMAIN Only(path, value)
      BY <1>2, <2>2, InSectionIs, OnlyIs
    <3>2. f[p] = data[p] /\ InSection(data, section, key, other)[p] = data[p]
      BY <2>2, <3>1, InSectionIs
    <3>3. g[p] = InSection(data, section, key, other)[p]
      BY <3>1, OverIs
    <3>. QED
      BY <3>2, <3>3
  <2>. QED
    BY <2>1, <2>2
<1>. QED
  BY <1>1, <1>2, SameFunction, AreFunctions, OverIs

\* A value is written under a key: over its line, or on a line of its own.
LEMMA PutAtRootReads ==
  ASSUME NEW A, NEW R, NEW H, Shape(A, R, H), NEW key \in R, key \notin H, NEW raw
  PROVE  LET B == PutAtRoot(A, Entry(key, raw))
         IN /\ Shape(B, R, H)
            /\ DataAt(B, Len(B)) = With(DataAt(A, Len(A)), KeyPath(key), ParseValue(raw))
<1>. DEFINE line == Entry(key, raw)
            v == ParseValue(raw)
            B == PutAtRoot(A, line)
            Q == {i \in 1..Len(A) : A[i].level \in {"header", "root"} /\ A[i].key = key}
            i == First(Q)
            d == DataAt(A, Len(A))
<1>1. Len(A) \in Nat /\ A \in Seq(ToSet(A)) /\ Q \subseteq 1..Len(A)
  BY ParseIs DEF Shape
<1>2. line.level = "root" /\ line.key = key /\ line.raw = raw
  BY DEF Entry
<1>3. B = IF i = 0 THEN Append(A, line) ELSE ReplaceAt(A, i, line)
  BY <1>2 DEF PutAtRoot, RootLine
<1>4. CASE Q = {}
  <2>1. i = 0
    <3>. HIDE DEF Q
    <3>. QED
      BY <1>1, <1>4, FirstIs
  <2>2. /\ B \in Seq(ToSet(B)) /\ Len(B) = Len(A) + 1 /\ B[Len(A) + 1] = line
        /\ \A j \in 1..Len(A) : B[j] = A[j]
    BY <1>1, <1>3, <2>1, Appended
  <2>3. \A j \in 1..Len(A) : AtRoot(A[j]) => A[j].key # key
    BY <1>4 DEF AtRoot
  <2>. HIDE DEF B, line, Q, i
  <2>4. Shape(B, R, H)
    <3>1. ASSUME NEW j \in 1..Len(B)
          PROVE  /\ B[j].level \in {"header", "root", "nested", "remark"}
                 /\ B[j].level = "root" => B[j].key \in R
                 /\ B[j].level = "header" => B[j].key \in H
                 /\ B[j].level = "nested" => j > 1 /\ B[j - 1].level \in {"header", "nested"}
      <4>1. CASE j = Len(A) + 1
        BY <1>2, <2>2, <4>1
      <4>2. CASE j # Len(A) + 1
        <5>1. j \in 1..Len(A) /\ (j > 1 => j - 1 \in 1..Len(A))
          BY <1>1, <2>2, <4>2
        <5>. QED
          BY <2>2, <5>1, LineIsRead
      <4>. QED
        BY <4>1, <4>2
    <3>2. ASSUME NEW j \in 1..Len(B), NEW k \in 1..Len(B), j < k, AtRoot(B[j]), AtRoot(B[k]),
                 B[j].key = B[k].key
          PROVE  B[j].level = "root" /\ B[k].level = "header"
      <4>1. j \in 1..Len(A) /\ B[j] = A[j]
        BY <1>1, <2>2, <3>2
      <4>2. k # Len(A) + 1
        BY <1>2, <2>2, <2>3, <3>2, <4>1
      <4>3. k \in 1..Len(A) /\ B[k] = A[k]
        BY <1>1, <2>2, <4>2
      <4>. QED
        BY <3>2, <4>1, <4>3 DEF Shape
    <3>3. Nothing \notin H
      BY DEF Shape
    <3>. QED
      BY <2>2, <3>1, <3>2, <3>3 DEF Shape
  <2>5. DataAt(B, Len(A)) = d
    BY <1>1, <2>2, PrefixReads
  <2>6. DataAt(B, Len(B)) = AtKey(d, key, v)
    <3>1. Len(B) \in 1..Len(B) /\ Len(B) - 1 = Len(A) /\ B[Len(B)] = line
      BY <1>1, <2>2
    <3>. QED
      BY <1>2, <2>4, <2>5, <3>1, LineIsRead
  <2>7. IsFunction(d) /\ \A p \in DOMAIN d : p[1] # key
    <3>1. Len(A) \in 0..Len(A)
      BY <1>1
    <3>. QED
      BY <2>3, <3>1, KeysAreRead, IsRead DEF DataAt
  <2>. QED
    BY <2>4, <2>6, <2>7, AtNewKey DEF B, line
<1>5. CASE Q # {}
  <2>1. i \in 1..Len(A) /\ AtRoot(A[i]) /\ A[i].key = key /\ i # 0
    <3>1. i \in Q
      <4>. HIDE DEF Q
      <4>. QED
        BY <1>1, <1>5, FirstIs
    <3>. QED
      BY <3>1 DEF AtRoot
  <2>0. B = ReplaceAt(A, i, line)
    BY <1>3, <2>1
  <2>. HIDE DEF B, line, Q, i
  <2>2. /\ B \in Seq(ToSet(B)) /\ Len(B) = Len(A) /\ B[i] = line
        /\ \A j \in 1..Len(A) : j # i => B[j] = A[j]
    BY <1>1, <2>0, <2>1, Replaced
  <2>3. A[i].level = "root"
    BY <2>1, LineIsRead DEF AtRoot
  <2>4. Shape(B, R, H)
    <3>1. \A j \in 1..Len(A) : B[j].level = A[j].level /\ B[j].key = A[j].key
      BY <1>2, <2>1, <2>2, <2>3
    <3>. QED
      BY <2>2, <3>1, SameShape
  <2>5. ASSUME NEW j \in (i + 1)..Len(A), AtRoot(A[j]) PROVE A[j].key # key
    <3>1. SUFFICES ASSUME A[j].key = key PROVE FALSE
      OBVIOUS
    <3>2. j \in 1..Len(A) /\ i < j
      BY <1>1, <2>1
    <3>3. A[j].level = "header"
      BY <2>1, <2>5, <3>1, <3>2 DEF Shape
    <3>. QED
      BY <3>1, <3>2, <3>3, LineIsRead
  <2>. DEFINE c == i - 1
              e == Only(KeyPath(key), v)
  <2>6. c \in Nat /\ c <= Len(A) /\ c <= Len(B) /\ \A j \in 1..c : A[j] = B[j]
    BY <1>1, <2>1, <2>2
  <2>7. DataAt(A, c) = DataAt(B, c)
    BY <1>1, <2>2, <2>6, PrefixReads
  <2>8. /\ DataAt(A, i) = AtKey(DataAt(A, c), key, ParseValue(A[i].raw))
        /\ SectionAt(A, i) = Nothing
    BY <2>1, <2>3, LineIsRead
  <2>9. DataAt(B, i) = AtKey(DataAt(A, c), key, v) /\ SectionAt(B, i) = Nothing
    <3>1. i \in 1..Len(B) /\ B[i].level = "root" /\ B[i].key = key /\ B[i].raw = raw
      BY <1>2, <2>1, <2>2
    <3>. QED
      BY <2>4, <2>7, <3>1, LineIsRead
  <2>10. DataAt(B, i) = Over(DataAt(A, i), e)
    BY <2>8, <2>9, AtKeyAgain
  <2>. HIDE DEF c
  <2>11. ASSUME NEW n \in (i + 1)..Len(A)
         PROVE  /\ AtRoot(A[n]) => \A p \in DOMAIN e : p[1] # A[n].key
                /\ A[n].level = "nested" => EntryPath(SectionAt(A, n - 1), A[n].key) \notin DOMAIN e
    <3>1. \A p \in DOMAIN e : p = KeyPath(key) /\ p[1] = key
      BY OnlyIs, PathsAre
    <3>2. AtRoot(A[n]) => A[n].key # key
      BY <2>5
    <3>3. KeyPath(key) # EntryPath(SectionAt(A, n - 1), A[n].key)
      BY PathsAre
    <3>. QED
      BY <3>1, <3>2, <3>3
  <2>12. /\ i \in 0..Len(A) /\ i \in 0..Len(B) /\ Len(B) - i = Len(A) - i
         /\ \A j \in 1..(Len(A) - i) : B[i + j] = A[i + j]
    <3>1. ASSUME NEW j \in 1..(Len(A) - i) PROVE B[i + j] = A[i + j]
      <4>1. i + j \in 1..Len(A) /\ i + j # i
        BY <1>1, <2>1
      <4>. QED
        BY <2>2, <4>1
    <3>. QED
      BY <1>1, <2>1, <2>2, <3>1
  <2>. HIDE DEF e
  <2>14. SectionAt(B, i) = SectionAt(A, i)
    BY <2>8, <2>9
  <2>13. DataAt(B, Len(B)) = Over(d, e)
    BY <2>4, <2>10, <2>11, <2>12, <2>14, AlikeBehind
  <2>. QED
    BY <2>4, <2>13, OverOne DEF B, line, e
<1>. QED
  BY <1>4, <1>5

\* Lines of a section, with or without its head, put where they may stand.
LEMMA SplicedShape ==
  ASSUME NEW A, NEW R, NEW H, Shape(A, R, H), NEW c \in 0..Len(A), NEW new,
         Len(new) \in Nat, Len(new) # 0, NEW B, IsSpliced(A, B, c, new),
         \A j \in 1..Len(new) :
           \/ new[j].level = "header" /\ j = 1 /\ new[j].key \in H
           \/ /\ new[j].level = "nested"
              /\ IF j = 1 THEN c > 0 /\ A[c].level \in {"header", "nested"}
                 ELSE new[j - 1].level \in {"header", "nested"},
         new[1].level = "header" =>
           /\ \A i \in 1..Len(A) : ~HeadOf(A[i], new[1].key)
           /\ \A i \in (c + 1)..Len(A) : AtRoot(A[i]) => A[i].key # new[1].key
  PROVE  Shape(B, R, H)
<1>. DEFINE L == Len(new)
<1>1. /\ Len(A) \in Nat /\ L \in Nat /\ L # 0 /\ c \in 0..Len(A) /\ Len(B) = Len(A) + L
      /\ \A j \in 1..c : B[j] = A[j]
      /\ \A j \in 1..L : B[c + j] = new[j]
      /\ \A j \in 1..(Len(A) - c) : B[c + L + j] = A[c + j]
  BY ParseIs DEF IsSpliced
<1>2. ASSUME NEW n \in 1..Len(B)
      PROVE  \/ n \in 1..c /\ B[n] = A[n]
             \/ n - c \in 1..L /\ n > c /\ B[n] = new[n - c]
             \/ n - L \in (c + 1)..Len(A) /\ n > c + L /\ B[n] = A[n - L]
  <2>1. CASE n <= c
    BY <1>1, <2>1
  <2>2. CASE n > c /\ n <= c + L
    <3>1. n - c \in 1..L /\ c + (n - c) = n
      BY <1>1, <2>2
    <3>. QED
      BY <1>1, <2>2, <3>1
  <2>3. CASE n > c + L
    <3>1. /\ n - L - c \in 1..(Len(A) - c) /\ c + L + (n - L - c) = n /\ c + (n - L - c) = n - L
          /\ n - L \in (c + 1)..Len(A)
      BY <1>1, <2>3
    <3>. QED
      BY <1>1, <2>3, <3>1
  <2>. QED
    BY <1>1, <2>1, <2>2, <2>3
<1>. HIDE DEF L
<1>3. ASSUME NEW n \in 1..Len(B)
      PROVE  /\ B[n].level \in {"header", "root", "nested", "remark"}
             /\ B[n].level = "root" => B[n].key \in R
             /\ B[n].level = "header" => B[n].key \in H
             /\ B[n].level = "nested" => n > 1 /\ B[n - 1].level \in {"header", "nested"}
  <2>1. CASE n \in 1..c /\ B[n] = A[n]
    <3>1. n \in 1..Len(A) /\ (n > 1 => n - 1 \in 1..c)
      BY <1>1, <2>1
    <3>2. n > 1 => B[n - 1] = A[n - 1]
      BY <1>1, <3>1
    <3>. QED
      BY <2>1, <3>1, <3>2, LineIsRead
  <2>2. CASE n - c \in 1..L /\ n > c /\ B[n] = new[n - c]
    <3>1. \/ B[n].level = "header" /\ B[n].key \in H
          \/ /\ B[n].level = "nested"
             /\ IF n - c = 1 THEN c > 0 /\ A[c].level \in {"header", "nested"}
                ELSE new[n - c - 1].level \in {"header", "nested"}
      BY <2>2 DEF L
    <3>2. ASSUME B[n].level = "nested", n - c = 1
          PROVE  n > 1 /\ B[n - 1].level \in {"header", "nested"}
      <4>1. c > 0 /\ A[c].level \in {"header", "nested"} /\ n - 1 = c /\ c \in 1..c
        BY <1>1, <3>1, <3>2
      <4>. QED
        BY <1>1, <4>1
    <3>3. ASSUME B[n].level = "nested", n - c # 1
          PROVE  n > 1 /\ B[n - 1].level \in {"header", "nested"}
      <4>1. n - c - 1 \in 1..L /\ c + (n - c - 1) = n - 1 /\ n > 1
        BY <1>1, <2>2, <3>3
      <4>2. B[n - 1] = new[n - c - 1]
        BY <1>1, <4>1
      <4>. QED
        BY <3>1, <3>3, <4>1, <4>2
    <3>. QED
      BY <3>1, <3>2, <3>3
  <2>3. CASE n - L \in (c + 1)..Len(A) /\ n > c + L /\ B[n] = A[n - L]
    <3>1. n - L \in 1..Len(A) /\ n > 1
      BY <1>1, <2>3
    <3>2. ASSUME B[n].level = "nested" PROVE B[n - 1].level \in {"header", "nested"}
      <4>1. A[(n - L) - 1].level \in {"header", "nested"} /\ n - L > 1
        BY <2>3, <3>1, <3>2, LineIsRead
      <4>2. CASE n - L = c + 1
        <5>1. L \in 1..L /\ c + L = n - 1
          BY <1>1, <4>2
        <5>2. B[n - 1] = new[L]
          BY <1>1, <5>1
        <5>. QED
          BY <5>1, <5>2 DEF L
      <4>3. CASE n - L # c + 1
        <5>1. n - L - c - 1 \in 1..(Len(A) - c) /\ c + L + (n - L - c - 1) = n - 1
              /\ c + (n - L - c - 1) = (n - L) - 1
          BY <1>1, <2>3, <4>3
        <5>2. B[n - 1] = A[(n - L) - 1]
          BY <1>1, <5>1
        <5>. QED
          BY <4>1, <5>2
      <4>. QED
        BY <4>2, <4>3
    <3>. QED
      BY <2>3, <3>1, <3>2, LineIsRead
  <2>. QED
    BY <1>2, <2>1, <2>2, <2>3
<1>4. ASSUME NEW n \in 1..Len(B), NEW m \in 1..Len(B), n < m, AtRoot(B[n]), AtRoot(B[m]),
             B[n].key = B[m].key
      PROVE  B[n].level = "root" /\ B[m].level = "header"
  <2>0. \A i, j \in 1..Len(A) :
          i < j /\ AtRoot(A[i]) /\ AtRoot(A[j]) /\ A[i].key = A[j].key
            => A[i].level = "root" /\ A[j].level = "header"
    BY DEF Shape
  <2>1. \A j \in 1..L : AtRoot(new[j]) => j = 1 /\ new[1].level = "header"
    BY DEF AtRoot, L
  <2>2. CASE n \in 1..c /\ B[n] = A[n]
    <3>1. n \in 1..Len(A)
      BY <1>1, <2>2
    <3>2. CASE m \in 1..c /\ B[m] = A[m]
      <4>1. m \in 1..Len(A)
        BY <1>1, <3>2
      <4>. QED
        BY <1>4, <2>0, <2>2, <3>1, <3>2, <4>1
    <3>3. CASE m - c \in 1..L /\ m > c /\ B[m] = new[m - c]
      <4>1. B[m] = new[1] /\ new[1].level = "header"
        BY <1>4, <2>1, <3>3
      <4>2. ~HeadOf(A[n], new[1].key)
        BY <3>1, <4>1
      <4>. QED
        BY <1>4, <2>2, <4>1, <4>2 DEF HeadOf, AtRoot
    <3>4. CASE m - L \in (c + 1)..Len(A) /\ m > c + L /\ B[m] = A[m - L]
      <4>. DEFINE i == m - L
      <4>1. i \in 1..Len(A) /\ n < i
        BY <1>1, <2>2, <3>4
      <4>2. B[n] = A[n] /\ B[m] = A[i]
        BY <2>2, <3>4
      <4>. HIDE DEF i
      <4>3. AtRoot(A[n]) /\ AtRoot(A[i]) /\ A[n].key = A[i].key
        BY <1>4, <4>2
      <4>4. A[n].level = "root" /\ A[i].level = "header"
        BY <2>0, <3>1, <4>1, <4>3
      <4>. QED
        BY <4>2, <4>4
    <3>. QED
      BY <1>2, <3>2, <3>3, <3>4
  <2>3. CASE n - c \in 1..L /\ n > c /\ B[n] = new[n - c]
    <3>1. B[n] = new[1] /\ new[1].level = "header" /\ n = c + 1
      BY <1>1, <1>4, <2>1, <2>3
    <3>2. ~(m \in 1..c)
      BY <1>1, <1>4, <2>3
    <3>3. CASE m - c \in 1..L /\ m > c /\ B[m] = new[m - c]
      BY <1>1, <1>4, <2>1, <3>1, <3>3
    <3>4. CASE m - L \in (c + 1)..Len(A) /\ m > c + L /\ B[m] = A[m - L]
      <4>1. A[m - L].key # new[1].key
        BY <1>4, <3>1, <3>4
      <4>. QED
        BY <1>4, <3>1, <3>4, <4>1
    <3>. QED
      BY <1>2, <3>2, <3>3, <3>4
  <2>4. CASE n - L \in (c + 1)..Len(A) /\ n > c + L /\ B[n] = A[n - L]
    <3>1. m - L \in (c + 1)..Len(A) /\ B[m] = A[m - L]
      <4>1. ~(m \in 1..c) /\ ~(m - c \in 1..L)
        BY <1>1, <1>4, <2>4
      <4>. QED
        BY <1>2, <4>1
    <3>2. n - L \in 1..Len(A) /\ m - L \in 1..Len(A) /\ n - L < m - L
      BY <1>1, <1>4, <2>4, <3>1
    <3>. QED
      BY <1>4, <2>0, <2>4, <3>1, <3>2
  <2>. QED
    BY <1>2, <2>2, <2>3, <2>4
<1>5. Nothing \notin H /\ B \in Seq(ToSet(B))
  BY DEF Shape, IsSpliced
<1>. QED
  BY <1>3, <1>4, <1>5 DEF Shape

\* Behind the end of a section no line is in a section of that name.
LEMMA OtherSections ==
  ASSUME NEW A, NEW R, NEW H, Shape(A, R, H), NEW i \in 1..Len(A), A[i].level = "header",
         NEW e \in i..Len(A), e < Len(A) => A[e + 1].level # "nested",
         NEW n \in (e + 1)..Len(A)
  PROVE  /\ AtRoot(A[n]) => A[n].key # A[i].key
         /\ A[n].level = "nested" => SectionAt(A, n - 1) # A[i].key
<1>. DEFINE s == A[i].key
            Good(m) == SectionAt(A, m) # s \/ (m < Len(A) => A[m + 1].level # "nested")
            S == {k \in Nat : e + k <= Len(A) => Good(e + k)}
<1>1. Len(A) \in Nat /\ i \in Nat /\ e \in Nat
  BY ParseIs
<1>2. s \in H /\ Nothing \notin H
  BY LineIsRead DEF Shape
<1>3. ASSUME NEW m \in (i + 1)..Len(A), AtRoot(A[m]) PROVE A[m].key # s
  <2>1. m \in 1..Len(A) /\ i < m /\ AtRoot(A[i])
    BY <1>1 DEF AtRoot
  <2>. QED
    BY <1>3, <2>1 DEF Shape
<1>4. 0 \in S
  BY <1>1
<1>5. ASSUME NEW k \in Nat, k \in S PROVE k + 1 \in S
  <2>1. SUFFICES ASSUME e + (k + 1) <= Len(A) PROVE Good(e + (k + 1))
    OBVIOUS
  <2>. DEFINE m == e + (k + 1)
  <2>2. /\ m \in 1..Len(A) /\ m \in (i + 1)..Len(A) /\ m - 1 = e + k /\ e + k < Len(A)
        /\ (e + k) + 1 = m /\ Good(e + k)
    BY <1>1, <1>5, <2>1
  <2>3. Good(m - 1) /\ (m - 1) + 1 = m /\ m - 1 < Len(A)
    BY <2>2
  <2>. HIDE DEF m
  <2>4. CASE A[m].level = "remark"
    <3>1. ASSUME m < Len(A) PROVE A[m + 1].level # "nested"
      <4>1. m + 1 \in 1..Len(A) /\ (m + 1) - 1 = m
        BY <1>1, <2>2, <3>1
      <4>. QED
        BY <2>4, <4>1, LineIsRead
    <3>. QED
      BY <3>1 DEF m
  <2>5. CASE A[m].level = "header"
    <3>1. SectionAt(A, m) = A[m].key
      BY <2>2, <2>5, LineIsRead
    <3>2. A[m].key # s
      BY <1>3, <2>2, <2>5 DEF AtRoot
    <3>. QED
      BY <3>1, <3>2 DEF m
  <2>6. CASE A[m].level = "root"
    <3>1. SectionAt(A, m) = Nothing
      BY <2>2, <2>6, LineIsRead
    <3>. QED
      BY <1>2, <3>1 DEF m
  <2>7. CASE A[m].level = "nested"
    <3>1. SectionAt(A, m) = SectionAt(A, m - 1)
      BY <2>2, <2>7, LineIsRead
    <3>2. SectionAt(A, m - 1) # s
      BY <2>3, <2>7
    <3>. QED
      BY <3>1, <3>2 DEF m
  <2>. QED
    BY <2>2, <2>4, <2>5, <2>6, <2>7, LineIsRead
<1>6. n - 1 - e \in S
  <2>1. n - 1 - e \in Nat /\ n - 1 - e \in 0..(n - 1 - e)
    BY <1>1
  <2>. HIDE DEF S
  <2>2. \A k \in Nat : k < n - 1 - e /\ k \in S => k + 1 \in S
    BY <1>5
  <2>3. \A k \in 0..(n - 1 - e) : k \in S
    BY <1>4, <2>1, <2>2, CountUp
  <2>. QED
    BY <2>1, <2>3
<1>7. e + (n - 1 - e) = n - 1 /\ (n - 1) + 1 = n /\ n - 1 < Len(A) /\ n \in (i + 1)..Len(A)
  BY <1>1
<1>8. Good(n - 1)
  BY <1>6, <1>7
<1>. QED
  BY <1>3, <1>7, <1>8

\* A value is written into a section: over the last line of its key, or behind the
\* last line of the section.
LEMMA PutInSectionReads ==
  ASSUME NEW A, NEW R, NEW H, Shape(A, R, H), NEW i \in 1..Len(A), A[i].level = "header",
         NEW key, NEW raw
  PROVE  LET B == PutInSection(A, i, Nested(key, raw))
         IN /\ Shape(B, R, H)
            /\ DataAt(B, Len(B)) =
                 With(DataAt(A, Len(A)), EntryPath(A[i].key, key), ParseValue(raw))
<1>. DEFINE line == Nested(key, raw)
            v == ParseValue(raw)
            B == PutInSection(A, i, line)
            s == A[i].key
            e == SectionEnd(A, i)
            own == {j \in (i + 1)..e : A[j].key = key}
            over == Only(EntryPath(s, key), v)
<1>1. Len(A) \in Nat /\ A \in Seq(ToSet(A)) /\ i \in Nat
  BY ParseIs DEF Shape
<1>2. line.level = "nested" /\ line.key = key /\ line.raw = raw
  BY DEF Nested
<1>3. B = IF own = {} THEN InsertAt(A, e + 1, line) ELSE ReplaceAt(A, Max(own), line)
  BY <1>2 DEF PutInSection
<1>. HIDE DEF e
<1>4. /\ e \in i..Len(A) /\ e \in Nat
      /\ \A k \in (i + 1)..e : A[k].level = "nested"
      /\ e < Len(A) => A[e + 1].level # "nested"
  BY <1>1, SectionEndIs DEF e
<1>5. \A k \in i..e : SectionAt(A, k) = s
  <2>. TAKE k \in i..e
  <2>1. k \in i..Len(A) /\ \A m \in (i + 1)..k : m \in (i + 1)..e
    BY <1>1, <1>4
  <2>. QED
    BY <1>4, <2>1, SectionRuns
<1>. HIDE DEF line, B, s, v
<1>6. \A p \in DOMAIN over : p = EntryPath(s, key) /\ p[1] = s
  BY OnlyIs, PathsAre
<1>7. ASSUME NEW n \in (i + 1)..Len(A), AtRoot(A[n]) PROVE A[n].key # s
  <2>1. n \in 1..Len(A) /\ i < n /\ AtRoot(A[i])
    BY <1>1 DEF AtRoot
  <2>. QED
    BY <1>7, <2>1 DEF Shape, s
<1>8. ASSUME NEW n \in (e + 1)..Len(A), A[n].level = "nested" PROVE SectionAt(A, n - 1) # s
  BY <1>4, <1>8, OtherSections DEF s
<1>. HIDE DEF over
<1>9. CASE own = {}
  <2>1. B = SubSeq(A, 1, e) \o <<line>> \o SubSeq(A, e + 1, Len(A))
    <3>1. (e + 1) - 1 = e
      BY <1>4
    <3>. QED
      BY <1>3, <1>9, <3>1 DEF InsertAt
  <2>. DEFINE new == <<line>>
              T == {line}
  <2>2. Len(new) = 1 /\ new \in Seq(T) /\ new[1] = line
    OBVIOUS
  <2>3. B = SubSeq(A, 1, e) \o new \o SubSeq(A, e + 1, Len(A))
    BY <2>1
  <2>4. e \in 0..Len(A)
    BY <1>1, <1>4
  <2>. HIDE DEF new, T
  <2>5. IsSpliced(A, B, e, new)
    BY <1>1, <2>2, <2>3, <2>4, Spliced
  <2>6. e > 0 /\ A[e].level \in {"header", "nested"}
    <3>1. e = i \/ e \in (i + 1)..e
      BY <1>1, <1>4
    <3>. QED
      BY <1>4, <3>1
  <2>7. Shape(B, R, H)
    <3>1. Len(new) \in Nat /\ Len(new) # 0 /\ new[1].level # "header"
      BY <1>2, <2>2
    <3>2. \A j \in 1..Len(new) :
            \/ new[j].level = "header" /\ j = 1 /\ new[j].key \in H
            \/ /\ new[j].level = "nested"
               /\ IF j = 1 THEN e > 0 /\ A[e].level \in {"header", "nested"}
                  ELSE new[j - 1].level \in {"header", "nested"}
      BY <1>2, <2>2, <2>6
    <3>. QED
      BY <2>4, <2>5, <3>1, <3>2, SplicedShape
  <2>8. /\ Len(B) = Len(A) + 1 /\ B[e + 1] = line /\ \A j \in 1..e : A[j] = B[j]
        /\ \A j \in 1..(Len(A) - e) : B[(e + 1) + j] = A[e + j]
    <3>1. Len(B) = Len(A) + 1 /\ \A j \in 1..e : B[j] = A[j]
      BY <2>2, <2>5 DEF IsSpliced
    <3>2. B[e + 1] = line
      <4>1. \A j \in 1..Len(new) : B[e + j] = new[j]
        BY <2>5 DEF IsSpliced
      <4>2. 1 \in 1..Len(new)
        BY <2>2
      <4>. QED
        BY <2>2, <4>1, <4>2
    <3>3. \A j \in 1..(Len(A) - e) : B[(e + Len(new)) + j] = A[e + j]
      BY <2>5 DEF IsSpliced
    <3>. QED
      BY <2>2, <3>1, <3>2, <3>3
  <2>9. SectionAt(B, e) = s /\ DataAt(B, e) = DataAt(A, e)
    <3>1. e <= Len(A) /\ e <= Len(B) /\ Len(B) \in Nat /\ e \in i..e
      BY <1>1, <1>4, <2>8
    <3>2. SectionAt(A, e) = SectionAt(B, e) /\ DataAt(A, e) = DataAt(B, e)
      BY <1>1, <1>4, <2>8, <3>1, PrefixReads
    <3>. QED
      BY <1>5, <3>1, <3>2
  <2>. DEFINE b == e + 1
  <2>10. SectionAt(B, b) = s /\ DataAt(B, b) = InSection(DataAt(A, e), s, key, v)
    <3>1. b \in 1..Len(B) /\ b - 1 = e /\ B[b] = line
      BY <1>1, <1>4, <2>8
    <3>. HIDE DEF b
    <3>2. /\ SectionAt(B, b) = SectionAt(B, b - 1)
          /\ DataAt(B, b) = InSection(DataAt(B, b - 1), SectionAt(B, b - 1), key, v)
      BY <1>2, <2>7, <3>1, LineIsRead DEF v
    <3>. QED
      BY <2>9, <3>1, <3>2
  <2>11. DataAt(B, b) = Over(DataAt(A, e), over)
    BY <2>10, OverOne DEF InSection, over
  <2>12. b \in 0..Len(B) /\ Len(B) - b = Len(A) - e
         /\ \A j \in 1..(Len(A) - e) : B[b + j] = A[e + j]
    BY <1>1, <1>4, <2>8
  <2>. HIDE DEF b
  <2>13. SectionAt(B, b) = SectionAt(A, e)
    <3>1. e \in i..e
      BY <1>4
    <3>. QED
      BY <1>5, <2>10, <3>1
  <2>14. ASSUME NEW n \in (e + 1)..Len(A)
         PROVE  /\ AtRoot(A[n]) => \A p \in DOMAIN over : p[1] # A[n].key
                /\ A[n].level = "nested" => EntryPath(SectionAt(A, n - 1), A[n].key) \notin DOMAIN over
    <3>1. n \in (i + 1)..Len(A)
      BY <1>1, <1>4
    <3>2. A[n].level = "nested" => SectionAt(A, n - 1) # s
      BY <1>8
    <3>. QED
      BY <1>6, <1>7, <3>1, <3>2, PathsAre
  <2>15. DataAt(B, Len(B)) = Over(DataAt(A, Len(A)), over)
    BY <2>4, <2>7, <2>11, <2>12, <2>13, <2>14, AlikeBehind
  <2>. QED
    BY <2>7, <2>15, OverOne DEF B, line, over, s, v
<1>10. CASE own # {}
  <2>. DEFINE j == Max(own)
  <2>1. j \in own /\ \A x \in own : x <= j
    <3>1. own \subseteq 1..Len(A)
      BY <1>1, <1>4
    <3>. HIDE DEF own
    <3>. QED
      BY <1>1, <1>10, <3>1, MaxIs
  <2>2. B = ReplaceAt(A, j, line)
    BY <1>3, <1>10
  <2>. HIDE DEF j
  <2>3. /\ j \in 1..Len(A) /\ j \in (i + 1)..e /\ j - 1 \in i..e /\ j \in i..e
        /\ A[j].key = key /\ A[j].level = "nested" /\ j \in Nat
    BY <1>1, <1>4, <2>1
  <2>4. /\ B \in Seq(ToSet(B)) /\ Len(B) = Len(A) /\ B[j] = line
        /\ \A k \in 1..Len(A) : k # j => B[k] = A[k]
    BY <1>1, <2>2, <2>3, Replaced
  <2>5. Shape(B, R, H)
    <3>1. \A k \in 1..Len(A) : B[k].level = A[k].level /\ B[k].key = A[k].key
      BY <1>2, <2>3, <2>4
    <3>. QED
      BY <2>4, <3>1, SameShape
  <2>. DEFINE c == j - 1
  <2>6. c \in Nat /\ c <= Len(A) /\ c <= Len(B) /\ \A k \in 1..c : A[k] = B[k]
    BY <1>1, <2>3, <2>4
  <2>7. SectionAt(A, c) = SectionAt(B, c) /\ DataAt(A, c) = DataAt(B, c)
    BY <1>1, <2>4, <2>6, PrefixReads
  <2>8. SectionAt(A, c) = s /\ SectionAt(A, j) = s
    BY <1>5, <2>3
  <2>9. DataAt(A, j) = InSection(DataAt(A, c), s, key, ParseValue(A[j].raw))
    BY <2>3, <2>8, LineIsRead
  <2>10. SectionAt(B, j) = s /\ DataAt(B, j) = InSection(DataAt(A, c), s, key, v)
    <3>1. j \in 1..Len(B) /\ B[j].level = "nested" /\ B[j].key = key /\ B[j].raw = raw
      BY <1>2, <2>3, <2>4
    <3>2. /\ SectionAt(B, j) = SectionAt(B, c)
          /\ DataAt(B, j) = InSection(DataAt(B, c), SectionAt(B, c), key, v)
      BY <2>5, <3>1, LineIsRead DEF v
    <3>. QED
      BY <2>7, <2>8, <3>2
  <2>11. DataAt(B, j) = Over(DataAt(A, j), over)
    BY <2>9, <2>10, InSectionAgain DEF over
  <2>. HIDE DEF c
  <2>12. ASSUME NEW n \in (j + 1)..Len(A)
         PROVE  /\ AtRoot(A[n]) => \A p \in DOMAIN over : p[1] # A[n].key
                /\ A[n].level = "nested" => EntryPath(SectionAt(A, n - 1), A[n].key) \notin DOMAIN over
    <3>1. n \in (i + 1)..Len(A)
      BY <1>1, <2>3
    <3>2. ASSUME A[n].level = "nested"
          PROVE  SectionAt(A, n - 1) # s \/ A[n].key # key
      <4>1. CASE n > e
        <5>1. n \in (e + 1)..Len(A)
          BY <1>4, <4>1
        <5>. QED
          BY <1>8, <3>2, <5>1
      <4>2. CASE ~(n > e)
        <5>1. n \in (i + 1)..e /\ ~(n <= j)
          BY <1>4, <2>3, <3>1, <4>2
        <5>. QED
          BY <2>1, <5>1
      <4>. QED
        BY <4>1, <4>2
    <3>. QED
      BY <1>6, <1>7, <3>1, <3>2, PathsAre
  <2>13. /\ j \in 0..Len(A) /\ j \in 0..Len(B) /\ Len(B) - j = Len(A) - j
         /\ \A k \in 1..(Len(A) - j) : B[j + k] = A[j + k]
    <3>1. ASSUME NEW k \in 1..(Len(A) - j) PROVE B[j + k] = A[j + k]
      <4>1. j + k \in 1..Len(A) /\ j + k # j
        BY <1>1, <2>3
      <4>. QED
        BY <2>4, <4>1
    <3>. QED
      BY <1>1, <2>3, <2>4, <3>1
  <2>14. SectionAt(B, j) = SectionAt(A, j)
    BY <2>8, <2>10
  <2>15. DataAt(B, Len(B)) = Over(DataAt(A, Len(A)), over)
    BY <2>5, <2>11, <2>12, <2>13, <2>14, AlikeBehind
  <2>. QED
    BY <2>5, <2>15, OverOne DEF B, line, over, s, v
<1>. QED
  BY <1>9, <1>10

LEMMA SplicedAtEnd ==
  ASSUME NEW A, A \in Seq(ToSet(A)), NEW T, NEW new \in Seq(T),
         NEW B, B = A \o new
  PROVE  IsSpliced(A, B, Len(A), new)
<1>. DEFINE U == ToSet(A) \cup T
            C == A \o new
            c == Len(A)
<1>1. A \in Seq(U) /\ new \in Seq(U) /\ c \in Nat /\ Len(new) \in Nat
  BY SeqMonotonic, LenProperties
<1>2. B = C
  OBVIOUS
<1>. HIDE DEF U
<1>3. /\ C \in Seq(U) /\ Len(C) = c + Len(new)
      /\ \A j \in 1..(c + Len(new)) : C[j] = IF j <= c THEN A[j] ELSE new[j - c]
  BY <1>1, ConcatProperties
<1>. HIDE DEF C
<1>4. C \in Seq(ToSet(C)) /\ Len(C) = c + Len(new)
  BY <1>3, IsASeq1
<1>. HIDE DEF c
<1>5. ASSUME NEW j \in 1..c PROVE C[j] = A[j]
  <2>1. j \in 1..(c + Len(new)) /\ j <= c
    BY <1>1
  <2>. QED
    BY <1>3, <2>1
<1>6. ASSUME NEW j \in 1..Len(new) PROVE C[c + j] = new[j]
  <2>1. c + j \in 1..(c + Len(new)) /\ ~(c + j <= c) /\ (c + j) - c = j
    BY <1>1
  <2>. QED
    BY <1>3, <2>1
<1>7. ASSUME NEW j \in 1..(c - c) PROVE C[c + Len(new) + j] = A[c + j]
  BY <1>1
<1>8. IsSpliced(A, C, c, new)
  BY <1>4, <1>5, <1>6, <1>7 DEF IsSpliced, c
<1>. QED
  BY <1>2, <1>8 DEF c

\* The head of a section with an entry: what is read behind these two lines.
LEMMA TwoLines ==
  ASSUME NEW A, NEW R, NEW H, Shape(A, R, H), NEW c \in 0..Len(A), NEW s \in H, NEW key, NEW raw,
         \A i \in 1..Len(A) : ~HeadOf(A[i], s),
         \A i \in (c + 1)..Len(A) : AtRoot(A[i]) => A[i].key # s,
         NEW B, IsSpliced(A, B, c, <<Header(s), Nested(key, raw)>>)
  PROVE  /\ Shape(B, R, H)
         /\ Len(B) = Len(A) + 2
         /\ DataAt(B, c + 2) =
              InSection(AtKey(DataAt(A, c), s, Mapping), s, key, ParseValue(raw))
<1>. DEFINE new == <<Header(s), Nested(key, raw)>>
            v == ParseValue(raw)
<1>1. /\ Len(new) = 2 /\ new[1].level = "header" /\ new[1].key = s
      /\ new[2].level = "nested" /\ new[2].key = key /\ new[2].raw = raw
  BY DEF Header, Nested
<1>2. Len(A) \in Nat /\ c \in Nat /\ IsSpliced(A, B, c, new)
  BY ParseIs
<1>. HIDE DEF new, v
<1>3. /\ Len(B) = Len(A) + 2 /\ \A j \in 1..c : B[j] = A[j]
      /\ \A j \in 1..2 : B[c + j] = new[j]
      /\ \A j \in 1..(Len(A) - c) : B[(c + 2) + j] = A[c + j]
  BY <1>1, <1>2 DEF IsSpliced
<1>4. B[c + 1] = new[1] /\ B[c + 2] = new[2]
  <2>1. 1 \in 1..2 /\ 2 \in 1..2
    OBVIOUS
  <2>. QED
    BY <1>3, <2>1
<1>5. Shape(B, R, H)
  <2>1. Len(new) \in Nat /\ Len(new) # 0
    BY <1>1
  <2>2. \A j \in 1..Len(new) :
          \/ new[j].level = "header" /\ j = 1 /\ new[j].key \in H
          \/ /\ new[j].level = "nested"
             /\ IF j = 1 THEN c > 0 /\ A[c].level \in {"header", "nested"}
                ELSE new[j - 1].level \in {"header", "nested"}
    <3>. TAKE j \in 1..Len(new)
    <3>1. j = 1 \/ (j = 2 /\ j - 1 = 1)
      BY <1>1
    <3>. QED
      BY <1>1, <3>1
  <2>3. new[1].level = "header" =>
           /\ \A i \in 1..Len(A) : ~HeadOf(A[i], new[1].key)
           /\ \A i \in (c + 1)..Len(A) : AtRoot(A[i]) => A[i].key # new[1].key
    BY <1>1
  <2>. QED
    BY <1>2, <2>1, <2>2, <2>3, SplicedShape
<1>6. DataAt(B, c) = DataAt(A, c)
  <2>1. c <= Len(A) /\ c <= Len(B) /\ Len(B) \in Nat /\ \A j \in 1..c : A[j] = B[j]
    BY <1>2, <1>3
  <2>. QED
    BY <1>2, <2>1, PrefixReads
<1>. DEFINE j == c + 1
            k == c + 2
<1>7. j \in 1..Len(B) /\ j - 1 = c /\ k \in 1..Len(B) /\ k - 1 = j
  BY <1>2, <1>3
<1>8. B[j] = new[1] /\ B[k] = new[2]
  BY <1>4
<1>. HIDE DEF j, k
<1>9. SectionAt(B, j) = s /\ DataAt(B, j) = AtKey(DataAt(A, c), s, Mapping)
  <2>1. B[j].level = "header" /\ B[j].key = s
    BY <1>1, <1>8
  <2>2. SectionAt(B, j) = B[j].key /\ DataAt(B, j) = AtKey(DataAt(B, j - 1), B[j].key, Mapping)
    BY <1>5, <1>7, <2>1, LineIsRead
  <2>. QED
    BY <1>6, <1>7, <2>1, <2>2
<1>10. DataAt(B, k) = InSection(DataAt(B, j), s, key, v)
  <2>1. B[k].level = "nested" /\ B[k].key = key /\ B[k].raw = raw
    BY <1>1, <1>8
  <2>2. DataAt(B, k) = InSection(DataAt(B, k - 1), SectionAt(B, k - 1), key, v)
    BY <1>5, <1>7, <2>1, LineIsRead DEF v
  <2>. QED
    BY <1>7, <1>9, <2>2
<1>. QED
  BY <1>3, <1>5, <1>9, <1>10 DEF v, k

\* A new section at the end; the key may have had a value on its line.
LEMMA SectionAtEndReads ==
  ASSUME NEW A, NEW R, NEW H, Shape(A, R, H), NEW s \in H, NEW key, NEW raw,
         \A i \in 1..Len(A) : ~HeadOf(A[i], s),
         NEW B, IsSpliced(A, B, Len(A), <<Header(s), Nested(key, raw)>>)
  PROVE  /\ Shape(B, R, H)
         /\ DataAt(B, Len(B)) =
              InSection(AtKey(DataAt(A, Len(A)), s, Mapping), s, key, ParseValue(raw))
<1>. DEFINE c == Len(A)
<1>1. c \in Nat /\ c \in 0..Len(A) /\ c = Len(A)
  BY ParseIs
<1>2. \A i \in (c + 1)..Len(A) : AtRoot(A[i]) => A[i].key # s
  BY <1>1
<1>3. IsSpliced(A, B, c, <<Header(s), Nested(key, raw)>>)
  OBVIOUS
<1>. HIDE DEF c
<1>4. /\ Shape(B, R, H) /\ Len(B) = Len(A) + 2
      /\ DataAt(B, c + 2) = InSection(AtKey(DataAt(A, c), s, Mapping), s, key, ParseValue(raw))
  BY <1>1, <1>2, <1>3, TwoLines
<1>. QED
  BY <1>1, <1>4

Two(p, x, q, y) == With(Only(p, x), q, y)

LEMMA OverTwo ==
  ASSUME NEW data, NEW p, NEW x, NEW q, NEW y
  PROVE  Over(data, Two(p, x, q, y)) = With(With(data, p, x), q, y)
<1>. DEFINE f == Over(data, Two(p, x, q, y))
            g == With(With(data, p, x), q, y)
<1>1. ASSUME NEW t PROVE t \in DOMAIN f <=> t \in DOMAIN g
  BY DEF Over, Two, With, Only
<1>2. ASSUME NEW t \in DOMAIN f PROVE f[t] = g[t]
  BY <1>1 DEF Over, Two, With, Only
<1>3. IsFunction(f) /\ IsFunction(g)
  BY OverIs, WithIs
<1>. HIDE DEF f, g
<1>4. f = g
  BY <1>1, <1>2, <1>3, SameFunction
<1>. QED
  BY <1>4 DEF f, g

\* A new section of a key that stands nowhere, between two others.
LEMMA SectionBetweenReads ==
  ASSUME NEW A, NEW R, NEW H, Shape(A, R, H), NEW c \in 0..Len(A), NEW s \in H, NEW key, NEW raw,
         \A i \in 1..Len(A) : AtRoot(A[i]) => A[i].key # s,
         c < Len(A) => A[c + 1].level # "nested",
         NEW B, IsSpliced(A, B, c, <<Header(s), Nested(key, raw)>>)
  PROVE  /\ Shape(B, R, H)
         /\ DataAt(B, Len(B)) =
              InSection(AtKey(DataAt(A, Len(A)), s, Mapping), s, key, ParseValue(raw))
<1>. DEFINE v == ParseValue(raw)
            p == KeyPath(s)
            q == EntryPath(s, key)
            e == Two(p, Mapping, q, v)
<1>1. Len(A) \in Nat /\ c \in Nat
  BY ParseIs
<1>2. /\ \A i \in 1..Len(A) : ~HeadOf(A[i], s)
      /\ \A i \in (c + 1)..Len(A) : AtRoot(A[i]) => A[i].key # s
  BY <1>1 DEF HeadOf, AtRoot
<1>3. /\ Shape(B, R, H)
      /\ Len(B) = Len(A) + 2
      /\ DataAt(B, c + 2) = InSection(AtKey(DataAt(A, c), s, Mapping), s, key, v)
  BY <1>2, TwoLines
<1>11. \A j \in 1..(Len(A) - c) : B[(c + 2) + j] = A[c + j]
  <2>. DEFINE new == <<Header(s), Nested(key, raw)>>
  <2>1. Len(new) = 2 /\ IsSpliced(A, B, c, new)
    OBVIOUS
  <2>. HIDE DEF new
  <2>. QED
    BY <2>1 DEF IsSpliced
<1>4. ASSUME NEW n \in 0..Len(A)
      PROVE  InSection(AtKey(DataAt(A, n), s, Mapping), s, key, v) = Over(DataAt(A, n), e)
  <2>1. IsFunction(DataAt(A, n)) /\ \A t \in DOMAIN DataAt(A, n) : t[1] # s
    <3>1. \A i \in 1..n : i \in 1..Len(A)
      BY <1>1
    <3>. QED
      BY <3>1, IsRead, KeysAreRead DEF DataAt
  <2>2. AtKey(DataAt(A, n), s, Mapping) = With(DataAt(A, n), p, Mapping)
    BY <2>1, AtNewKey
  <2>. QED
    BY <2>2, OverTwo DEF InSection
<1>5. \A t \in DOMAIN e : t = p \/ t = q
  BY DEF Two, With, Only
<1>6. \A t \in DOMAIN e : t[1] = s
  BY <1>5, PathsAre
<1>. HIDE DEF e, v
<1>. DEFINE b == c + 2
<1>7. b \in 0..Len(B) /\ Len(B) - b = Len(A) - c
      /\ \A j \in 1..(Len(A) - c) : B[b + j] = A[c + j]
  BY <1>1, <1>3, <1>11
<1>8. DataAt(B, b) = Over(DataAt(A, c), e)
  BY <1>3, <1>4
<1>. HIDE DEF b
<1>9. ASSUME NEW n \in (c + 1)..Len(A)
      PROVE  /\ AtRoot(A[n]) => \A t \in DOMAIN e : t[1] # A[n].key
             /\ A[n].level = "nested" => EntryPath(SectionAt(A, n - 1), A[n].key) \notin DOMAIN e
  <2>1. n - 1 \in 0..Len(A) /\ n \in 1..Len(A) /\ \A i \in 1..(n - 1) : i \in 1..Len(A)
    BY <1>1
  <2>2. SectionAt(A, n - 1) # s
    <3>1. SUFFICES ASSUME SectionAt(A, n - 1) = s PROVE FALSE
      OBVIOUS
    <3>2. SectionAt(A, n - 1) # Nothing
      BY <3>1 DEF Shape
    <3>3. \E i \in 1..(n - 1) : A[i].level = "header" /\ A[i].key = SectionAt(A, n - 1)
      BY <2>1, <3>2, KeysAreRead
    <3>. QED
      BY <1>2, <2>1, <3>1, <3>3 DEF HeadOf
  <2>. QED
    BY <1>2, <1>6, <2>2, PathsAre
<1>10. DataAt(B, Len(B)) = Over(DataAt(A, Len(A)), e)
  BY <1>3, <1>7, <1>8, <1>9, AlikeBehind
<1>. QED
  <2>1. Len(A) \in 0..Len(A)
    BY <1>1
  <2>. QED
    BY <1>3, <1>4, <1>10, <2>1 DEF v

\* What the writer of a value puts into the line.
RawOf(hand, value) == IF hand = "relay" THEN FormatValue(value) ELSE Quote(value)

\* Only a text of the relay helper is understood as another value.
LEMMA UnderstoodAsMeant ==
  ASSUME NEW hand, NEW value, hand # "relay" \/ value.type # "str"
  PROVE  Understood(hand, value) = value
BY DEF Understood

LEMMA UnderstoodText ==
  ASSUME NEW text
  PROVE  /\ text \in Numbers => Understood("relay", Str(text)) = Number(text)
         /\ text = "null" => Understood("relay", Str(text)) = Null
         /\ text \in {"true", "false"} =>
              Understood("relay", Str(text)) = Value("bool", text, <<>>)
         /\ text \notin Numbers \cup BareWords => Understood("relay", Str(text)) = Str(text)
<1>. DEFINE v == Str(text)
<1>1. v.type = "str" /\ v.text = text
  BY DEF Str, Value
<1>2. Numbers \cap BareWords = {}
  BY TextAssumption DEF Words
<1>. HIDE DEF v
<1>3. CASE text \in Numbers
  BY <1>1, <1>2, <1>3 DEF Understood, BareWords, v
<1>4. CASE text = "null"
  BY <1>1, <1>2, <1>4 DEF Understood, BareWords, v
<1>5. CASE text \in {"true", "false"}
  BY <1>1, <1>2, <1>5 DEF Understood, BareWords, v
<1>6. CASE text \notin Numbers \cup BareWords
  BY <1>1, <1>6 DEF Understood, BareWords, v
<1>. QED
  BY <1>2, <1>3, <1>4, <1>5, <1>6 DEF BareWords

\* A text that is no section stays none.
LEMMA MappingUnderstood ==
  ASSUME NEW hand, NEW value
  PROVE  Understood(hand, value) = Mapping <=> value = Mapping
<1>1. /\ Mapping.type = "map" /\ Null.type = "null"
      /\ \A text : Number(text).type = "int" /\ Value("bool", text, <<>>).type = "bool"
  BY DEF Mapping, Null, Number, Value
<1>2. CASE hand = "relay" /\ value.type = "str"
  <2>1. value # Mapping
    BY <1>1, <1>2
  <2>2. Understood(hand, value).type \in {"int", "null", "bool"} \/ Understood(hand, value) = value
    BY <1>1 DEF Understood
  <2>. QED
    BY <1>1, <2>1, <2>2
<1>3. CASE ~(hand = "relay" /\ value.type = "str")
  BY <1>3, UnderstoodAsMeant
<1>. QED
  BY <1>2, <1>3

\* The parser reads a value as it is understood.
LEMMA ValueReads ==
  ASSUME NEW hand \in {"relay", "helper"}, NEW value, Storable(hand, value)
  PROVE  ParseValue(RawOf(hand, value)) = Understood(hand, value)
<1>. DEFINE raw == RawOf(hand, value)
            Goal == ParseValue(raw) = Understood(hand, value)
<1>0. value.type # "str" => Understood(hand, value) = value
  BY UnderstoodAsMeant
<1>1. CASE value = Null
  <2>1. raw = Raw(FALSE, "null", <<>>)
    BY <1>1 DEF RawOf, FormatValue, Quote, Null, Value
  <2>2. raw.quoted = FALSE /\ raw.text = "null"
    BY <2>1 DEF Raw
  <2>3. "null" \notin Numbers /\ "null" \notin Bracketed
    BY TextAssumption DEF Words, BareWords
  <2>. HIDE DEF raw
  <2>4. ParseValue(raw) = Null
    BY <2>2, <2>3 DEF ParseValue
  <2>5. value.type # "str"
    BY <1>1 DEF Null, Value
  <2>. QED
    BY <1>0, <1>1, <2>4, <2>5 DEF raw
<1>2. ASSUME NEW digits \in Numbers, value = Number(digits) PROVE Goal
  <2>1. raw = Raw(FALSE, digits, <<>>)
    BY <1>2 DEF RawOf, FormatValue, Quote, Number, Value
  <2>2. raw.quoted = FALSE /\ raw.text = digits
    BY <2>1 DEF Raw
  <2>3. digits \notin Words /\ digits \notin Bracketed
    BY TextAssumption
  <2>. HIDE DEF raw
  <2>4. ParseValue(raw) = Number(digits)
    BY <2>2, <2>3 DEF ParseValue, Words, BareWords
  <2>5. value.type # "str"
    BY <1>2 DEF Number, Value
  <2>. QED
    BY <1>0, <1>2, <2>4, <2>5
<1>3. CASE value = Str(value.text)
  <2>. DEFINE text == value.text
  <2>0. value = Str(text) /\ value.type = "str" /\ value.items = <<>>
    BY <1>3 DEF Str, Value
  <2>1. CASE hand = "relay"
    <3>1. raw = Raw(text \in Phrases, text, <<>>)
      BY <2>0, <2>1 DEF RawOf, FormatValue
    <3>2. raw.quoted = (text \in Phrases) /\ raw.text = text
      BY <3>1 DEF Raw
    <3>. HIDE DEF raw, text
    <3>3. CASE text \in Phrases
      <4>1. raw.quoted = TRUE /\ text \notin Numbers \cup BareWords
        BY <3>2, <3>3, TextAssumption
      <4>2. ParseValue(raw) = Str(text)
        BY <3>2, <4>1 DEF ParseValue
      <4>. QED
        BY <2>0, <2>1, <4>1, <4>2, UnderstoodText DEF raw
    <3>4. CASE text \notin Phrases
      <4>0. (text \in Phrases) = FALSE
        BY <3>4
      <4>1. raw.quoted = FALSE /\ text \notin Bracketed \cup (Words \ BareWords)
        BY <3>2, <3>4, <4>0, TextAssumption
      <4>2. text \notin {"~", "[", "mapping"}
        BY <4>1 DEF Words, BareWords
      <4>3. CASE text \in Numbers
        <5>1. text \notin Words
          BY <4>3, TextAssumption
        <5>2. ParseValue(raw) = Number(text)
          BY <3>2, <4>1, <4>3, <5>1 DEF ParseValue, Words, BareWords
        <5>. QED
          BY <2>0, <2>1, <4>3, <5>2, UnderstoodText DEF raw
      <4>4. CASE text = "null"
        <5>1. text \notin Numbers
          BY <4>4, TextAssumption DEF Words, BareWords
        <5>2. ParseValue(raw) = Null
          BY <3>2, <4>1, <4>2, <4>4, <5>1 DEF ParseValue
        <5>. QED
          BY <2>0, <2>1, <4>4, <5>2, UnderstoodText DEF raw
      <4>5. CASE text \in {"true", "false"}
        <5>1. text \notin Numbers
          BY <4>5, TextAssumption DEF Words, BareWords
        <5>2. ParseValue(raw) = Value("bool", text, <<>>)
          BY <3>2, <4>1, <4>2, <4>5, <5>1 DEF ParseValue
        <5>. QED
          BY <2>0, <2>1, <4>5, <5>2, UnderstoodText DEF raw
      <4>6. CASE text \notin Numbers \cup BareWords
        <5>1. ParseValue(raw) = Str(text)
          BY <3>2, <4>1, <4>2, <4>6 DEF ParseValue, BareWords
        <5>. QED
          BY <2>0, <2>1, <4>6, <5>1, UnderstoodText DEF raw
      <4>. QED
        BY <4>3, <4>4, <4>5, <4>6 DEF BareWords
    <3>. QED
      BY <3>3, <3>4
  <2>2. CASE hand = "helper"
    <3>1. raw = Raw(text \notin Enumerated, text, <<>>)
      BY <2>0, <2>2 DEF RawOf, Quote
    <3>2. text \in Enumerated => text \notin Misread
      BY TextAssumption
    <3>3. raw.quoted \in BOOLEAN /\ raw.text = text /\ (~raw.quoted => text \notin Misread)
      <4>1. CASE text \in Enumerated
        <5>1. raw = Raw(FALSE, text, <<>>)
          BY <3>1, <4>1
        <5>. QED
          BY <3>2, <4>1, <5>1 DEF Raw
      <4>2. CASE text \notin Enumerated
        <5>1. raw = Raw(TRUE, text, <<>>)
          BY <3>1, <4>2
        <5>. QED
          BY <5>1 DEF Raw
      <4>. QED
        BY <4>1, <4>2
    <3>. HIDE DEF raw, text
    <3>4. ParseValue(raw) = Str(text)
      <4>1. CASE raw.quoted
        BY <3>3, <4>1 DEF ParseValue
      <4>2. CASE ~raw.quoted
        BY <3>3, <4>2 DEF ParseValue, Misread, Words, BareWords
      <4>. QED
        BY <4>1, <4>2
    <3>5. Understood(hand, value) = value
      BY <2>2, UnderstoodAsMeant
    <3>. QED
      BY <2>0, <3>4, <3>5 DEF raw
  <2>. QED
    BY <2>1, <2>2
<1>4. CASE hand = "relay" /\ value = List(value.items)
  <2>. DEFINE items == value.items
  <2>0. value.type = "list" /\ value.text = "["
    BY <1>4 DEF List, Value
  <2>1. raw = Raw(FALSE, "[", items)
    BY <1>4, <2>0 DEF RawOf, FormatValue
  <2>2. raw.quoted = FALSE /\ raw.text = "[" /\ raw.items = items
    BY <2>1 DEF Raw
  <2>3. "[" \notin Numbers /\ "[" \notin Bracketed
    BY TextAssumption DEF Words
  <2>. HIDE DEF raw
  <2>4. ParseValue(raw) = List(items)
    BY <2>2, <2>3 DEF ParseValue
  <2>. QED
    BY <1>0, <1>4, <2>0, <2>4 DEF raw
<1>5. CASE hand = "relay" /\ value = Object(value.items)
  <2>. DEFINE items == value.items
  <2>0. value.type = "object" /\ value.text = "mapping"
    BY <1>5 DEF Object, Value
  <2>1. raw = Raw(FALSE, "mapping", items)
    BY <1>5, <2>0 DEF RawOf, FormatValue
  <2>2. raw.quoted = FALSE /\ raw.text = "mapping" /\ raw.items = items
    BY <2>1 DEF Raw
  <2>3. "mapping" \notin Numbers /\ "mapping" \notin Bracketed
    BY TextAssumption DEF Words
  <2>. HIDE DEF raw
  <2>4. ParseValue(raw) = Object(items)
    BY <2>2, <2>3 DEF ParseValue
  <2>. QED
    BY <1>0, <1>5, <2>0, <2>4 DEF raw
<1>. QED
  BY <1>1, <1>2, <1>3, <1>4, <1>5 DEF Storable

LEMMA SectionLineIs ==
  ASSUME NEW A, Len(A) \in Nat, NEW s
  PROVE  LET i == SectionLine(A, s)
         IN \/ i = 0 /\ \A j \in 1..Len(A) : ~HeadOf(A[j], s)
            \/ i \in 1..Len(A) /\ i # 0 /\ A[i].level = "header" /\ A[i].key = s
<1>. DEFINE Q == {j \in 1..Len(A) : A[j].level = "header" /\ A[j].key = s}
            i == First(Q)
<1>1. Q \subseteq 1..Len(A)
  OBVIOUS
<1>2. /\ Q = {} => i = 0
      /\ Q # {} => i \in Q
  <2>. HIDE DEF Q
  <2>. QED
    BY <1>1, FirstIs
<1>3. SectionLine(A, s) = i
  BY DEF SectionLine
<1>4. CASE Q = {}
  BY <1>2, <1>3, <1>4 DEF HeadOf
<1>5. CASE Q # {}
  <2>1. i \in 1..Len(A) /\ i # 0 /\ A[i].level = "header" /\ A[i].key = s
    BY <1>2, <1>5
  <2>. QED
    BY <1>3, <2>1
<1>. QED
  BY <1>4, <1>5

\* A write that the hand may make in such a document; replace-agent's new section goes
\* between others, and must not follow a line of its key.
MayWrite(hand, w, R, H) ==
  /\ hand \in {"relay", "helper"} /\ (hand = "helper" => R \cap H = {})
  /\ Fits(w, R \ H, H) /\ Storable(hand, w.value)

ReadsAs(ls, R, H, data) == Shape(ls, R, H) /\ DataAt(ls, Len(ls)) = data

\* What a write makes of what is read: a value under a key that is read as no section
\* begins one, in the place of the value the key had on its line.
Show(hand, data, w) ==
  LET value == Understood(hand, w.value)
  IN IF Len(w.path) = 1 \/ (<<w.path[1]>> \in DOMAIN data /\ data[<<w.path[1]>>] = Mapping)
     THEN With(data, w.path, value)
     ELSE With(With(Without(data, w.path[1]), <<w.path[1]>>, Mapping), w.path, value)

Shows(hand, data, writes) ==
  LET shown[n \in 0..Len(writes)] ==
        IF n = 0 THEN data ELSE Show(hand, shown[n - 1], writes[n])
  IN shown

Shown(hand, data, writes) == Shows(hand, data, writes)[Len(writes)]

LEMMA PutReads ==
  ASSUME NEW A, NEW R, NEW H, Shape(A, R, H), NEW hand, NEW w, MayWrite(hand, w, R, H)
  PROVE  ReadsAs(PutValue(hand, A, w), R, H, Show(hand, DataAt(A, Len(A)), w))
<1>0. /\ hand \in {"relay", "helper"} /\ (hand = "helper" => R \cap H = {})
      /\ Fits(w, R \ H, H) /\ Storable(hand, w.value)
  BY DEF MayWrite
<1>. DEFINE B == PutValue(hand, A, w)
            raw == RawOf(hand, w.value)
            d == DataAt(A, Len(A))
            s == w.path[1]
            value == Understood(hand, w.value)
<1>1. ParseValue(raw) = value
  BY <1>0, ValueReads
<1>2. Len(A) \in Nat /\ A \in Seq(ToSet(A)) /\ Len(A) \in 0..Len(A)
  BY ParseIs DEF Shape
<1>. DEFINE Goal == Shape(B, R, H) /\ DataAt(B, Len(B)) = Show(hand, d, w)
<1>3. ASSUME Len(w.path) = 1 /\ w.path = <<w.path[1]>> /\ w.path[1] \in R \ H PROVE Goal
  <2>1. B = PutAtRoot(A, Entry(s, raw))
    BY <1>0, <1>3 DEF PutValue, SetYamlValue, SetScalar, RawOf
  <2>2. Show(hand, d, w) = With(d, KeyPath(s), value)
    BY <1>3 DEF Show, KeyPath
  <2>3. s \in R /\ s \notin H
    BY <1>3
  <2>. HIDE DEF raw, s, B, value
  <2>4. Shape(B, R, H) /\ DataAt(B, Len(B)) = With(d, KeyPath(s), ParseValue(raw))
    BY <2>1, <2>3, PutAtRootReads
  <2>. QED
    BY <1>1, <2>2, <2>4 DEF B
<1>4. ASSUME Len(w.path) = 2 /\ w.path = <<w.path[1], w.path[2]>> /\ w.path[1] \in H PROVE Goal
  <2>. DEFINE key == w.path[2]
              i == SectionLine(A, s)
              line == Nested(key, raw)
              a == SectionLine(A, w.after)
              place == IF a = 0 THEN Len(A) ELSE SectionEnd(A, a)
  <2>0. w.path = EntryPath(s, key) /\ s \in H /\ Len(w.path) # 1
    BY <1>4 DEF EntryPath
  <2>1. CASE i # 0
    <3>1. i \in 1..Len(A) /\ A[i].level = "header" /\ A[i].key = s
      BY <1>2, <2>1, SectionLineIs
    <3>2. B = PutInSection(A, i, line)
      BY <1>0, <1>4, <2>1 DEF PutValue, SetYamlValue, SetNested, RawOf
    <3>3. HasSection(d, s)
      BY <1>2, <3>1, HeadsAreRead DEF HeadOf
    <3>4. Show(hand, d, w) = With(d, w.path, value)
      BY <3>3 DEF Show, HasSection, KeyPath
    <3>. HIDE DEF B, raw, s, key, i, value
    <3>5. Shape(B, R, H) /\ DataAt(B, Len(B)) = With(d, EntryPath(A[i].key, key), ParseValue(raw))
      BY <3>1, <3>2, PutInSectionReads
    <3>. QED
      BY <1>1, <2>0, <3>1, <3>4, <3>5 DEF B
  <2>2. CASE i = 0
    <3>1. \A j \in 1..Len(A) : ~HeadOf(A[j], s)
      BY <1>2, <2>2, SectionLineIs
    <3>2. ~HasSection(d, s)
      BY <1>2, <3>1, HeadsAreRead
    <3>3. Show(hand, d, w) = InSection(AtKey(d, s, Mapping), s, key, value)
      BY <2>0, <3>2 DEF Show, HasSection, KeyPath, InSection, AtKey
    <3>. DEFINE new == <<Header(s), line>>
                T == {Header(s), line}
    <3>4. new \in Seq(T)
      OBVIOUS
    <3>5. CASE hand = "relay"
      <4>1. B = A \o new
        BY <1>4, <2>2, <3>5 DEF PutValue, SetYamlValue, RawOf
      <4>. HIDE DEF B, T, new
      <4>2. IsSpliced(A, B, Len(A), new)
        BY <1>2, <3>4, <4>1, SplicedAtEnd
      <4>. HIDE DEF raw, s, key, value
      <4>3. /\ Shape(B, R, H)
            /\ DataAt(B, Len(B)) = InSection(AtKey(d, s, Mapping), s, key, ParseValue(raw))
        BY <2>0, <3>1, <4>2, SectionAtEndReads DEF new
      <4>. QED
        BY <1>1, <3>3, <4>3 DEF B
    <3>6. CASE hand = "helper"
      <4>1. B = SubSeq(A, 1, place) \o new \o SubSeq(A, place + 1, Len(A))
        <5>1. B = SetNested(A, s, key, w.value, w.after)
          BY <1>4, <3>6 DEF PutValue
        <5>2. raw = Quote(w.value)
          BY <3>6 DEF RawOf
        <5>. QED
          BY <2>2, <5>1, <5>2 DEF SetNested
      <4>2. place \in 0..Len(A) /\ (place < Len(A) => A[place + 1].level # "nested")
        <5>1. CASE a = 0
          BY <1>2, <5>1
        <5>2. CASE a # 0
          <6>1. a \in 1..Len(A)
            BY <1>2, <5>2, SectionLineIs
          <6>. DEFINE e == SectionEnd(A, a)
          <6>. HIDE DEF a, e
          <6>2. e \in a..Len(A) /\ (e < Len(A) => A[e + 1].level # "nested")
            BY <1>2, <6>1, SectionEndIs DEF e
          <6>3. place = e
            BY <5>2 DEF e
          <6>. QED
            BY <1>2, <6>1, <6>2, <6>3
        <5>. QED
          BY <5>1, <5>2
      <4>. HIDE DEF B, T, new, place
      <4>3. IsSpliced(A, B, place, new)
        BY <1>2, <3>4, <4>1, <4>2, Spliced
      <4>4. \A j \in 1..Len(A) : AtRoot(A[j]) => A[j].key # s
        <5>. SUFFICES ASSUME NEW j \in 1..Len(A), AtRoot(A[j]), A[j].key = s PROVE FALSE
          OBVIOUS
        <5>1. A[j].level = "root"
          BY <3>1 DEF HeadOf, AtRoot
        <5>2. A[j].key \in R
          BY <5>1, LineIsRead
        <5>. QED
          BY <1>0, <2>0, <3>6, <5>2
      <4>. HIDE DEF raw, s, key, value
      <4>5. /\ Shape(B, R, H)
            /\ DataAt(B, Len(B)) = InSection(AtKey(d, s, Mapping), s, key, ParseValue(raw))
        BY <2>0, <4>2, <4>3, <4>4, SectionBetweenReads DEF new
      <4>. QED
        BY <1>1, <3>3, <4>5 DEF B
    <3>. QED
      BY <1>0, <3>5, <3>6
  <2>. QED
    BY <2>1, <2>2
<1>. QED
  BY <1>0, <1>3, <1>4 DEF Fits, ReadsAs

---------------------------------------------------------------------------
(* Writes one after the other.                                             *)

\* Whether f is what the first m writes make of the lines, and of the data.
Puts(f, hand, lines, writes, m) ==
  f = [n \in 0..m |-> IF n = 0 THEN lines ELSE PutValue(hand, f[n - 1], writes[n])]
Stores(f, hand, data, writes, m) ==
  f = [n \in 0..m |-> IF n = 0 THEN data ELSE Show(hand, f[n - 1], writes[n])]

LEMMA TextsUnfold ==
  ASSUME NEW hand, NEW lines, NEW writes, Len(writes) \in Nat
  PROVE  Puts(Texts(hand, lines, writes), hand, lines, writes, Len(writes))
<1>. DEFINE S == {m \in Nat : \E f : Puts(f, hand, lines, writes, m)}
<1>1. 0 \in S
  <2>. DEFINE f == [n \in 0..0 |-> lines]
  <2>1. Puts(f, hand, lines, writes, 0)
    BY DEF Puts
  <2>. QED
    BY <2>1
<1>2. ASSUME NEW m \in Nat, m \in S PROVE m + 1 \in S
  <2>1. PICK f : Puts(f, hand, lines, writes, m)
    BY <1>2
  <2>. DEFINE v == PutValue(hand, f[m], writes[m + 1])
              g == [n \in 0..(m + 1) |-> IF n = m + 1 THEN v ELSE f[n]]
  <2>2. Puts(g, hand, lines, writes, m + 1)
    <3>1. ASSUME NEW n \in 0..(m + 1)
          PROVE  g[n] = IF n = 0 THEN lines ELSE PutValue(hand, g[n - 1], writes[n])
      <4>1. CASE n = m + 1
        BY <4>1
      <4>2. CASE n # m + 1
        BY <4>2, <2>1 DEF Puts
      <4>. QED
        BY <4>1, <4>2
    <3>. HIDE DEF v
    <3>. QED
      BY <3>1 DEF Puts
  <2>. QED
    BY <2>2
<1>3. Len(writes) \in S
  <2>. HIDE DEF S
  <2>1. \A n \in Nat : n < Len(writes) /\ n \in S => n + 1 \in S
    BY <1>2
  <2>2. \A n \in 0..Len(writes) : n \in S
    BY <1>1, <2>1, CountUp
  <2>. QED
    BY <2>2
<1>4. PICK f : Puts(f, hand, lines, writes, Len(writes))
  BY <1>3
<1>. QED
  BY <1>4 DEF Puts, Texts

LEMMA ShowsUnfold ==
  ASSUME NEW hand, NEW data, NEW writes, Len(writes) \in Nat
  PROVE  Stores(Shows(hand, data, writes), hand, data, writes, Len(writes))
<1>. DEFINE S == {m \in Nat : \E f : Stores(f, hand, data, writes, m)}
<1>1. 0 \in S
  <2>. DEFINE f == [n \in 0..0 |-> data]
  <2>1. Stores(f, hand, data, writes, 0)
    BY DEF Stores
  <2>. QED
    BY <2>1
<1>2. ASSUME NEW m \in Nat, m \in S PROVE m + 1 \in S
  <2>1. PICK f : Stores(f, hand, data, writes, m)
    BY <1>2
  <2>. DEFINE v == Show(hand, f[m], writes[m + 1])
              g == [n \in 0..(m + 1) |-> IF n = m + 1 THEN v ELSE f[n]]
  <2>2. Stores(g, hand, data, writes, m + 1)
    <3>1. ASSUME NEW n \in 0..(m + 1)
          PROVE  g[n] = IF n = 0 THEN data ELSE Show(hand, g[n - 1], writes[n])
      <4>1. CASE n = m + 1
        BY <4>1
      <4>2. CASE n # m + 1
        BY <4>2, <2>1 DEF Stores
      <4>. QED
        BY <4>1, <4>2
    <3>. HIDE DEF v
    <3>. QED
      BY <3>1 DEF Stores
  <2>. QED
    BY <2>2
<1>3. Len(writes) \in S
  <2>. HIDE DEF S
  <2>1. \A n \in Nat : n < Len(writes) /\ n \in S => n + 1 \in S
    BY <1>2
  <2>2. \A n \in 0..Len(writes) : n \in S
    BY <1>1, <2>1, CountUp
  <2>. QED
    BY <2>2
<1>4. PICK f : Stores(f, hand, data, writes, Len(writes))
  BY <1>3
<1>. QED
  BY <1>4 DEF Stores, Shows

\* What the parser reads of the text after the writes is what they mean to store.
LEMMA WrittenReads ==
  ASSUME NEW A, NEW R, NEW H, Shape(A, R, H), NEW hand \in {"relay", "helper"},
         hand = "helper" => R \cap H = {}, NEW writes, AllFit(hand, writes, R \ H, H)
  PROVE  ReadsAs(Written(hand, A, writes), R, H, Shown(hand, DataAt(A, Len(A)), writes))
<1>. DEFINE N == Len(writes)
            d == DataAt(A, Len(A))
            t == Texts(hand, A, writes)
            r == Shows(hand, d, writes)
            Good(n) == ReadsAs(t[n], R, H, r[n])
            S == {n \in Nat : n <= N => Good(n)}
<1>1. N \in Nat /\ \A n \in 1..N : MayWrite(hand, writes[n], R, H)
  <2>1. writes \in Seq(ToSet(writes))
    BY DEF AllFit
  <2>2. N \in Nat /\ DOMAIN writes = 1..N
    BY <2>1, LenProperties
  <2>. QED
    BY <2>2 DEF AllFit, MayWrite
<1>2. Puts(t, hand, A, writes, N) /\ Stores(r, hand, d, writes, N)
  BY <1>1, TextsUnfold, ShowsUnfold
<1>. HIDE DEF N, t, r, d
<1>3. 0 \in S
  <2>1. t[0] = A /\ r[0] = d
    BY <1>1, <1>2 DEF Puts, Stores
  <2>. QED
    BY <2>1 DEF d, ReadsAs
<1>4. ASSUME NEW n \in Nat, n \in S PROVE n + 1 \in S
  <2>1. SUFFICES ASSUME n + 1 <= N PROVE Good(n + 1)
    OBVIOUS
  <2>. DEFINE k == n + 1
  <2>2. Good(n) /\ k \in 0..N /\ k \in 1..N /\ k # 0 /\ k - 1 = n
    BY <1>1, <1>4, <2>1
  <2>. HIDE DEF k
  <2>3. t[k] = PutValue(hand, t[n], writes[k]) /\ r[k] = Show(hand, r[n], writes[k])
    BY <1>2, <2>2 DEF Puts, Stores
  <2>4. MayWrite(hand, writes[k], R, H) /\ Shape(t[n], R, H) /\ DataAt(t[n], Len(t[n])) = r[n]
    BY <1>1, <2>2 DEF ReadsAs
  <2>. DEFINE X == t[n]
              w == writes[k]
              B == PutValue(hand, X, w)
              data == Show(hand, DataAt(X, Len(X)), w)
  <2>5. MayWrite(hand, w, R, H) /\ Shape(X, R, H)
    BY <2>4
  <2>6. t[k] = B /\ r[k] = data
    BY <2>3, <2>4
  <2>. HIDE DEF X, w
  <2>7. ReadsAs(B, R, H, data)
    BY <2>5, PutReads
  <2>. HIDE DEF B, data
  <2>. QED
    BY <2>6, <2>7 DEF k
<1>5. N \in S
  <2>. HIDE DEF S
  <2>1. \A n \in Nat : n < N /\ n \in S => n + 1 \in S
    BY <1>4
  <2>2. \A n \in 0..N : n \in S
    BY <1>1, <1>3, <2>1, CountUp
  <2>. QED
    BY <1>1, <2>2
<1>6. Good(N)
  BY <1>1, <1>5
<1>. QED
  BY <1>6 DEF Written, Shown, N, t, r, d

\* A write changes only what is under its key.
LEMMA ShowKeeps ==
  ASSUME NEW hand, NEW data, NEW w, NEW p, w.path[1] # p[1]
  PROVE  /\ p \in DOMAIN Show(hand, data, w) <=> p \in DOMAIN data
         /\ p \in DOMAIN data => Show(hand, data, w)[p] = data[p]
<1>. DEFINE s == w.path[1]
            path == w.path
            value == Understood(hand, w.value)
<1>1. p # path /\ p # KeyPath(s)
  BY PathsAre
<1>2. CASE Show(hand, data, w) = With(data, path, value)
  BY <1>1, <1>2 DEF With
<1>3. CASE Show(hand, data, w) = With(AtKey(data, s, Mapping), path, value)
  <2>1. /\ p \in DOMAIN AtKey(data, s, Mapping) <=> p \in DOMAIN data
        /\ p \in DOMAIN data => AtKey(data, s, Mapping)[p] = data[p]
    BY <1>1, AtKeyIs
  <2>. QED
    BY <1>1, <1>3, <2>1 DEF With
<1>. QED
  BY <1>2, <1>3 DEF Show, AtKey, KeyPath

LEMMA ShowsKeep ==
  ASSUME NEW hand, NEW data, NEW writes, Len(writes) \in Nat, NEW p, NEW j \in 0..Len(writes),
         NEW m \in j..Len(writes), \A i \in (j + 1)..m : writes[i].path[1] # p[1]
  PROVE  LET r == Shows(hand, data, writes)
         IN /\ p \in DOMAIN r[m] <=> p \in DOMAIN r[j]
            /\ p \in DOMAIN r[j] => r[m][p] = r[j][p]
<1>. DEFINE N == Len(writes)
            r == Shows(hand, data, writes)
            Good(n) == /\ p \in DOMAIN r[n] <=> p \in DOMAIN r[j]
                       /\ p \in DOMAIN r[j] => r[n][p] = r[j][p]
            S == {n \in Nat : j + n <= m => Good(j + n)}
<1>1. N \in Nat /\ j \in Nat /\ m \in Nat /\ j <= m /\ m <= N /\ Stores(r, hand, data, writes, N)
  BY ShowsUnfold
<1>. HIDE DEF r, N
<1>2. 0 \in S
  BY <1>1
<1>3. ASSUME NEW n \in Nat, n \in S PROVE n + 1 \in S
  <2>1. SUFFICES ASSUME j + (n + 1) <= m PROVE Good(j + (n + 1))
    OBVIOUS
  <2>. DEFINE k == j + (n + 1)
              l == j + n
  <2>2. Good(l) /\ k \in 0..N /\ k \in (j + 1)..m /\ k # 0 /\ k - 1 = l
    BY <1>1, <1>3, <2>1
  <2>. HIDE DEF k, l
  <2>3. r[k] = Show(hand, r[l], writes[k]) /\ writes[k].path[1] # p[1]
    BY <1>1, <2>2 DEF Stores
  <2>4. Good(k)
    BY <2>2, <2>3, ShowKeeps
  <2>. QED
    BY <2>4 DEF k
<1>4. m - j \in S
  <2>1. m - j \in Nat /\ m - j \in 0..(m - j)
    BY <1>1
  <2>. HIDE DEF S
  <2>2. \A n \in Nat : n < m - j /\ n \in S => n + 1 \in S
    BY <1>3
  <2>3. \A n \in 0..(m - j) : n \in S
    BY <1>2, <2>1, <2>2, CountUp
  <2>. QED
    BY <2>1, <2>3
<1>5. j + (m - j) = m
  BY <1>1
<1>6. Good(m)
  BY <1>1, <1>4, <1>5
<1>. QED
  BY <1>6 DEF r

---------------------------------------------------------------------------
(* What is meant, and what is read.                                        *)

\* Whether f is what the first m writes make of the record.
Keeps(f, hand, meant, writes, m) ==
  f = [n \in 0..m |-> IF n = 0 THEN meant ELSE Put(f[n - 1], hand, writes[n])]

LEMMA RecordsUnfold ==
  ASSUME NEW hand, NEW meant, NEW writes, Len(writes) \in Nat
  PROVE  Keeps(Records(meant, hand, writes), hand, meant, writes, Len(writes))
<1>. DEFINE S == {m \in Nat : \E f : Keeps(f, hand, meant, writes, m)}
<1>1. 0 \in S
  <2>. DEFINE f == [n \in 0..0 |-> meant]
  <2>1. Keeps(f, hand, meant, writes, 0)
    BY DEF Keeps
  <2>. QED
    BY <2>1
<1>2. ASSUME NEW m \in Nat, m \in S PROVE m + 1 \in S
  <2>1. PICK f : Keeps(f, hand, meant, writes, m)
    BY <1>2
  <2>. DEFINE v == Put(f[m], hand, writes[m + 1])
              g == [n \in 0..(m + 1) |-> IF n = m + 1 THEN v ELSE f[n]]
  <2>2. Keeps(g, hand, meant, writes, m + 1)
    <3>1. ASSUME NEW n \in 0..(m + 1)
          PROVE  g[n] = IF n = 0 THEN meant ELSE Put(g[n - 1], hand, writes[n])
      <4>1. CASE n = m + 1
        BY <4>1
      <4>2. CASE n # m + 1
        BY <4>2, <2>1 DEF Keeps
      <4>. QED
        BY <4>1, <4>2
    <3>. HIDE DEF v
    <3>. QED
      BY <3>1 DEF Keeps
  <2>. QED
    BY <2>2
<1>3. Len(writes) \in S
  <2>. HIDE DEF S
  <2>1. \A n \in Nat : n < Len(writes) /\ n \in S => n + 1 \in S
    BY <1>2
  <2>2. \A n \in 0..Len(writes) : n \in S
    BY <1>1, <2>1, CountUp
  <2>. QED
    BY <2>2
<1>4. PICK f : Keeps(f, hand, meant, writes, Len(writes))
  BY <1>3
<1>. QED
  BY <1>4 DEF Keeps, Records

LEMMA MeantIs ==
  ASSUME NEW hand, NEW value
  PROVE  Meant(hand, value).by = hand /\ Meant(hand, value).value = value
BY DEF Meant

\* A write changes only what is meant under its key.
LEMMA PutKeeps ==
  ASSUME NEW meant, NEW hand, NEW w, NEW p, w.path[1] # p[1]
  PROVE  /\ p \in DOMAIN Put(meant, hand, w) <=> p \in DOMAIN meant
         /\ p \in DOMAIN meant => Put(meant, hand, w)[p] = meant[p]
<1>. DEFINE s == w.path[1]
            path == w.path
            key == KeyPath(s)
            M == Put(meant, hand, w)
<1>1. p # path /\ p # key
  BY PathsAre
<1>2. \/ \E v : M = With(meant, path, v)
      \/ \E v : M = With(meant, key, v)
      \/ \E u, v : M = With(AtKey(meant, s, u), path, v)
  BY DEF Put, AtKey, KeyPath
<1>. HIDE DEF M, path, key
<1>3. ASSUME NEW v, M = With(meant, path, v) \/ M = With(meant, key, v)
      PROVE  /\ p \in DOMAIN M <=> p \in DOMAIN meant
             /\ p \in DOMAIN meant => M[p] = meant[p]
  BY <1>1, <1>3, WithAt
<1>4. ASSUME NEW u, NEW v, M = With(AtKey(meant, s, u), path, v)
      PROVE  /\ p \in DOMAIN M <=> p \in DOMAIN meant
             /\ p \in DOMAIN meant => M[p] = meant[p]
  <2>1. /\ p \in DOMAIN AtKey(meant, s, u) <=> p \in DOMAIN meant
        /\ p \in DOMAIN meant => AtKey(meant, s, u)[p] = meant[p]
    BY <1>1, AtKeyIs DEF key
  <2>. DEFINE A == AtKey(meant, s, u)
  <2>2. /\ p \in DOMAIN With(A, path, v) <=> p \in DOMAIN A
        /\ p \in DOMAIN A => With(A, path, v)[p] = A[p]
    BY <1>1, WithAt
  <2>3. /\ p \in DOMAIN M <=> p \in DOMAIN A
        /\ p \in DOMAIN A => M[p] = A[p]
    BY <1>4, <2>2
  <2>. HIDE DEF A
  <2>4. /\ p \in DOMAIN A <=> p \in DOMAIN meant
        /\ p \in DOMAIN meant => A[p] = meant[p]
    BY <2>1 DEF A
  <2>. QED
    BY <2>3, <2>4
<1>. QED
  BY <1>2, <1>3, <1>4 DEF M

\* A key that may head a section heads one where it is meant at all.
Heads(meant, sections) ==
  \A k \in sections : KeyPath(k) \in DOMAIN meant => meant[KeyPath(k)].value = Mapping

AgreeBut(data, meant, X) == \A p : p[1] \notin X => Agree(data, meant, p)

\* A write of one value, under any key but those left out: what is read and what is
\* meant still agree.
LEMMA PutAgrees ==
  ASSUME NEW data, NEW meant, NEW hand, NEW w, NEW plain, NEW sections, NEW X,
         Fits(w, plain, sections), plain \cap sections = {},
         Heads(meant, sections \ X), AgreeBut(data, meant, X)
  PROVE  /\ Heads(Put(meant, hand, w), sections \ X)
         /\ AgreeBut(Show(hand, data, w), Put(meant, hand, w), X)
<1>. DEFINE s == w.path[1]
            path == w.path
            key == KeyPath(s)
            value == Understood(hand, w.value)
            new == Meant(hand, w.value)
            D == Show(hand, data, w)
            M == Put(meant, hand, w)
<1>1. ASSUME NEW p, p[1] # s
      PROVE  /\ p \in DOMAIN M <=> p \in DOMAIN meant
             /\ p \in DOMAIN meant => M[p] = meant[p]
             /\ Agree(data, meant, p) => Agree(D, M, p)
  BY <1>1, PutKeeps, ShowKeeps DEF Agree
<1>2. new.by = hand /\ new.value = w.value
  BY MeantIs
<1>3. ASSUME NEW d, NEW m, D = With(d, path, value), M = With(m, path, new), NEW p,
             p # path => Agree(d, m, p)
      PROVE  Agree(D, M, p)
  <2>0. value = Understood(hand, w.value)
    OBVIOUS
  <2>. HIDE DEF D, M, path, value, new
  <2>1. /\ p \in DOMAIN D <=> p \in DOMAIN d \/ p = path
        /\ p = path => D[p] = value
        /\ p \in DOMAIN d /\ p # path => D[p] = d[p]
    BY <1>3, WithAt
  <2>2. /\ p \in DOMAIN M <=> p \in DOMAIN m \/ p = path
        /\ p = path => M[p] = new
        /\ p \in DOMAIN m /\ p # path => M[p] = m[p]
    BY <1>3, WithAt
  <2>3. CASE p = path
    BY <1>2, <2>0, <2>1, <2>2, <2>3 DEF Agree
  <2>4. CASE p # path
    BY <1>3, <2>1, <2>2, <2>4 DEF Agree
  <2>. QED
    BY <2>3, <2>4
<1>4. CASE s \in X
  <2>1. \A k \in sections \ X : KeyPath(k)[1] # s
    BY <1>4, PathsAre
  <2>2. \A p : p[1] \notin X => p[1] # s
    BY <1>4
  <2>. HIDE DEF D, M, s
  <2>. QED
    BY <1>1, <2>1, <2>2 DEF Heads, AgreeBut, D, M
<1>5. ASSUME Len(path) = 1, path = <<s>>, s \in plain
      PROVE  Heads(M, sections \ X) /\ AgreeBut(D, M, X)
  <2>1. D = With(data, path, value) /\ M = With(meant, path, new)
    BY <1>5 DEF Show, Put
  <2>2. \A k \in sections \ X : KeyPath(k)[1] # s
    BY <1>5, PathsAre
  <2>. HIDE DEF D, M, s, path, value, new
  <2>3. \A p : p[1] \notin X => Agree(D, M, p)
    BY <1>3, <2>1 DEF AgreeBut
  <2>. QED
    BY <1>1, <2>2, <2>3 DEF Heads, AgreeBut
<1>6. ASSUME Len(path) = 2, path = <<s, path[2]>>, s \in sections, s \notin X
      PROVE  Heads(M, sections \ X) /\ AgreeBut(D, M, X)
  <2>0. /\ path = EntryPath(s, path[2]) /\ path # key /\ key[1] = s /\ Len(path) # 1
        /\ Agree(data, meant, key)
    BY <1>6, PathsAre DEF EntryPath, AgreeBut
  <2>1. ASSUME M[key].value = Mapping, \A p : p[1] \notin X => Agree(D, M, p)
        PROVE  Heads(M, sections \ X) /\ AgreeBut(D, M, X)
    <3>1. \A k \in sections \ X : k = s \/ KeyPath(k)[1] # s
      BY PathsAre
    <3>. HIDE DEF D, M, s
    <3>2. Heads(M, sections \ X)
      BY <1>1, <2>1, <3>1 DEF Heads, key
    <3>. QED
      BY <2>1, <3>2 DEF AgreeBut
  <2>2. CASE key \in DOMAIN meant
    <3>0. Mapping.type = "map" /\ s \in sections \ X
      BY <1>6 DEF Mapping, Value
    <3>1. meant[key].value = Mapping /\ meant[key].value.type = "map"
      BY <2>2, <3>0 DEF Heads
    <3>2. key \in DOMAIN data /\ data[key] = Mapping
      BY <2>0, <2>2, <3>1, MappingUnderstood DEF Agree
    <3>3. D = With(data, path, value)
      BY <3>2 DEF Show, KeyPath
    <3>4. M = With(meant, path, new)
      BY <2>0, <2>2, <3>1 DEF Put, KeyPath
    <3>. HIDE DEF D, M, s, path, value, new
    <3>5. \A p : p[1] \notin X => Agree(D, M, p)
      BY <1>3, <3>3, <3>4 DEF AgreeBut
    <3>6. M[key].value = Mapping
      <4>1. M[key] = meant[key]
        BY <2>0, <2>2, <3>4, WithAt
      <4>. QED
        BY <3>1, <4>1
    <3>. QED
      BY <2>1, <3>5, <3>6
  <2>3. CASE key \notin DOMAIN meant
    <3>. DEFINE head == Meant(hand, Mapping)
                d == AtKey(data, s, Mapping)
                m == AtKey(meant, s, head)
    <3>1. key \notin DOMAIN data
      BY <2>0, <2>3 DEF Agree
    <3>2. D = With(d, path, value)
      BY <2>0, <3>1 DEF Show, AtKey, KeyPath
    <3>3. M = With(m, path, new)
      BY <2>0, <2>3 DEF Put, AtKey, KeyPath
    <3>4. head.by = hand /\ head.value = Mapping /\ Understood(hand, Mapping) = Mapping
      BY MeantIs, MappingUnderstood
    <3>5. /\ key \in DOMAIN m /\ m[key] = head
          /\ \A p : p[1] \notin X => Agree(d, m, p)
      <4>1. key \in DOMAIN d /\ key \in DOMAIN m /\ d[key] = Mapping /\ m[key] = head
        BY AtKeyIs
      <4>. HIDE DEF d, m, head
      <4>2. Agree(d, m, key)
        BY <3>4, <4>1 DEF Agree
      <4>3. ASSUME NEW p, p[1] \notin X, p # key, p[1] = s PROVE Agree(d, m, p)
        <5>1. p \notin DOMAIN d /\ p \notin DOMAIN m
          BY <4>3, AtKeyIs DEF d, m
        <5>. QED
          BY <5>1 DEF Agree
      <4>4. ASSUME NEW p, p[1] \notin X, p # key, p[1] # s PROVE Agree(d, m, p)
        <5>1. /\ p \in DOMAIN d <=> p \in DOMAIN data
              /\ p \in DOMAIN m <=> p \in DOMAIN meant
              /\ p \in DOMAIN data => d[p] = data[p]
              /\ p \in DOMAIN meant => m[p] = meant[p]
          BY <4>4, AtKeyIs DEF d, m
        <5>2. Agree(data, meant, p)
          BY <4>4 DEF AgreeBut
        <5>. QED
          BY <5>1, <5>2 DEF Agree
      <4>. QED
        BY <4>1, <4>2, <4>3, <4>4
    <3>. HIDE DEF D, M, d, m, s, path, value, new, head
    <3>6. \A p : p[1] \notin X => Agree(D, M, p)
      BY <1>3, <3>2, <3>3, <3>5
    <3>7. M[key].value = Mapping
      <4>1. M[key] = m[key]
        BY <2>0, <3>3, <3>5, WithAt
      <4>. QED
        BY <3>4, <3>5, <4>1
    <3>. QED
      BY <2>1, <3>6, <3>7
  <2>. QED
    BY <2>2, <2>3
<1>. QED
  BY <1>4, <1>5, <1>6 DEF Fits

\* The writes of an operation, one after the other.
LEMMA RecordedAgrees ==
  ASSUME NEW data, NEW meant, NEW hand, NEW writes, NEW plain, NEW sections, NEW X,
         AllFit(hand, writes, plain, sections), plain \cap sections = {},
         Heads(meant, sections \ X), AgreeBut(data, meant, X)
  PROVE  /\ Heads(Recorded(meant, hand, writes), sections \ X)
         /\ AgreeBut(Shown(hand, data, writes), Recorded(meant, hand, writes), X)
<1>. DEFINE N == Len(writes)
            r == Shows(hand, data, writes)
            t == Records(meant, hand, writes)
            Good(n) == Heads(t[n], sections \ X) /\ AgreeBut(r[n], t[n], X)
            S == {n \in Nat : n <= N => Good(n)}
<1>1. N \in Nat /\ \A n \in 1..N : Fits(writes[n], plain, sections)
  <2>1. writes \in Seq(ToSet(writes))
    BY DEF AllFit
  <2>2. N \in Nat /\ DOMAIN writes = 1..N
    BY <2>1, LenProperties
  <2>. QED
    BY <2>2 DEF AllFit
<1>2. Stores(r, hand, data, writes, N) /\ Keeps(t, hand, meant, writes, N)
  BY <1>1, ShowsUnfold, RecordsUnfold
<1>. HIDE DEF N, t, r
<1>3. 0 \in S
  <2>1. t[0] = meant /\ r[0] = data
    BY <1>1, <1>2 DEF Stores, Keeps
  <2>. QED
    BY <2>1
<1>4. ASSUME NEW n \in Nat, n \in S PROVE n + 1 \in S
  <2>1. SUFFICES ASSUME n + 1 <= N PROVE Good(n + 1)
    OBVIOUS
  <2>. DEFINE k == n + 1
              d == r[n]
              m == t[n]
              w == writes[k]
  <2>2. Good(n) /\ k \in 0..N /\ k \in 1..N /\ k # 0 /\ k - 1 = n
    BY <1>1, <1>4, <2>1
  <2>. HIDE DEF k
  <2>3. r[k] = Show(hand, d, w) /\ t[k] = Put(m, hand, w)
    BY <1>2, <2>2 DEF Stores, Keeps
  <2>4. Fits(w, plain, sections) /\ Heads(m, sections \ X) /\ AgreeBut(d, m, X)
    BY <1>1, <2>2
  <2>. HIDE DEF d, m, w
  <2>5. Heads(Put(m, hand, w), sections \ X) /\ AgreeBut(Show(hand, d, w), Put(m, hand, w), X)
    BY <2>4, PutAgrees
  <2>6. Good(k)
    BY <2>3, <2>5
  <2>. QED
    BY <2>6 DEF k
<1>5. N \in S
  <2>. HIDE DEF S
  <2>1. \A n \in Nat : n < N /\ n \in S => n + 1 \in S
    BY <1>4
  <2>2. \A n \in 0..N : n \in S
    BY <1>1, <1>3, <2>1, CountUp
  <2>. QED
    BY <1>1, <2>2
<1>6. Good(N)
  BY <1>1, <1>5
<1>. QED
  BY <1>6 DEF Shown, Recorded, N, t, r

LEMMA OneFits ==
  ASSUME NEW hand, NEW w, NEW plain, NEW sections, Fits(w, plain, sections), Storable(hand, w.value)
  PROVE  AllFit(hand, <<w>>, plain, sections)
<1>. DEFINE ws == <<w>>
            T == {w}
<1>1. ws \in Seq(T) /\ Len(ws) = 1 /\ ws[1] = w
  OBVIOUS
<1>. HIDE DEF ws, T
<1>2. ws \in Seq(ToSet(ws)) /\ DOMAIN ws = 1..1
  BY <1>1, IsASeq1, LenProperties
<1>3. \A i \in 1..1 : i = 1
  OBVIOUS
<1>4. AllFit(hand, ws, plain, sections)
  BY <1>1, <1>2, <1>3 DEF AllFit
<1>. QED
  BY <1>4 DEF ws

LEMMA JoinedFit ==
  ASSUME NEW hand, NEW a, NEW b, NEW plain, NEW sections,
         AllFit(hand, a, plain, sections), AllFit(hand, b, plain, sections)
  PROVE  AllFit(hand, a \o b, plain, sections)
<1>. DEFINE ws == a \o b
<1>1. /\ a \in Seq(ToSet(a)) /\ b \in Seq(ToSet(b))
      /\ Len(a) \in Nat /\ Len(b) \in Nat /\ DOMAIN a = 1..Len(a) /\ DOMAIN b = 1..Len(b)
  BY LenProperties DEF AllFit
<1>2. IsSpliced(a, ws, Len(a), b)
  BY <1>1, SplicedAtEnd
<1>. HIDE DEF ws
<1>3. ws \in Seq(ToSet(ws)) /\ DOMAIN ws = 1..(Len(a) + Len(b))
  BY <1>2, LenProperties DEF IsSpliced
<1>4. ASSUME NEW i \in DOMAIN ws
      PROVE  Fits(ws[i], plain, sections) /\ Storable(hand, ws[i].value)
  <2>1. CASE i <= Len(a)
    <3>1. i \in 1..Len(a)
      BY <1>1, <1>3, <2>1
    <3>2. ws[i] = a[i]
      BY <1>2, <3>1 DEF IsSpliced
    <3>. QED
      BY <1>1, <3>1, <3>2 DEF AllFit
  <2>2. CASE ~(i <= Len(a))
    <3>. DEFINE k == i - Len(a)
    <3>1. k \in 1..Len(b) /\ Len(a) + k = i
      BY <1>1, <1>3, <2>2
    <3>2. ws[i] = b[k]
      BY <1>2, <3>1 DEF IsSpliced
    <3>. HIDE DEF k
    <3>. QED
      BY <1>1, <3>1, <3>2 DEF AllFit
  <2>. QED
    BY <2>1, <2>2
<1>5. AllFit(hand, ws, plain, sections)
  BY <1>3, <1>4 DEF AllFit
<1>. QED
  BY <1>5 DEF ws

---------------------------------------------------------------------------
(* The project index.                                                      *)

\* The active task and the lists that data hold, and what schema.py asks of them.
TasksPath(key) == EntryPath("tasks", key)
MirrorPath == KeyPath("active_task")

IndexOf(data, mirror, lists) ==
  /\ HasSection(data, "tasks")
  /\ MirrorPath \in DOMAIN data /\ data[MirrorPath] = mirror
  /\ \A key \in QueueKeys :
       TasksPath(key) \in DOMAIN data /\ data[TasksPath(key)] = List(lists[key])

Mirror(lists) == IF lists["active"] = <<>> THEN Null ELSE Str(lists["active"][1])

\* e: the tasks that may be completed and in another list too.
Apart(lists, e) ==
  \A j, k \in QueueKeys : j # k =>
    ToSet(lists[j]) \cap ToSet(lists[k]) \subseteq IF "completed" \in {j, k} THEN e ELSE {}

ValidLists(lists, e) ==
  /\ lists \in [QueueKeys -> Seq(Tasks)]
  /\ \A key \in QueueKeys : IsInjective(lists[key])
  /\ Apart(lists, e)
  /\ Len(lists["active"]) <= 1

IndexInv(data, e) == \E lists : ValidLists(lists, e) /\ IndexOf(data, Mirror(lists), lists)

\* The values the index is given are read as they are meant.
LEMMA TaskUnderstood ==
  /\ Understood("relay", Null) = Null
  /\ \A task \in Tasks : Understood("relay", Str(task)) = Str(task)
  /\ \A items : Understood("relay", List(items)) = List(items)
<1>1. Null.type # "str" /\ \A items : List(items).type # "str"
  BY DEF Null, List, Value
<1>2. \A task \in Tasks : task \notin Numbers \cup BareWords
  BY TextAssumption
<1>. QED
  BY <1>1, <1>2, UnderstoodAsMeant, UnderstoodText

LEMMA ListIs ==
  ASSUME NEW items
  PROVE  List(items).items = items /\ List(items).type = "list"
BY DEF List, Value

LEMMA IndexIs ==
  ASSUME NEW data, NEW e, IndexInv(data, e)
  PROVE  ValidIndex(data, e)
<1>1. PICK lists : ValidLists(lists, e) /\ IndexOf(data, Mirror(lists), lists)
  BY DEF IndexInv
<1>2. \A key \in QueueKeys : data[<<"tasks", key>>].items = lists[key]
  BY <1>1, ListIs DEF IndexOf, TasksPath, EntryPath
<1>3. data[<<"active_task">>] = Mirror(lists)
  BY <1>1 DEF IndexOf, MirrorPath, KeyPath
<1>4. "active" \in QueueKeys
  BY DEF QueueKeys
<1>. QED
  BY <1>1, <1>2, <1>3, <1>4 DEF ValidIndex, ValidLists, Apart, Mirror

LEMMA ListsAre ==
  ASSUME NEW data, NEW e, HasLists(data), ValidIndex(data, e)
  PROVE  IndexInv(data, e)
<1>. DEFINE lists == [key \in QueueKeys |-> data[<<"tasks", key>>].items]
<1>1. \A key \in QueueKeys : lists[key] = data[<<"tasks", key>>].items
  OBVIOUS
<1>2. lists \in [QueueKeys -> Seq(Tasks)]
  BY DEF HasLists
<1>3. "active" \in QueueKeys
  BY DEF QueueKeys
<1>. HIDE DEF lists
<1>4. ValidLists(lists, e)
  BY <1>1, <1>2, <1>3 DEF ValidLists, ValidIndex, Apart
<1>5. data[<<"active_task">>] = Mirror(lists)
  BY <1>1, <1>3 DEF ValidIndex, Mirror
<1>6. IndexOf(data, Mirror(lists), lists)
  BY <1>1, <1>5 DEF HasLists, IndexOf, TasksPath, EntryPath, MirrorPath, KeyPath, HasSection
<1>. QED
  BY <1>4, <1>6 DEF IndexInv

\* Lists with no task in two of them, pair by pair.
LEMMA PairwiseApart ==
  ASSUME NEW lists, NEW e
  PROVE  Apart(lists, e) <=>
           /\ ToSet(lists["active"]) \cap ToSet(lists["completed"]) \subseteq e
           /\ ToSet(lists["completed"]) \cap ToSet(lists["queued"]) \subseteq e
           /\ ToSet(lists["completed"]) \cap ToSet(lists["blocked"]) \subseteq e
           /\ ToSet(lists["active"]) \cap ToSet(lists["queued"]) = {}
           /\ ToSet(lists["active"]) \cap ToSet(lists["blocked"]) = {}
           /\ ToSet(lists["queued"]) \cap ToSet(lists["blocked"]) = {}
<1>. DEFINE a == ToSet(lists["active"])
            q == ToSet(lists["queued"])
            b == ToSet(lists["blocked"])
            c == ToSet(lists["completed"])
            In(j) == ToSet(lists[j])
            May(j, k) == In(j) \cap In(k) \subseteq IF "completed" \in {j, k} THEN e ELSE {}
<1>1. Apart(lists, e) <=>
        /\ May("active", "queued") /\ May("active", "blocked") /\ May("active", "completed")
        /\ May("queued", "active") /\ May("queued", "blocked") /\ May("queued", "completed")
        /\ May("blocked", "active") /\ May("blocked", "queued") /\ May("blocked", "completed")
        /\ May("completed", "active") /\ May("completed", "queued") /\ May("completed", "blocked")
  <2>1. Apart(lists, e) <=> \A j, k \in QueueKeys : j # k => May(j, k)
    BY DEF Apart
  <2>2. QueueKeys = {"active", "queued", "blocked", "completed"}
    BY DEF QueueKeys
  <2>. HIDE DEF May
  <2>. QED
    BY <2>1, <2>2
<1>2. /\ May("active", "queued") <=> a \cap q = {}
      /\ May("active", "blocked") <=> a \cap b = {}
      /\ May("active", "completed") <=> a \cap c \subseteq e
      /\ May("queued", "active") <=> a \cap q = {}
      /\ May("queued", "blocked") <=> q \cap b = {}
      /\ May("queued", "completed") <=> c \cap q \subseteq e
  <2>. HIDE DEF a, q, b, c
  <2>. QED
    BY DEF a, q, b, c
<1>3. /\ May("blocked", "active") <=> a \cap b = {}
      /\ May("blocked", "queued") <=> q \cap b = {}
      /\ May("blocked", "completed") <=> c \cap b \subseteq e
      /\ May("completed", "active") <=> a \cap c \subseteq e
      /\ May("completed", "queued") <=> c \cap q \subseteq e
      /\ May("completed", "blocked") <=> c \cap b \subseteq e
  OBVIOUS
<1>. HIDE DEF May
<1>. QED
  BY <1>1, <1>2, <1>3

\* The writes of the index operations.
LEMMA MirrorIsPut ==
  ASSUME NEW data, NEW mirror, NEW lists, IndexOf(data, mirror, lists), NEW value,
         Understood("relay", value) = value
  PROVE  IndexOf(Show("relay", data, Write(<<"active_task">>, value)), value, lists)
<1>. DEFINE d == Show("relay", data, Write(<<"active_task">>, value))
<1>1. d = With(data, MirrorPath, value)
  BY DEF Show, Write, MirrorPath, KeyPath
<1>2. MirrorPath # KeyPath("tasks") /\ \A key : MirrorPath # TasksPath(key)
  <2>1. "tasks" # "active_task"
    OBVIOUS
  <2>. QED
    BY <2>1, PathsAre DEF MirrorPath, TasksPath
<1>. HIDE DEF d
<1>3. MirrorPath \in DOMAIN d /\ d[MirrorPath] = value
  BY <1>1 DEF With
<1>4. \A p \in DOMAIN data : p # MirrorPath => p \in DOMAIN d /\ d[p] = data[p]
  BY <1>1 DEF With
<1>5. IndexOf(d, value, lists)
  BY <1>2, <1>3, <1>4 DEF IndexOf, HasSection
<1>. QED
  BY <1>5 DEF d

LEMMA ListIsPut ==
  ASSUME NEW data, NEW mirror, NEW lists, lists \in [QueueKeys -> Seq(Tasks)],
         IndexOf(data, mirror, lists), NEW key \in QueueKeys, NEW list \in Seq(Tasks)
  PROVE  /\ IndexOf(Show("relay", data, Write(<<"tasks", key>>, List(list))), mirror,
                    [lists EXCEPT ![key] = list])
         /\ [lists EXCEPT ![key] = list] \in [QueueKeys -> Seq(Tasks)]
<1>. DEFINE d == Show("relay", data, Write(<<"tasks", key>>, List(list)))
            new == [lists EXCEPT ![key] = list]
<1>1. d = With(data, TasksPath(key), List(list))
  <2>1. <<"tasks">> \in DOMAIN data /\ data[<<"tasks">>] = Mapping
    BY DEF IndexOf, HasSection, KeyPath
  <2>. QED
    BY <2>1, TaskUnderstood DEF Show, Write, TasksPath, EntryPath
<1>2. /\ MirrorPath # TasksPath(key) /\ KeyPath("tasks") # TasksPath(key)
      /\ \A k : k # key => TasksPath(k) # TasksPath(key)
  <2>1. MirrorPath # TasksPath(key) /\ KeyPath("tasks") # TasksPath(key)
    BY PathsAre DEF MirrorPath, TasksPath
  <2>2. ASSUME NEW k, TasksPath(k) = TasksPath(key) PROVE k = key
    BY <2>2, PathsAre DEF TasksPath
  <2>. QED
    BY <2>1, <2>2
<1>3. new[key] = list /\ (\A k \in QueueKeys : k # key => new[k] = lists[k])
      /\ new \in [QueueKeys -> Seq(Tasks)]
  OBVIOUS
<1>. HIDE DEF d, new
<1>4. TasksPath(key) \in DOMAIN d /\ d[TasksPath(key)] = List(list)
  BY <1>1 DEF With
<1>5. \A p \in DOMAIN data : p # TasksPath(key) => p \in DOMAIN d /\ d[p] = data[p]
  BY <1>1 DEF With
<1>6. HasSection(d, "tasks") /\ MirrorPath \in DOMAIN d /\ d[MirrorPath] = mirror
  BY <1>2, <1>5 DEF IndexOf, HasSection
<1>7. ASSUME NEW k \in QueueKeys
      PROVE  TasksPath(k) \in DOMAIN d /\ d[TasksPath(k)] = List(new[k])
  <2>1. CASE k = key
    BY <1>3, <1>4, <2>1
  <2>2. CASE k # key
    <3>1. TasksPath(k) \in DOMAIN data /\ data[TasksPath(k)] = List(lists[k])
      BY DEF IndexOf
    <3>. QED
      BY <1>2, <1>3, <1>5, <2>2, <3>1
  <2>. QED
    BY <2>1, <2>2
<1>8. IndexOf(d, mirror, new)
  BY <1>6, <1>7 DEF IndexOf
<1>. QED
  BY <1>3, <1>8 DEF d, new

Remains(f, list, task) ==
  f = [n \in 0..Len(list) |->
         IF n = 0 THEN <<>>
         ELSE IF list[n] = task THEN f[n - 1] ELSE Append(f[n - 1], list[n])]

LEMMA OthersAre ==
  ASSUME NEW task
  PROVE  /\ Others(<<>>, task) = <<>>
         /\ \A t : Others(<<t>>, task) = IF t = task THEN <<>> ELSE <<t>>
<1>1. ASSUME NEW list, NEW f, Remains(f, list, task)
      PROVE  Remains(Remaining(list, task), list, task)
  BY <1>1 DEF Remains, Remaining
<1>2. Others(<<>>, task) = <<>>
  <2>. DEFINE l == <<>>
              g == [n \in 0..0 |-> <<>>]
  <2>1. Remains(g, l, task) /\ Len(l) = 0
    BY DEF Remains
  <2>. HIDE DEF l, g
  <2>2. Remains(Remaining(l, task), l, task)
    BY <1>1, <2>1
  <2>. QED
    BY <2>1, <2>2 DEF Remains, Others, l
<1>3. ASSUME NEW t PROVE Others(<<t>>, task) = IF t = task THEN <<>> ELSE <<t>>
  <2>. DEFINE l == <<t>>
              v == IF t = task THEN <<>> ELSE <<t>>
              g == [n \in 0..1 |-> IF n = 0 THEN <<>> ELSE v]
  <2>1. Len(l) = 1 /\ l[1] = t /\ v = IF l[1] = task THEN <<>> ELSE Append(<<>>, l[1])
    OBVIOUS
  <2>. HIDE DEF l, v
  <2>2. Remains(g, l, task)
    BY <2>1 DEF Remains
  <2>. HIDE DEF g
  <2>. DEFINE r == Remaining(l, task)
  <2>3. Remains(r, l, task)
    BY <1>1, <2>2
  <2>. HIDE DEF r
  <2>5. \A n \in 0..Len(l) :
          r[n] = IF n = 0 THEN <<>>
                 ELSE IF l[n] = task THEN r[n - 1] ELSE Append(r[n - 1], l[n])
    BY <2>3 DEF Remains
  <2>6. 0 \in 0..Len(l) /\ 1 \in 0..Len(l)
    BY <2>1
  <2>7. r[0] = <<>>
    BY <2>5, <2>6
  <2>8. r[1] = IF l[1] = task THEN r[1 - 1] ELSE Append(r[1 - 1], l[1])
    BY <2>5, <2>6
  <2>9. 1 - 1 = 0
    OBVIOUS
  <2>4. r[0] = <<>> /\ r[1] = v
    BY <2>1, <2>7, <2>8, <2>9
  <2>. QED
    BY <2>1, <2>4 DEF Others, r, l, v
<1>. QED
  BY <1>2, <1>3

LEMMA AppendedTask ==
  ASSUME NEW list \in Seq(Tasks), NEW task \in Tasks
  PROVE  /\ Append(list, task) \in Seq(Tasks)
         /\ ToSet(Append(list, task)) = ToSet(list) \cup {task}
         /\ IsInjective(list) /\ task \notin ToSet(list) => IsInjective(Append(list, task))
<1>. DEFINE new == Append(list, task)
            N == Len(list)
<1>1. /\ N \in Nat /\ DOMAIN list = 1..N
      /\ new \in Seq(Tasks) /\ Len(new) = N + 1 /\ DOMAIN new = 1..(N + 1) /\ new[N + 1] = task
      /\ \A i \in 1..N : new[i] = list[i]
  BY AppendProperties, LenProperties
<1>. HIDE DEF new, N
<1>2. \A i \in 1..(N + 1) : i \in 1..N \/ i = N + 1
  BY <1>1
<1>3. \A i \in 1..N : i \in 1..(N + 1) /\ i # N + 1
  BY <1>1
<1>4. N + 1 \in 1..(N + 1)
  BY <1>1
<1>5. ToSet(new) = ToSet(list) \cup {task}
  BY <1>1, <1>2, <1>3, <1>4 DEF ToSet
<1>6. ASSUME IsInjective(list), task \notin ToSet(list) PROVE IsInjective(new)
  <2>1. \A i \in 1..N : list[i] # task
    BY <1>1, <1>6 DEF ToSet
  <2>2. \A i, j \in 1..N : list[i] = list[j] => i = j
    BY <1>1, <1>6 DEF IsInjective
  <2>3. \A i, j \in 1..(N + 1) : new[i] = new[j] => i = j
    BY <1>1, <1>2, <2>1, <2>2
  <2>. QED
    BY <1>1, <2>3 DEF IsInjective
<1>. QED
  BY <1>1, <1>5, <1>6 DEF new

LEMMA NoTask ==
  <<>> \in Seq(Tasks) /\ ToSet(<<>>) = {} /\ IsInjective(<<>>) /\ Len(<<>>) = 0
BY DEF ToSet, IsInjective

\* Whether f is what is left of the first m tasks.
Leaves(f, list, task, m) ==
  f = [n \in 0..m |->
         IF n = 0 THEN <<>>
         ELSE IF list[n] = task THEN f[n - 1] ELSE Append(f[n - 1], list[n])]

\* The list without a task, element by element.
LEMMA RemainingUnfold ==
  ASSUME NEW list, NEW task, Len(list) \in Nat
  PROVE  Remains(Remaining(list, task), list, task)
<1>. DEFINE N == Len(list)
            S == {m \in Nat : \E f : Leaves(f, list, task, m)}
<1>1. 0 \in S
  <2>. DEFINE f == [n \in 0..0 |-> <<>>]
  <2>1. Leaves(f, list, task, 0)
    BY DEF Leaves
  <2>. QED
    BY <2>1
<1>2. ASSUME NEW m \in Nat, m \in S PROVE m + 1 \in S
  <2>1. PICK f : Leaves(f, list, task, m)
    BY <1>2
  <2>. DEFINE v == IF list[m + 1] = task THEN f[m] ELSE Append(f[m], list[m + 1])
              g == [n \in 0..(m + 1) |-> IF n = m + 1 THEN v ELSE f[n]]
  <2>2. Leaves(g, list, task, m + 1)
    <3>1. ASSUME NEW n \in 0..(m + 1)
          PROVE  g[n] = IF n = 0 THEN <<>>
                        ELSE IF list[n] = task THEN g[n - 1] ELSE Append(g[n - 1], list[n])
      <4>1. CASE n = m + 1
        BY <4>1
      <4>2. CASE n # m + 1
        <5>1. n \in 0..m /\ g[n] = f[n] /\ (n # 0 => n - 1 \in 0..m /\ n - 1 # m + 1)
          BY <4>2
        <5>2. n # 0 => g[n - 1] = f[n - 1]
          BY <4>2, <5>1
        <5>. HIDE DEF g
        <5>3. f[n] = IF n = 0 THEN <<>>
                     ELSE IF list[n] = task THEN f[n - 1] ELSE Append(f[n - 1], list[n])
          BY <2>1, <5>1 DEF Leaves
        <5>. QED
          BY <5>1, <5>2, <5>3
      <4>. QED
        BY <4>1, <4>2
    <3>. HIDE DEF v
    <3>. QED
      BY <3>1 DEF Leaves
  <2>. QED
    BY <2>2
<1>3. N \in S
  <2>. HIDE DEF S
  <2>1. \A n \in Nat : n < N /\ n \in S => n + 1 \in S
    BY <1>2
  <2>2. \A n \in 0..N : n \in S
    BY <1>1, <2>1, CountUp
  <2>. QED
    BY <2>2
<1>4. PICK f : Leaves(f, list, task, N)
  BY <1>3
<1>. QED
  BY <1>4 DEF Leaves, Remains, Remaining

LEMMA OthersIs ==
  ASSUME NEW list \in Seq(Tasks), IsInjective(list), NEW task
  PROVE  /\ Others(list, task) \in Seq(Tasks) /\ IsInjective(Others(list, task))
         /\ ToSet(Others(list, task)) = ToSet(list) \ {task}
<1>. DEFINE N == Len(list)
            r == Remaining(list, task)
            Among(n) == {list[i] : i \in 1..n}
            Good(n) == /\ r[n] \in Seq(Tasks) /\ IsInjective(r[n])
                       /\ ToSet(r[n]) = Among(n) \ {task}
            S == {n \in Nat : n <= N => Good(n)}
<1>1. N \in Nat /\ DOMAIN list = 1..N /\ Remains(r, list, task)
  BY LenProperties, RemainingUnfold
<1>2. \A n \in 1..N : list[n] \in Tasks
  BY ElementOfSeq
<1>3. ToSet(list) = Among(N)
  BY <1>1 DEF ToSet
<1>. HIDE DEF N, r
<1>4. 0 \in S
  <2>1. r[0] = <<>>
    BY <1>1 DEF Remains, N
  <2>2. Among(0) = {}
    OBVIOUS
  <2>. QED
    BY <2>1, <2>2, NoTask
<1>5. ASSUME NEW n \in Nat, n \in S PROVE n + 1 \in S
  <2>1. SUFFICES ASSUME n + 1 <= N PROVE Good(n + 1)
    OBVIOUS
  <2>. DEFINE k == n + 1
              t == list[k]
              old == r[n]
  <2>2. Good(n) /\ k \in 0..N /\ k \in 1..N /\ k # 0 /\ k - 1 = n
    BY <1>1, <1>5, <2>1
  <2>3. Among(k) = Among(n) \cup {t}
    <3>1. \A i : i \in 1..k <=> i \in 1..n \/ i = k
      BY <1>5
    <3>. QED
      BY <3>1
  <2>4. t \notin Among(n)
    <3>1. \A i \in 1..n : i \in 1..N /\ i # k
      BY <1>1, <1>5, <2>1
    <3>2. \A i \in 1..n : list[i] # t
      BY <1>1, <2>2, <3>1 DEF IsInjective
    <3>. QED
      BY <3>2
  <2>. HIDE DEF k
  <2>5. r[k] = IF t = task THEN old ELSE Append(old, t)
    BY <1>1, <2>2 DEF Remains, N
  <2>6. t \in Tasks
    BY <1>2, <2>2
  <2>. HIDE DEF t, Among
  <2>7. old \in Seq(Tasks) /\ IsInjective(old) /\ ToSet(old) = Among(n) \ {task}
    BY <2>2
  <2>. HIDE DEF old
  <2>8. CASE t = task
    <3>1. r[k] = old /\ Among(k) \ {task} = Among(n) \ {task}
      BY <2>3, <2>5, <2>8
    <3>2. Good(k)
      BY <2>7, <3>1
    <3>. QED
      BY <3>2 DEF k
  <2>9. CASE t # task
    <3>. DEFINE new == Append(old, t)
    <3>1. new \in Seq(Tasks) /\ ToSet(new) = ToSet(old) \cup {t} /\ IsInjective(new)
      BY <2>4, <2>6, <2>7, AppendedTask
    <3>2. r[k] = new
      BY <2>5, <2>9
    <3>. HIDE DEF new
    <3>3. Good(k)
      BY <2>3, <2>7, <2>9, <3>1, <3>2
    <3>. QED
      BY <3>3 DEF k
  <2>. QED
    BY <2>8, <2>9
<1>6. N \in S
  <2>. HIDE DEF S
  <2>1. \A n \in Nat : n < N /\ n \in S => n + 1 \in S
    BY <1>5
  <2>2. \A n \in 0..N : n \in S
    BY <1>1, <1>4, <2>1, CountUp
  <2>. QED
    BY <1>1, <2>2
<1>7. Good(N)
  BY <1>1, <1>6
<1>. QED
  BY <1>3, <1>7 DEF Others, N, r

LEMMA FirstTask ==
  ASSUME NEW list \in Seq(Tasks), list # <<>>, IsInjective(list)
  PROVE  /\ Head(list) \in Tasks /\ Head(list) = list[1] /\ Head(list) \in ToSet(list)
         /\ Tail(list) \in Seq(Tasks) /\ IsInjective(Tail(list))
         /\ ToSet(Tail(list)) = ToSet(list) \ {Head(list)}
<1>. DEFINE rest == Tail(list)
            N == Len(list)
<1>1. /\ N \in Nat /\ N # 0 /\ DOMAIN list = 1..N /\ Head(list) = list[1] /\ list[1] \in Tasks
      /\ rest \in Seq(Tasks) /\ Len(rest) = N - 1 /\ DOMAIN rest = 1..(N - 1)
      /\ \A i \in 1..(N - 1) : rest[i] = list[i + 1]
  <2>1. N \in Nat /\ N # 0 /\ DOMAIN list = 1..N
    BY EmptySeq, LenProperties
  <2>2. 1 \in 1..N
    BY <2>1
  <2>. QED
    BY <2>1, <2>2, HeadTailProperties, ElementOfSeq, LenProperties
<1>. HIDE DEF rest, N
<1>2. \A i \in 1..(N - 1) : i + 1 \in 1..N /\ i + 1 # 1
  BY <1>1
<1>3. \A i \in 1..N : i = 1 \/ (i - 1 \in 1..(N - 1) /\ (i - 1) + 1 = i)
  BY <1>1
<1>4. \A i, j \in 1..N : list[i] = list[j] => i = j
  BY <1>1 DEF IsInjective
<1>5. 1 \in 1..N
  BY <1>1
<1>6. ToSet(rest) = ToSet(list) \ {list[1]}
  <2>1. ASSUME NEW x \in ToSet(rest) PROVE x \in ToSet(list) /\ x # list[1]
    <3>1. PICK i \in 1..(N - 1) : x = list[i + 1]
      BY <1>1 DEF ToSet
    <3>. QED
      BY <1>1, <1>2, <1>4, <1>5, <3>1 DEF ToSet
  <2>2. ASSUME NEW x \in ToSet(list), x # list[1] PROVE x \in ToSet(rest)
    <3>1. PICK i \in 1..N : x = list[i]
      BY <1>1 DEF ToSet
    <3>2. i - 1 \in 1..(N - 1) /\ rest[i - 1] = x
      BY <1>1, <1>3, <2>2, <3>1
    <3>. QED
      BY <1>1, <3>2 DEF ToSet
  <2>. QED
    BY <2>1, <2>2
<1>7. IsInjective(rest)
  <2>1. ASSUME NEW i \in 1..(N - 1), NEW j \in 1..(N - 1), rest[i] = rest[j] PROVE i = j
    <3>1. i + 1 = j + 1
      BY <1>1, <1>2, <1>4, <2>1
    <3>. QED
      BY <3>1
  <2>. QED
    BY <1>1, <2>1 DEF IsInjective
<1>8. Head(list) \in ToSet(list)
  BY <1>1, <1>5 DEF ToSet
<1>. QED
  BY <1>1, <1>6, <1>7, <1>8 DEF rest

LEMMA OneTask ==
  ASSUME NEW task \in Tasks
  PROVE  /\ <<task>> \in Seq(Tasks) /\ ToSet(<<task>>) = {task} /\ IsInjective(<<task>>)
         /\ Len(<<task>>) = 1 /\ <<task>>[1] = task /\ <<task>> # <<>>
<1>1. <<>> \in Seq(Tasks) /\ ToSet(<<>>) = {} /\ IsInjective(<<>>)
  BY NoTask
<1>2. <<task>> = Append(<<>>, task) /\ <<task>> # <<>> /\ Len(<<task>>) = 1 /\ <<task>>[1] = task
  OBVIOUS
<1>3. Append(<<>>, task) \in Seq(Tasks) /\ ToSet(Append(<<>>, task)) = {} \cup {task}
      /\ IsInjective(Append(<<>>, task))
  BY <1>1, AppendedTask
<1>. QED
  BY <1>1, <1>2, <1>3

\* The active list is empty, or of one task.
LEMMA ActiveIs ==
  ASSUME NEW lists, NEW e, ValidLists(lists, e)
  PROVE  \/ lists["active"] = <<>> /\ Mirror(lists) = Null
         \/ \E t \in Tasks : lists["active"] = <<t>> /\ Mirror(lists) = Str(t)
<1>. DEFINE l == lists["active"]
<1>1. l \in Seq(Tasks) /\ Len(l) <= 1
  BY DEF ValidLists, QueueKeys
<1>. HIDE DEF l
<1>2. CASE l = <<>>
  BY <1>2 DEF Mirror, l
<1>3. CASE l # <<>>
  <2>1. Len(l) = 1
    <3>1. Len(l) \in Nat \ {0}
      BY <1>1, <1>3, EmptySeq
    <3>. DEFINE n == Len(l)
    <3>2. n \in Nat /\ n # 0 /\ n <= 1
      BY <1>1, <3>1
    <3>. HIDE DEF n
    <3>3. n = 1
      BY <3>2
    <3>. QED
      BY <3>3 DEF n
  <2>2. l[1] \in Tasks
    BY <1>1, <2>1, ElementOfSeq
  <2>3. l = <<l[1]>>
    BY <1>1, <2>1
  <2>4. Mirror(lists) = Str(l[1])
    BY <1>3 DEF Mirror, l
  <2>5. \E t \in Tasks : l = <<t>> /\ Mirror(lists) = Str(t)
    BY <2>2, <2>3, <2>4
  <2>. QED
    BY <2>5 DEF l
<1>. QED
  BY <1>2, <1>3

\* What the writes of two and of three values store.
LEMMA ShownOne ==
  ASSUME NEW data, NEW w
  PROVE  Shown("relay", data, <<w>>) = Show("relay", data, w)
<1>. DEFINE ws == <<w>>
<1>1. Len(ws) = 1 /\ ws[1] = w
  OBVIOUS
<1>. HIDE DEF ws
<1>. DEFINE r == Shows("relay", data, ws)
<1>2. Stores(r, "relay", data, ws, 1)
  <2>1. Len(ws) \in Nat
    BY <1>1
  <2>2. Stores(r, "relay", data, ws, Len(ws))
    BY <2>1, ShowsUnfold
  <2>. QED
    BY <1>1, <2>2
<1>. HIDE DEF r
<1>3. r[0] = data /\ r[1] = Show("relay", r[1 - 1], ws[1])
  BY <1>2 DEF Stores
<1>4. 1 - 1 = 0
  OBVIOUS
<1>. QED
  BY <1>1, <1>3, <1>4 DEF Shown, r, ws

LEMMA ShownTwo ==
  ASSUME NEW data, NEW v, NEW w
  PROVE  Shown("relay", data, <<v, w>>) = Show("relay", Show("relay", data, v), w)
<1>. DEFINE ws == <<v, w>>
<1>1. Len(ws) = 2 /\ ws[1] = v /\ ws[2] = w
  OBVIOUS
<1>. HIDE DEF ws
<1>. DEFINE r == Shows("relay", data, ws)
<1>2. Stores(r, "relay", data, ws, 2)
  <2>1. Len(ws) \in Nat
    BY <1>1
  <2>2. Stores(r, "relay", data, ws, Len(ws))
    BY <2>1, ShowsUnfold
  <2>. QED
    BY <1>1, <2>2
<1>. HIDE DEF r
<1>3. r[0] = data /\ r[1] = Show("relay", r[1 - 1], ws[1]) /\ r[2] = Show("relay", r[2 - 1], ws[2])
  BY <1>2 DEF Stores
<1>4. 1 - 1 = 0 /\ 2 - 1 = 1
  OBVIOUS
<1>. QED
  BY <1>1, <1>3, <1>4 DEF Shown, r, ws

LEMMA ShownThree ==
  ASSUME NEW data, NEW u, NEW v, NEW w
  PROVE  Shown("relay", data, <<u, v, w>>) = Show("relay", Show("relay", Show("relay", data, u), v), w)
<1>. DEFINE ws == <<u, v, w>>
<1>1. Len(ws) = 3 /\ ws[1] = u /\ ws[2] = v /\ ws[3] = w
  OBVIOUS
<1>. HIDE DEF ws
<1>. DEFINE r == Shows("relay", data, ws)
<1>2. Stores(r, "relay", data, ws, 3)
  <2>1. Len(ws) \in Nat
    BY <1>1
  <2>2. Stores(r, "relay", data, ws, Len(ws))
    BY <2>1, ShowsUnfold
  <2>. QED
    BY <1>1, <2>2
<1>. HIDE DEF r
<1>3. r[0] = data /\ r[1] = Show("relay", r[1 - 1], ws[1]) /\ r[2] = Show("relay", r[2 - 1], ws[2])
      /\ r[3] = Show("relay", r[3 - 1], ws[3])
  BY <1>2 DEF Stores
<1>4. 1 - 1 = 0 /\ 2 - 1 = 1 /\ 3 - 1 = 2
  OBVIOUS
<1>. QED
  BY <1>1, <1>3, <1>4 DEF Shown, r, ws

\* The lists after each operation of the index.
LEMMA CompleteKeeps ==
  ASSUME NEW data, NEW lists, NEW e, ValidLists(lists, e), IndexOf(data, Mirror(lists), lists),
         NEW task \in Tasks, NEW more, e \subseteq more,
         task \in ToSet(lists["queued"]) \cup ToSet(lists["blocked"]) => task \in more
  PROVE  LET a == Write(<<"active_task">>,
                        IF Mirror(lists) = Str(task) THEN Null ELSE Mirror(lists))
             b == Write(<<"tasks", "active">>, List(Others(lists["active"], task)))
             c == Write(<<"tasks", "completed">>, List(AlsoIn(lists["completed"], task)))
         IN IndexInv(Shown("relay", data, <<a, b, c>>), more)
<1>. DEFINE mirror == IF Mirror(lists) = Str(task) THEN Null ELSE Mirror(lists)
            active == Others(lists["active"], task)
            completed == AlsoIn(lists["completed"], task)
            first == [lists EXCEPT !["active"] = active]
            new == [first EXCEPT !["completed"] = completed]
            a == Write(<<"active_task">>, mirror)
            b == Write(<<"tasks", "active">>, List(active))
            c == Write(<<"tasks", "completed">>, List(completed))
            d == Shown("relay", data, <<a, b, c>>)
<1>1. /\ QueueKeys = {"active", "queued", "blocked", "completed"}
      /\ lists \in [QueueKeys -> Seq(Tasks)]
      /\ \A key \in QueueKeys : IsInjective(lists[key])
      /\ Apart(lists, e) /\ Len(lists["active"]) <= 1
  BY DEF ValidLists, QueueKeys
<1>2. /\ active \in Seq(Tasks) /\ IsInjective(active) /\ Len(active) <= 1
      /\ ToSet(active) = ToSet(lists["active"]) \ {task}
      /\ mirror = IF active = <<>> THEN Null ELSE Str(active[1])
  <2>1. CASE lists["active"] = <<>> /\ Mirror(lists) = Null
    <3>1. active = <<>>
      BY <2>1, OthersAre
    <3>2. mirror = Null
      BY <2>1
    <3>. HIDE DEF active, mirror
    <3>. QED
      BY <2>1, <3>1, <3>2, NoTask
  <2>2. ASSUME NEW t \in Tasks, lists["active"] = <<t>>, Mirror(lists) = Str(t)
        PROVE  /\ active \in Seq(Tasks) /\ IsInjective(active) /\ Len(active) <= 1
               /\ ToSet(active) = ToSet(lists["active"]) \ {task}
               /\ mirror = IF active = <<>> THEN Null ELSE Str(active[1])
    <3>1. active = IF t = task THEN <<>> ELSE <<t>>
      BY <2>2, OthersAre
    <3>2. mirror = IF t = task THEN Null ELSE Str(t)
      <4>1. Str(t) = Str(task) => t = task
        BY DEF Str, Value
      <4>. QED
        BY <2>2, <4>1
    <3>3. ToSet(lists["active"]) = {t}
      BY <2>2, OneTask
    <3>. HIDE DEF active, mirror
    <3>4. CASE t = task
      BY <3>1, <3>2, <3>3, <3>4, NoTask
    <3>5. CASE t # task
      BY <3>1, <3>2, <3>3, <3>5, OneTask
    <3>. QED
      BY <3>4, <3>5
  <2>. HIDE DEF active, mirror
  <2>. QED
    BY <2>1, <2>2, ActiveIs
<1>14. Understood("relay", mirror) = mirror
  <2>1. mirror = Null \/ \E t \in Tasks : mirror = Str(t)
    BY ActiveIs
  <2>. HIDE DEF mirror
  <2>. QED
    BY <2>1, TaskUnderstood
<1>3. /\ completed \in Seq(Tasks) /\ IsInjective(completed)
      /\ ToSet(completed) = ToSet(lists["completed"]) \cup {task}
  <2>. DEFINE l == lists["completed"]
  <2>1. l \in Seq(Tasks) /\ IsInjective(l)
    BY <1>1
  <2>2. completed = IF task \in ToSet(l) THEN l ELSE Append(l, task)
    BY DEF AlsoIn
  <2>. HIDE DEF l, completed
  <2>3. CASE task \in ToSet(l)
    BY <2>1, <2>2, <2>3 DEF l
  <2>4. CASE task \notin ToSet(l)
    BY <2>1, <2>2, <2>4, AppendedTask DEF l
  <2>. QED
    BY <2>3, <2>4
<1>. HIDE DEF active, completed, mirror
<1>4. IndexOf(Show("relay", data, a), mirror, lists)
  BY <1>14, MirrorIsPut
<1>5. /\ IndexOf(Show("relay", Show("relay", data, a), b), mirror, first)
      /\ first \in [QueueKeys -> Seq(Tasks)]
  <2>1. "active" \in QueueKeys
    BY <1>1
  <2>. HIDE DEF a
  <2>. QED
    BY <1>1, <1>2, <1>4, <2>1, ListIsPut
<1>. HIDE DEF first
<1>6. /\ IndexOf(Show("relay", Show("relay", Show("relay", data, a), b), c), mirror, new)
      /\ new \in [QueueKeys -> Seq(Tasks)]
  <2>1. "completed" \in QueueKeys
    BY <1>1
  <2>. HIDE DEF a, b
  <2>. QED
    BY <1>3, <1>5, <2>1, ListIsPut
<1>7. IndexOf(d, mirror, new)
  <2>. HIDE DEF a, b, c
  <2>. QED
    BY <1>6, ShownThree
<1>8. /\ new["active"] = active /\ new["completed"] = completed
      /\ new["queued"] = lists["queued"] /\ new["blocked"] = lists["blocked"]
  BY <1>1, <1>5 DEF first
<1>. HIDE DEF new, d
<1>10. Apart(new, more)
  <2>. DEFINE A == ToSet(lists["active"])
              Q == ToSet(lists["queued"])
              B == ToSet(lists["blocked"])
              C == ToSet(lists["completed"])
  <2>1. /\ A \cap C \subseteq e /\ C \cap Q \subseteq e /\ C \cap B \subseteq e
        /\ A \cap Q = {} /\ A \cap B = {} /\ Q \cap B = {}
    BY <1>1, PairwiseApart
  <2>2. /\ ToSet(new["active"]) = A \ {task} /\ ToSet(new["completed"]) = C \cup {task}
        /\ ToSet(new["queued"]) = Q /\ ToSet(new["blocked"]) = B
    BY <1>2, <1>3, <1>8
  <2>3. task \in Q \cup B => task \in more
    OBVIOUS
  <2>. HIDE DEF A, Q, B, C
  <2>4. /\ ToSet(new["active"]) \cap ToSet(new["completed"]) \subseteq more
        /\ ToSet(new["completed"]) \cap ToSet(new["queued"]) \subseteq more
        /\ ToSet(new["completed"]) \cap ToSet(new["blocked"]) \subseteq more
    BY <2>1, <2>2, <2>3
  <2>5. /\ ToSet(new["active"]) \cap ToSet(new["queued"]) = {}
        /\ ToSet(new["active"]) \cap ToSet(new["blocked"]) = {}
        /\ ToSet(new["queued"]) \cap ToSet(new["blocked"]) = {}
    BY <2>1, <2>2
  <2>. QED
    BY <2>4, <2>5, PairwiseApart
<1>11. ValidLists(new, more)
  BY <1>1, <1>2, <1>3, <1>6, <1>8, <1>10 DEF ValidLists
<1>12. mirror = Mirror(new)
  BY <1>2, <1>8 DEF Mirror
<1>13. IndexInv(d, more)
  BY <1>7, <1>11, <1>12 DEF IndexInv
<1>. QED
  BY <1>13 DEF d, mirror, active, completed

LEMMA ActivateKeeps ==
  ASSUME NEW data, NEW lists, NEW e, ValidLists(lists, e), IndexOf(data, Mirror(lists), lists),
         lists["active"] = <<>>, lists["queued"] # <<>>
  PROVE  LET q == lists["queued"]
             a == Write(<<"tasks", "active">>, List(<<Head(q)>>))
             b == Write(<<"tasks", "queued">>, List(Tail(q)))
             c == Write(<<"active_task">>, Str(Head(q)))
         IN IndexInv(Shown("relay", data, <<a, b, c>>), e)
<1>. DEFINE q == lists["queued"]
            task == Head(q)
            rest == Tail(q)
            one == <<task>>
            first == [lists EXCEPT !["active"] = one]
            new == [first EXCEPT !["queued"] = rest]
            a == Write(<<"tasks", "active">>, List(one))
            b == Write(<<"tasks", "queued">>, List(rest))
            c == Write(<<"active_task">>, Str(task))
            d == Shown("relay", data, <<a, b, c>>)
<1>1. /\ QueueKeys = {"active", "queued", "blocked", "completed"}
      /\ lists \in [QueueKeys -> Seq(Tasks)]
      /\ \A key \in QueueKeys : IsInjective(lists[key])
      /\ Apart(lists, e)
  BY DEF ValidLists, QueueKeys
<1>2. /\ task \in Tasks /\ task \in ToSet(q) /\ rest \in Seq(Tasks) /\ IsInjective(rest)
      /\ ToSet(rest) = ToSet(q) \ {task}
  <2>1. q \in Seq(Tasks) /\ q # <<>> /\ IsInjective(q)
    BY <1>1
  <2>. HIDE DEF q
  <2>. QED
    BY <2>1, FirstTask
<1>. HIDE DEF task, rest
<1>3. /\ one \in Seq(Tasks) /\ ToSet(one) = {task} /\ IsInjective(one)
      /\ Len(one) = 1 /\ one[1] = task /\ one # <<>>
  BY <1>2, OneTask
<1>. HIDE DEF one
<1>4. IndexOf(Show("relay", data, a), Mirror(lists), first) /\ first \in [QueueKeys -> Seq(Tasks)]
  <2>1. "active" \in QueueKeys
    BY <1>1
  <2>. QED
    BY <1>1, <1>3, <2>1, ListIsPut
<1>8. \A key \in QueueKeys : first[key] = IF key = "active" THEN one ELSE lists[key]
  BY <1>1
<1>. HIDE DEF first
<1>5. /\ IndexOf(Show("relay", Show("relay", data, a), b), Mirror(lists), new)
      /\ new \in [QueueKeys -> Seq(Tasks)]
  <2>1. "queued" \in QueueKeys
    BY <1>1
  <2>. HIDE DEF a
  <2>. QED
    BY <1>2, <1>4, <2>1, ListIsPut
<1>6. IndexOf(Show("relay", Show("relay", Show("relay", data, a), b), c), Str(task), new)
  <2>. HIDE DEF a, b, new
  <2>. QED
    BY <1>2, <1>5, TaskUnderstood, MirrorIsPut
<1>7. IndexOf(d, Str(task), new)
  <2>. HIDE DEF a, b, c
  <2>. QED
    BY <1>6, ShownThree
<1>9. /\ new["active"] = one /\ new["queued"] = rest
      /\ new["completed"] = lists["completed"] /\ new["blocked"] = lists["blocked"]
  BY <1>1, <1>4, <1>8
<1>. HIDE DEF new, d
<1>10. Apart(new, e)
  <2>. DEFINE Q == ToSet(q)
              B == ToSet(lists["blocked"])
              C == ToSet(lists["completed"])
  <2>1. C \cap Q \subseteq e /\ C \cap B \subseteq e /\ Q \cap B = {} /\ task \in Q
    BY <1>1, <1>2, PairwiseApart
  <2>2. /\ ToSet(new["active"]) = {task} /\ ToSet(new["queued"]) = Q \ {task}
        /\ ToSet(new["completed"]) = C /\ ToSet(new["blocked"]) = B
    BY <1>2, <1>3, <1>9
  <2>. HIDE DEF q, Q, B, C
  <2>3. /\ ToSet(new["active"]) \cap ToSet(new["completed"]) \subseteq e
        /\ ToSet(new["completed"]) \cap ToSet(new["queued"]) \subseteq e
        /\ ToSet(new["completed"]) \cap ToSet(new["blocked"]) \subseteq e
    BY <2>1, <2>2
  <2>4. /\ ToSet(new["active"]) \cap ToSet(new["queued"]) = {}
        /\ ToSet(new["active"]) \cap ToSet(new["blocked"]) = {}
        /\ ToSet(new["queued"]) \cap ToSet(new["blocked"]) = {}
    BY <2>1, <2>2
  <2>. QED
    BY <2>3, <2>4, PairwiseApart
<1>11. ValidLists(new, e)
  <2>1. \A key \in QueueKeys : IsInjective(new[key])
    BY <1>1, <1>2, <1>3, <1>9
  <2>2. Len(new["active"]) <= 1
    <3>1. Len(new["active"]) = 1
      BY <1>3, <1>9
    <3>. QED
      BY <3>1
  <2>. QED
    BY <1>5, <1>10, <2>1, <2>2 DEF ValidLists
<1>12. Str(task) = Mirror(new)
  BY <1>3, <1>9 DEF Mirror
<1>13. IndexInv(d, e)
  BY <1>7, <1>11, <1>12 DEF IndexInv
<1>. QED
  BY <1>13 DEF d, task, rest, one

LEMMA EnlistKeeps ==
  ASSUME NEW data, NEW lists, NEW e, ValidLists(lists, e), IndexOf(data, Mirror(lists), lists),
         NEW task \in Tasks, \A key \in QueueKeys : task \notin ToSet(lists[key])
  PROVE  IndexInv(Shown("relay", data,
           IF lists["active"] = <<>>
           THEN <<Write(<<"active_task">>, Str(task)), Write(<<"tasks", "active">>, List(<<task>>))>>
           ELSE <<Write(<<"tasks", "queued">>, List(Append(lists["queued"], task)))>>), e)
<1>1. /\ QueueKeys = {"active", "queued", "blocked", "completed"}
      /\ lists \in [QueueKeys -> Seq(Tasks)]
      /\ \A key \in QueueKeys : IsInjective(lists[key])
      /\ Apart(lists, e) /\ Len(lists["active"]) <= 1
  BY DEF ValidLists, QueueKeys
<1>2. CASE lists["active"] = <<>>
  <2>. DEFINE one == <<task>>
              new == [lists EXCEPT !["active"] = one]
              a == Write(<<"active_task">>, Str(task))
              b == Write(<<"tasks", "active">>, List(one))
              d == Shown("relay", data, <<a, b>>)
  <2>3. /\ one \in Seq(Tasks) /\ ToSet(one) = {task} /\ IsInjective(one)
        /\ Len(one) = 1 /\ one[1] = task /\ one # <<>>
    BY OneTask
  <2>. HIDE DEF one
  <2>4. IndexOf(Show("relay", data, a), Str(task), lists)
    BY TaskUnderstood, MirrorIsPut
  <2>5. /\ IndexOf(Show("relay", Show("relay", data, a), b), Str(task), new)
        /\ new \in [QueueKeys -> Seq(Tasks)]
    <3>1. "active" \in QueueKeys
      BY <1>1
    <3>. HIDE DEF a
    <3>. QED
      BY <1>1, <2>3, <2>4, <3>1, ListIsPut
  <2>6. IndexOf(d, Str(task), new)
    <3>. HIDE DEF a, b, new
    <3>. QED
      BY <2>5, ShownTwo
  <2>7. /\ new["active"] = one /\ new["queued"] = lists["queued"]
        /\ new["completed"] = lists["completed"] /\ new["blocked"] = lists["blocked"]
    BY <1>1
  <2>. HIDE DEF new, d
  <2>8. Apart(new, e)
    <3>1. task \notin ToSet(lists["completed"]) /\ task \notin ToSet(lists["queued"])
          /\ task \notin ToSet(lists["blocked"])
      BY <1>1
    <3>. QED
      BY <1>1, <2>3, <2>7, <3>1, PairwiseApart
  <2>9. ValidLists(new, e)
    <3>1. \A key \in QueueKeys : IsInjective(new[key])
      BY <1>1, <2>3, <2>7
    <3>2. Len(new["active"]) <= 1
      <4>1. Len(new["active"]) = 1
        BY <2>3, <2>7
      <4>. QED
        BY <4>1
    <3>. QED
      BY <2>5, <2>8, <3>1, <3>2 DEF ValidLists
  <2>10. Str(task) = Mirror(new)
    BY <2>3, <2>7 DEF Mirror
  <2>11. IndexInv(d, e)
    BY <2>6, <2>9, <2>10 DEF IndexInv
  <2>. QED
    BY <1>2, <2>11 DEF d, one
<1>3. CASE lists["active"] # <<>>
  <2>. DEFINE list == Append(lists["queued"], task)
              new == [lists EXCEPT !["queued"] = list]
              a == Write(<<"tasks", "queued">>, List(list))
              d == Shown("relay", data, <<a>>)
  <2>3. list \in Seq(Tasks) /\ ToSet(list) = ToSet(lists["queued"]) \cup {task} /\ IsInjective(list)
    <3>. DEFINE q == lists["queued"]
    <3>1. q \in Seq(Tasks) /\ IsInjective(q) /\ task \notin ToSet(q)
      BY <1>1
    <3>. HIDE DEF q
    <3>2. Append(q, task) \in Seq(Tasks) /\ ToSet(Append(q, task)) = ToSet(q) \cup {task}
          /\ IsInjective(Append(q, task))
      BY <3>1, AppendedTask
    <3>. QED
      BY <3>2 DEF q
  <2>. HIDE DEF list
  <2>5. IndexOf(Show("relay", data, a), Mirror(lists), new) /\ new \in [QueueKeys -> Seq(Tasks)]
    <3>1. "queued" \in QueueKeys
      BY <1>1
    <3>. QED
      BY <1>1, <2>3, <3>1, ListIsPut
  <2>6. IndexOf(d, Mirror(lists), new)
    <3>. HIDE DEF a, new
    <3>. QED
      BY <2>5, ShownOne
  <2>7. /\ new["active"] = lists["active"] /\ new["queued"] = list
        /\ new["completed"] = lists["completed"] /\ new["blocked"] = lists["blocked"]
    BY <1>1
  <2>. HIDE DEF new, d
  <2>8. Apart(new, e)
    <3>1. task \notin ToSet(lists["completed"]) /\ task \notin ToSet(lists["active"])
          /\ task \notin ToSet(lists["blocked"])
      BY <1>1
    <3>. QED
      BY <1>1, <2>3, <2>7, <3>1, PairwiseApart
  <2>9. ValidLists(new, e)
    BY <1>1, <2>3, <2>5, <2>7, <2>8 DEF ValidLists
  <2>10. Mirror(lists) = Mirror(new)
    BY <2>7 DEF Mirror
  <2>11. IndexInv(d, e)
    BY <2>6, <2>9, <2>10 DEF IndexInv
  <2>. QED
    BY <1>3, <2>11 DEF d, list
<1>. QED
  BY <1>2, <1>3

\* The active task is put into the queue, or among the blocked tasks.
LEMMA SwitchKeeps ==
  ASSUME NEW data, NEW lists, NEW e, ValidLists(lists, e), IndexOf(data, Mirror(lists), lists),
         lists["active"] # <<>>, NEW key \in {"queued", "blocked"}
  PROVE  LET a == Write(<<"tasks", "active">>, List(<<>>))
             b == Write(<<"tasks", key>>, List(Append(lists[key], Head(lists["active"]))))
             c == Write(<<"active_task">>, Null)
         IN /\ IndexInv(Shown("relay", data, <<a, b, c>>), e)
            /\ Append(lists[key], Head(lists["active"])) \in Seq(Tasks)
<1>. DEFINE task == Head(lists["active"])
            none == <<>>
            list == Append(lists[key], task)
            first == [lists EXCEPT !["active"] = none]
            new == [first EXCEPT ![key] = list]
            a == Write(<<"tasks", "active">>, List(none))
            b == Write(<<"tasks", key>>, List(list))
            c == Write(<<"active_task">>, Null)
            d == Shown("relay", data, <<a, b, c>>)
<1>1. /\ QueueKeys = {"active", "queued", "blocked", "completed"}
      /\ lists \in [QueueKeys -> Seq(Tasks)]
      /\ \A k \in QueueKeys : IsInjective(lists[k])
      /\ Apart(lists, e)
  BY DEF ValidLists, QueueKeys
<1>2. task \in Tasks /\ ToSet(lists["active"]) = {task}
  <2>1. PICK t \in Tasks : lists["active"] = <<t>>
    BY ActiveIs
  <2>2. ToSet(<<t>>) = {t} /\ Head(<<t>>) = t
    BY OneTask
  <2>. QED
    BY <2>1, <2>2
<1>. HIDE DEF task
<1>3. none \in Seq(Tasks) /\ ToSet(none) = {} /\ IsInjective(none) /\ Len(none) = 0 /\ none = <<>>
  BY NoTask
<1>4. list \in Seq(Tasks) /\ ToSet(list) = ToSet(lists[key]) \cup {task} /\ IsInjective(list)
  <2>. DEFINE q == lists[key]
  <2>1. q \in Seq(Tasks) /\ IsInjective(q)
    BY <1>1
  <2>2. task \notin ToSet(q)
    <3>1. /\ ToSet(lists["active"]) \cap ToSet(lists["queued"]) = {}
          /\ ToSet(lists["active"]) \cap ToSet(lists["blocked"]) = {}
      BY <1>1, PairwiseApart
    <3>. QED
      BY <1>2, <3>1
  <2>. HIDE DEF q
  <2>3. Append(q, task) \in Seq(Tasks) /\ ToSet(Append(q, task)) = ToSet(q) \cup {task}
        /\ IsInjective(Append(q, task))
    BY <1>2, <2>1, <2>2, AppendedTask
  <2>. QED
    BY <2>3 DEF q
<1>. HIDE DEF none, list
<1>5. IndexOf(Show("relay", data, a), Mirror(lists), first) /\ first \in [QueueKeys -> Seq(Tasks)]
  <2>1. "active" \in QueueKeys
    BY <1>1
  <2>. QED
    BY <1>1, <1>3, <2>1, ListIsPut
<1>6. \A k \in QueueKeys : first[k] = IF k = "active" THEN none ELSE lists[k]
  BY <1>1
<1>. HIDE DEF first
<1>7. /\ IndexOf(Show("relay", Show("relay", data, a), b), Mirror(lists), new)
      /\ new \in [QueueKeys -> Seq(Tasks)]
  <2>1. key \in QueueKeys
    BY <1>1
  <2>. HIDE DEF a
  <2>. QED
    BY <1>4, <1>5, <2>1, ListIsPut
<1>8. IndexOf(Show("relay", Show("relay", Show("relay", data, a), b), c), Null, new)
  <2>. HIDE DEF a, b, new
  <2>. QED
    BY <1>7, TaskUnderstood, MirrorIsPut
<1>9. IndexOf(d, Null, new)
  <2>. HIDE DEF a, b, c
  <2>. QED
    BY <1>8, ShownThree
<1>10. /\ new["active"] = none
       /\ \A k \in QueueKeys \ {"active"} : new[k] = IF k = key THEN list ELSE lists[k]
  BY <1>1, <1>5, <1>6
<1>. HIDE DEF new, d
<1>11. Apart(new, e)
  <2>. DEFINE Q == ToSet(lists["queued"])
              B == ToSet(lists["blocked"])
              C == ToSet(lists["completed"])
  <2>1. /\ C \cap Q \subseteq e /\ C \cap B \subseteq e /\ Q \cap B = {}
        /\ task \notin Q /\ task \notin B /\ (task \in C => task \in e)
    <3>1. /\ {task} \cap C \subseteq e /\ {task} \cap Q = {} /\ {task} \cap B = {}
          /\ C \cap Q \subseteq e /\ C \cap B \subseteq e /\ Q \cap B = {}
      BY <1>1, <1>2, PairwiseApart
    <3>. HIDE DEF Q, B, C
    <3>. QED
      BY <3>1
  <2>2. /\ ToSet(new["active"]) = {} /\ ToSet(new["completed"]) = C
        /\ ToSet(new["queued"]) = IF key = "queued" THEN Q \cup {task} ELSE Q
        /\ ToSet(new["blocked"]) = IF key = "blocked" THEN B \cup {task} ELSE B
    BY <1>1, <1>3, <1>4, <1>10
  <2>. HIDE DEF Q, B, C
  <2>3. /\ ToSet(new["active"]) \cap ToSet(new["completed"]) \subseteq e
        /\ ToSet(new["completed"]) \cap ToSet(new["queued"]) \subseteq e
        /\ ToSet(new["completed"]) \cap ToSet(new["blocked"]) \subseteq e
    BY <2>1, <2>2
  <2>4. /\ ToSet(new["active"]) \cap ToSet(new["queued"]) = {}
        /\ ToSet(new["active"]) \cap ToSet(new["blocked"]) = {}
        /\ ToSet(new["queued"]) \cap ToSet(new["blocked"]) = {}
    BY <2>1, <2>2
  <2>. QED
    BY <2>3, <2>4, PairwiseApart
<1>12. ValidLists(new, e)
  <2>1. \A k \in QueueKeys : IsInjective(new[k])
    BY <1>1, <1>3, <1>4, <1>10
  <2>2. Len(new["active"]) <= 1
    <3>1. Len(new["active"]) = 0
      BY <1>3, <1>10
    <3>. QED
      BY <3>1
  <2>. QED
    BY <1>7, <1>11, <2>1, <2>2 DEF ValidLists
<1>13. Null = Mirror(new)
  BY <1>3, <1>10 DEF Mirror
<1>14. IndexInv(d, e)
  BY <1>9, <1>12, <1>13 DEF IndexInv
<1>. QED
  BY <1>4, <1>14 DEF d, none, list, task

\* A blocked task goes back into the queue.
LEMMA UnblockKeeps ==
  ASSUME NEW data, NEW lists, NEW e, ValidLists(lists, e), IndexOf(data, Mirror(lists), lists),
         NEW task \in Tasks, task \in ToSet(lists["blocked"])
  PROVE  LET a == Write(<<"tasks", "blocked">>, List(Others(lists["blocked"], task)))
             b == Write(<<"tasks", "queued">>, List(Append(lists["queued"], task)))
         IN IndexInv(Shown("relay", data, <<a, b>>), e)
<1>. DEFINE rest == Others(lists["blocked"], task)
            list == Append(lists["queued"], task)
            first == [lists EXCEPT !["blocked"] = rest]
            new == [first EXCEPT !["queued"] = list]
            a == Write(<<"tasks", "blocked">>, List(rest))
            b == Write(<<"tasks", "queued">>, List(list))
            d == Shown("relay", data, <<a, b>>)
            A == ToSet(lists["active"])
            Q == ToSet(lists["queued"])
            B == ToSet(lists["blocked"])
            C == ToSet(lists["completed"])
<1>1. /\ QueueKeys = {"active", "queued", "blocked", "completed"}
      /\ lists \in [QueueKeys -> Seq(Tasks)]
      /\ \A k \in QueueKeys : IsInjective(lists[k])
      /\ Apart(lists, e) /\ Len(lists["active"]) <= 1
  BY DEF ValidLists, QueueKeys
<1>2. /\ A \cap C \subseteq e /\ C \cap Q \subseteq e /\ C \cap B \subseteq e
      /\ A \cap Q = {} /\ A \cap B = {} /\ Q \cap B = {} /\ task \in B
  BY <1>1, PairwiseApart
<1>3. rest \in Seq(Tasks) /\ IsInjective(rest) /\ ToSet(rest) = B \ {task}
  <2>. DEFINE l == lists["blocked"]
  <2>1. l \in Seq(Tasks) /\ IsInjective(l)
    BY <1>1
  <2>. HIDE DEF l
  <2>2. Others(l, task) \in Seq(Tasks) /\ IsInjective(Others(l, task))
        /\ ToSet(Others(l, task)) = ToSet(l) \ {task}
    BY <2>1, OthersIs
  <2>. QED
    BY <2>2 DEF l
<1>4. list \in Seq(Tasks) /\ IsInjective(list) /\ ToSet(list) = Q \cup {task}
  <2>. DEFINE q == lists["queued"]
  <2>1. q \in Seq(Tasks) /\ IsInjective(q) /\ task \notin ToSet(q)
    <3>1. task \notin Q
      BY <1>2
    <3>. QED
      BY <1>1, <3>1
  <2>. HIDE DEF q
  <2>2. Append(q, task) \in Seq(Tasks) /\ ToSet(Append(q, task)) = ToSet(q) \cup {task}
        /\ IsInjective(Append(q, task))
    BY <2>1, AppendedTask
  <2>. QED
    BY <2>2 DEF q
<1>. HIDE DEF rest, list
<1>5. IndexOf(Show("relay", data, a), Mirror(lists), first) /\ first \in [QueueKeys -> Seq(Tasks)]
  <2>1. "blocked" \in QueueKeys
    BY <1>1
  <2>. QED
    BY <1>1, <1>3, <2>1, ListIsPut
<1>6. \A k \in QueueKeys : first[k] = IF k = "blocked" THEN rest ELSE lists[k]
  BY <1>1
<1>. HIDE DEF first
<1>7. /\ IndexOf(Show("relay", Show("relay", data, a), b), Mirror(lists), new)
      /\ new \in [QueueKeys -> Seq(Tasks)]
  <2>1. "queued" \in QueueKeys
    BY <1>1
  <2>. HIDE DEF a
  <2>. QED
    BY <1>4, <1>5, <2>1, ListIsPut
<1>8. IndexOf(d, Mirror(lists), new)
  <2>. HIDE DEF a, b
  <2>. QED
    BY <1>7, ShownTwo
<1>9. /\ new["active"] = lists["active"] /\ new["queued"] = list
      /\ new["completed"] = lists["completed"] /\ new["blocked"] = rest
  BY <1>1, <1>5, <1>6
<1>. HIDE DEF new, d
<1>10. Apart(new, e)
  <2>1. /\ ToSet(new["active"]) = A /\ ToSet(new["completed"]) = C
        /\ ToSet(new["queued"]) = Q \cup {task} /\ ToSet(new["blocked"]) = B \ {task}
    BY <1>3, <1>4, <1>9
  <2>. HIDE DEF A, Q, B, C
  <2>2. /\ ToSet(new["active"]) \cap ToSet(new["completed"]) \subseteq e
        /\ ToSet(new["completed"]) \cap ToSet(new["queued"]) \subseteq e
        /\ ToSet(new["completed"]) \cap ToSet(new["blocked"]) \subseteq e
    BY <1>2, <2>1
  <2>3. /\ ToSet(new["active"]) \cap ToSet(new["queued"]) = {}
        /\ ToSet(new["active"]) \cap ToSet(new["blocked"]) = {}
        /\ ToSet(new["queued"]) \cap ToSet(new["blocked"]) = {}
    BY <1>2, <2>1
  <2>. QED
    BY <2>2, <2>3, PairwiseApart
<1>11. ValidLists(new, e)
  BY <1>1, <1>3, <1>4, <1>7, <1>9, <1>10 DEF ValidLists
<1>12. Mirror(lists) = Mirror(new)
  BY <1>9 DEF Mirror
<1>13. IndexInv(d, e)
  BY <1>8, <1>11, <1>12 DEF IndexInv
<1>. QED
  BY <1>13 DEF d, rest, list

\* A write of other keys leaves the index as it is.
LEMMA OthersKeep ==
  ASSUME NEW hand, NEW data, NEW e, IndexInv(data, e), NEW writes, Len(writes) \in Nat,
         \A i \in 1..Len(writes) : writes[i].path[1] \notin {"active_task", "tasks"}
  PROVE  IndexInv(Shown(hand, data, writes), e)
<1>. DEFINE d == Shown(hand, data, writes)
            N == Len(writes)
<1>1. PICK lists : ValidLists(lists, e) /\ IndexOf(data, Mirror(lists), lists)
  BY DEF IndexInv
<1>2. Shows(hand, data, writes)[0] = data
  BY ShowsUnfold DEF Stores
<1>3. ASSUME NEW p, p[1] \in {"active_task", "tasks"}, p \in DOMAIN data
      PROVE  p \in DOMAIN d /\ d[p] = data[p]
  <2>1. 0 \in 0..N /\ N \in 0..N
    OBVIOUS
  <2>2. \A i \in (0 + 1)..N : writes[i].path[1] # p[1]
    BY <1>3
  <2>. DEFINE f == Shows(hand, data, writes)
  <2>3. p \in DOMAIN f[0] => p \in DOMAIN f[N] /\ f[N][p] = f[0][p]
    BY <2>1, <2>2, ShowsKeep
  <2>. QED
    BY <1>2, <1>3, <2>3 DEF Shown
<1>4. /\ MirrorPath[1] = "active_task" /\ KeyPath("tasks")[1] = "tasks"
      /\ \A key : TasksPath(key)[1] = "tasks"
  BY PathsAre DEF MirrorPath, TasksPath
<1>. HIDE DEF d
<1>5. IndexOf(d, Mirror(lists), lists)
  <2>1. HasSection(d, "tasks") /\ MirrorPath \in DOMAIN d /\ d[MirrorPath] = Mirror(lists)
    BY <1>1, <1>3, <1>4 DEF IndexOf, HasSection
  <2>2. ASSUME NEW key \in QueueKeys
        PROVE  TasksPath(key) \in DOMAIN d /\ d[TasksPath(key)] = List(lists[key])
    <3>1. TasksPath(key) \in DOMAIN data /\ data[TasksPath(key)] = List(lists[key])
      BY <1>1 DEF IndexOf
    <3>. QED
      BY <1>3, <1>4, <3>1
  <2>. QED
    BY <2>1, <2>2 DEF IndexOf
<1>6. IndexInv(d, e)
  BY <1>1, <1>5 DEF IndexInv
<1>. QED
  BY <1>6 DEF d

---------------------------------------------------------------------------
(* The invariant.                                                          *)

\* The parser reads what was meant; a document that may be written again has its
\* shape; the index is valid.
DocumentInv ==
  /\ kind \in DOMAIN Templates
  /\ ReadsBack
  /\ ~Reported => Shape(doc, Plain[kind], Sections[kind]) /\ Heads(record, Sections[kind])
  /\ kind = "index" => IndexInv(Reads, early)

LEMMA TemplateShape ==
  ASSUME NEW ls, NEW R, NEW H, IsTemplate(ls, R, H), Nothing \notin H
  PROVE  Shape(ls, R, H)
<1>1. ls \in Seq(ToSet(ls)) /\ DOMAIN ls = 1..Len(ls)
  BY LenProperties DEF IsTemplate
<1>2. Len(ls) \in Nat
  BY <1>1, LenProperties
<1>3. \A i \in 1..Len(ls) :
        /\ ls[i].level \in {"header", "root", "nested", "remark"}
        /\ ls[i].level = "root" => ls[i].key \in R
        /\ ls[i].level = "header" => ls[i].key \in H
        /\ ls[i].level = "nested" => i > 1 /\ ls[i - 1].level \in {"header", "nested"}
  BY <1>1 DEF IsTemplate
<1>4. ASSUME NEW i \in 1..Len(ls), NEW j \in 1..Len(ls), i < j, AtRoot(ls[i]), AtRoot(ls[j]),
             ls[i].key = ls[j].key
      PROVE  FALSE
  <2>1. i = j
    BY <1>1, <1>4 DEF IsTemplate, AtRoot
  <2>. QED
    BY <1>2, <1>4, <2>1
<1>. QED
  BY <1>1, <1>3, <1>4 DEF Shape

\* A key that may head a section is read as a section, and no other is.
LEMMA SectionsAreRead ==
  ASSUME NEW ls, NEW R, NEW H, Shape(ls, R, H), R \cap H = {}
  PROVE  LET data == DataAt(ls, Len(ls))
         IN /\ \A k \in H : KeyPath(k) \in DOMAIN data => data[KeyPath(k)] = Mapping
            /\ \A k : k \notin H => ~HasSection(data, k)
<1>. DEFINE n == Len(ls)
            data == DataAt(ls, n)
<1>1. n \in Nat /\ n \in 0..n
  BY ParseIs
<1>2. \A i \in 1..n : /\ ls[i].level = "root" => ls[i].key \in R
                      /\ ls[i].level = "header" => ls[i].key \in H
  BY DEF Shape
<1>3. ASSUME NEW k \in H, KeyPath(k) \in DOMAIN data PROVE data[KeyPath(k)] = Mapping
  <2>1. PICK i \in 1..n : AtRoot(ls[i]) /\ ls[i].key = KeyPath(k)[1]
    BY <1>1, <1>3, KeysAreRead
  <2>2. KeyPath(k)[1] = k
    BY PathsAre
  <2>3. HeadOf(ls[i], k)
    BY <1>2, <2>1, <2>2 DEF AtRoot, HeadOf
  <2>4. HasSection(data, k)
    BY <1>1, <2>3, HeadsAreRead
  <2>. QED
    BY <2>4 DEF HasSection
<1>4. ASSUME NEW k, k \notin H PROVE ~HasSection(data, k)
  <2>1. \A i \in 1..n : ~HeadOf(ls[i], k)
    BY <1>2, <1>4 DEF HeadOf
  <2>. QED
    BY <1>1, <2>1, HeadsAreRead
<1>. QED
  BY <1>3, <1>4

\* Only a document of a task has the key reporting, and it has it on its line.
LEMMA KeysAre ==
  ASSUME NEW k \in DOMAIN Templates
  PROVE  /\ Plain[k] \cap Sections[k] = {} /\ Nothing \notin Plain[k] \cup Sections[k]
         /\ IsTemplate(Templates[k], Plain[k], Sections[k])
         /\ k # "index" => /\ "status" \in Plain[k] /\ "reporting" \in Plain[k]
                           /\ "delivery_id" \in Plain[k] /\ "reporting" \notin Sections[k]
         /\ k = "index" => "active_task" \in Plain[k] /\ "tasks" \in Sections[k]
<1>1. /\ Plain[k] \cap Sections[k] = {} /\ Nothing \notin Plain[k] \cup Sections[k]
      /\ IsTemplate(Templates[k], Plain[k], Sections[k])
      /\ IF k = "index" THEN "active_task" \in Plain[k] /\ "tasks" \in Sections[k]
         ELSE {"status", "reporting", "delivery_id"} \subseteq Plain[k]
  BY KeyAssumption
<1>. QED
  BY <1>1

\* What was read of a document of its shape.
LEMMA NotYetReported ==
  ASSUME NEW k \in DOMAIN Templates, NEW ls, Shape(ls, Plain[k], Sections[k]), k # "index"
  PROVE  ~(<<"reporting">> \in DOMAIN Parse(ls).data /\ Parse(ls).data[<<"reporting">>] = Mapping)
<1>1. Plain[k] \cap Sections[k] = {} /\ "reporting" \notin Sections[k]
  BY KeysAre
<1>2. ~HasSection(DataAt(ls, Len(ls)), "reporting")
  BY <1>1, SectionsAreRead
<1>3. Parse(ls).data = DataAt(ls, Len(ls))
  BY ParseIs
<1>. QED
  BY <1>2, <1>3 DEF HasSection, KeyPath

LEMMA InitInv ==
  ASSUME Init PROVE DocumentInv
<1>. DEFINE data == Parse(doc).data
<1>1. /\ kind \in DOMAIN Templates /\ doc = Templates[kind] /\ early = {}
      /\ record = [p \in DOMAIN data |-> Meant("file", data[p])]
  BY DEF Init
<1>2. Shape(doc, Plain[kind], Sections[kind]) /\ Plain[kind] \cap Sections[kind] = {}
  <2>1. /\ IsTemplate(doc, Plain[kind], Sections[kind]) /\ Nothing \notin Sections[kind]
        /\ Plain[kind] \cap Sections[kind] = {}
    BY <1>1, KeysAre
  <2>. QED
    BY <2>1, TemplateShape
<1>3. Parse(doc).ok /\ data = DataAt(doc, Len(doc))
  BY <1>2, ParseIs
<1>4. ~Reported
  BY <1>1, <1>2, NotYetReported DEF Reported, Has, Reads
<1>. HIDE DEF data
<1>5. DOMAIN record = DOMAIN data /\ \A p \in DOMAIN data : record[p] = Meant("file", data[p])
  BY <1>1
<1>6. ASSUME NEW p PROVE Agree(data, record, p)
  <2>1. CASE p \in DOMAIN data
    <3>1. record[p].by = "file" /\ record[p].value = data[p]
      BY <1>5, <2>1, MeantIs
    <3>2. Understood("file", data[p]) = data[p]
      BY UnderstoodAsMeant
    <3>. QED
      BY <1>5, <2>1, <3>1, <3>2 DEF Agree
  <2>2. CASE p \notin DOMAIN data
    BY <1>5, <2>2 DEF Agree
  <2>. QED
    BY <2>1, <2>2
<1>7. Heads(record, Sections[kind])
  <2>1. \A k \in Sections[kind] : KeyPath(k) \in DOMAIN data => data[KeyPath(k)] = Mapping
    BY <1>2, <1>3, SectionsAreRead
  <2>2. \A p \in DOMAIN data : record[p].value = data[p]
    BY <1>5, MeantIs
  <2>. QED
    BY <1>5, <2>1, <2>2 DEF Heads
<1>8. ReadsBack
  BY <1>3, <1>4, <1>6 DEF ReadsBack, data
<1>9. kind = "index" => IndexInv(Reads, early)
  <2>1. kind = "index" => HasLists(data) /\ ValidIndex(data, {})
    BY <1>1, KeyAssumption DEF data
  <2>. QED
    BY <1>1, <2>1, ListsAre DEF Reads, data
<1>. QED
  BY <1>1, <1>2, <1>7, <1>8, <1>9 DEF DocumentInv

\* Before report-done every key is read as it was meant.
LEMMA BeforeReport ==
  ASSUME DocumentInv, ~Reported
  PROVE  /\ kind \in DOMAIN Templates /\ Shape(doc, Plain[kind], Sections[kind])
         /\ Heads(record, Sections[kind])
         /\ DataAt(doc, Len(doc)) = Reads /\ \A p : Agree(Reads, record, p)
<1>1. /\ kind \in DOMAIN Templates /\ Shape(doc, Plain[kind], Sections[kind])
      /\ Heads(record, Sections[kind])
  BY DEF DocumentInv
<1>2. DataAt(doc, Len(doc)) = Reads
  BY <1>1, ParseIs DEF Reads
<1>3. \A p \in DOMAIN Reads \cup DOMAIN record : Agree(Reads, record, p)
  BY DEF DocumentInv, ReadsBack, Reads
<1>4. \A p : p \notin DOMAIN Reads \cup DOMAIN record => Agree(Reads, record, p)
  BY DEF Agree
<1>. QED
  BY <1>1, <1>2, <1>3, <1>4

\* A task that is not done has not been reported.
LEMMA NotDone ==
  ASSUME DocumentInv, <<"status">> \in DOMAIN Reads => Reads[<<"status">>] # Str("DONE")
  PROVE  ~Reported
<1>1. Reported => Has("status", Str("DONE"))
  BY DEF DocumentInv, ReadsBack
<1>. QED
  BY <1>1 DEF Has

\* An operation whose writes fit.
LEMMA StoreKeeps ==
  ASSUME DocumentInv, ~Reported, NEW hand \in {"relay", "helper"}, NEW writes,
         AllFit(hand, writes, Plain[kind], Sections[kind]), Store(hand, writes),
         kind = "index" => IndexInv(Shown(hand, Reads, writes), early')
  PROVE  DocumentInv'
<1>. DEFINE R == Plain[kind]
            H == Sections[kind]
            new == Shown(hand, Reads, writes)
            kept == Recorded(record, hand, writes)
<1>1. kind' = kind /\ doc' = Written(hand, doc, writes) /\ record' = kept
  BY DEF Store
<1>2. /\ kind \in DOMAIN Templates /\ Shape(doc, R, H) /\ Heads(record, H)
      /\ DataAt(doc, Len(doc)) = Reads /\ \A p : Agree(Reads, record, p)
  BY BeforeReport
<1>3. R \cap H = {} /\ R \ H = R /\ H \ {} = H
  BY <1>2, KeysAre
<1>. HIDE DEF R, H
<1>4. AllFit(hand, writes, R \ H, H)
  BY <1>3 DEF R, H
<1>5. ReadsAs(Written(hand, doc, writes), R, H, new)
  <2>1. ReadsAs(Written(hand, doc, writes), R, H, Shown(hand, DataAt(doc, Len(doc)), writes))
    BY <1>2, <1>3, <1>4, WrittenReads
  <2>. QED
    BY <1>2, <2>1
<1>6. Heads(kept, H) /\ \A p : Agree(new, kept, p)
  <2>1. AllFit(hand, writes, R, H) /\ AgreeBut(Reads, record, {}) /\ Heads(record, H \ {})
    BY <1>2, <1>3 DEF R, H, AgreeBut
  <2>2. Heads(kept, H \ {}) /\ AgreeBut(new, kept, {})
    BY <1>3, <2>1, RecordedAgrees
  <2>. HIDE DEF kept, new
  <2>. QED
    BY <1>3, <2>2 DEF AgreeBut
<1>. HIDE DEF new, kept
<1>7. Shape(doc', R, H) /\ Parse(doc').ok /\ Parse(doc').data = new
  <2>1. Shape(doc', R, H) /\ DataAt(doc', Len(doc')) = new
    BY <1>1, <1>5 DEF ReadsAs
  <2>. QED
    BY <2>1, ParseIs
<1>8. Reads' = new
  BY <1>7 DEF Reads
<1>9. ~Reported'
  <2>1. kind # "index" => ~(<<"reporting">> \in DOMAIN Parse(doc').data
                            /\ Parse(doc').data[<<"reporting">>] = Mapping)
    BY <1>2, <1>7, NotYetReported DEF R, H
  <2>. QED
    BY <1>1, <2>1 DEF Reported, Has, Reads
<1>10. ReadsBack'
  BY <1>1, <1>6, <1>7, <1>9 DEF ReadsBack
<1>11. Shape(doc', Plain[kind'], Sections[kind']) /\ Heads(record', Sections[kind'])
  BY <1>1, <1>6, <1>7 DEF R, H
<1>12. kind' = "index" => IndexInv(Reads', early')
  BY <1>1, <1>8 DEF new
<1>. QED
  BY <1>1, <1>2, <1>10, <1>11, <1>12 DEF DocumentInv

\* The writes that the operations put together fit.
LEMMA KeyFits ==
  ASSUME NEW plain, NEW sections, NEW key \in plain, NEW hand, NEW value, Storable(hand, value)
  PROVE  LET w == Write(<<key>>, value)
         IN Fits(w, plain, sections) /\ Storable(hand, w.value) /\ w.path[1] = key
<1>1. Write(<<key>>, value).path = <<key>> /\ Write(<<key>>, value).value = value
  BY DEF Write
<1>. QED
  BY <1>1 DEF Fits

LEMMA EntryFits ==
  ASSUME NEW plain, NEW sections, NEW section \in sections, NEW key, NEW hand, NEW value,
         Storable(hand, value)
  PROVE  LET w == Write(<<section, key>>, value)
         IN Fits(w, plain, sections) /\ Storable(hand, w.value) /\ w.path[1] = section
<1>1. Write(<<section, key>>, value).path = <<section, key>>
      /\ Write(<<section, key>>, value).value = value
  BY DEF Write
<1>. QED
  BY <1>1 DEF Fits

LEMMA TwoFit ==
  ASSUME NEW hand, NEW plain, NEW sections, NEW v, NEW w,
         Fits(v, plain, sections), Storable(hand, v.value),
         Fits(w, plain, sections), Storable(hand, w.value)
  PROVE  AllFit(hand, <<v, w>>, plain, sections)
<1>. DEFINE ws == <<v, w>>
            T == {v, w}
<1>1. ws \in Seq(T) /\ Len(ws) = 2 /\ ws[1] = v /\ ws[2] = w
  OBVIOUS
<1>. HIDE DEF ws, T
<1>2. ws \in Seq(ToSet(ws)) /\ DOMAIN ws = 1..2
  BY <1>1, IsASeq1, LenProperties
<1>3. \A i \in 1..2 : i = 1 \/ i = 2
  OBVIOUS
<1>4. AllFit(hand, ws, plain, sections)
  BY <1>1, <1>2, <1>3 DEF AllFit
<1>. QED
  BY <1>4 DEF ws

LEMMA ThreeFit ==
  ASSUME NEW hand, NEW plain, NEW sections, NEW u, NEW v, NEW w,
         Fits(u, plain, sections), Storable(hand, u.value),
         Fits(v, plain, sections), Storable(hand, v.value),
         Fits(w, plain, sections), Storable(hand, w.value)
  PROVE  AllFit(hand, <<u, v, w>>, plain, sections)
<1>. DEFINE a == <<u>>
            b == <<v, w>>
<1>1. AllFit(hand, a, plain, sections) /\ AllFit(hand, b, plain, sections)
  BY OneFits, TwoFit
<1>2. <<u, v, w>> = a \o b
  OBVIOUS
<1>. HIDE DEF a, b
<1>. QED
  BY <1>1, <1>2, JoinedFit

\* The index as the invariant has it is the one the operations read.
LEMMA IndexRead ==
  ASSUME DocumentInv, kind = "index"
  PROVE  \E lists : /\ ValidLists(lists, early) /\ IndexOf(Reads, Mirror(lists), lists)
                    /\ ActiveTask = Mirror(lists)
                    /\ \A key \in QueueKeys : TaskList(key) = lists[key]
<1>1. PICK lists : ValidLists(lists, early) /\ IndexOf(Reads, Mirror(lists), lists)
  BY DEF DocumentInv, IndexInv
<1>2. ActiveTask = Mirror(lists)
  BY <1>1 DEF ActiveTask, IndexOf, MirrorPath, KeyPath
<1>3. ASSUME NEW key \in QueueKeys PROVE TaskList(key) = lists[key]
  BY <1>1, ListIs DEF TaskList, IndexOf, TasksPath, EntryPath
<1>. QED
  BY <1>1, <1>2, <1>3

LEMMA IndexKeys ==
  ASSUME DocumentInv, kind = "index"
  PROVE  "active_task" \in Plain[kind] /\ "tasks" \in Sections[kind] /\ ~Reported
BY KeysAre DEF DocumentInv, Reported

\* The values of the index can be written.
LEMMA TaskStorable ==
  /\ Storable("relay", Null)
  /\ \A task : Storable("relay", Str(task))
  /\ \A items : Storable("relay", List(items))
<1>1. \A task : Str(task).text = task
  BY DEF Str, Value
<1>. QED
  BY <1>1, ListIs DEF Storable

\* The active task is a value that can be written.
LEMMA MirrorStorable ==
  ASSUME NEW lists, NEW e, ValidLists(lists, e)
  PROVE  Storable("relay", Mirror(lists))
<1>1. Mirror(lists) = Null \/ \E t \in Tasks : Mirror(lists) = Str(t)
  BY ActiveIs
<1>. QED
  BY <1>1, TaskStorable

LEMMA CompleteStep ==
  ASSUME DocumentInv, kind = "index", NEW task \in Tasks, Complete(task)
  PROVE  DocumentInv'
<1>1. PICK lists : /\ ValidLists(lists, early) /\ IndexOf(Reads, Mirror(lists), lists)
                   /\ ActiveTask = Mirror(lists)
                   /\ \A key \in QueueKeys : TaskList(key) = lists[key]
  BY IndexRead
<1>2. /\ TaskList("active") = lists["active"] /\ TaskList("completed") = lists["completed"]
      /\ TaskList("queued") = lists["queued"] /\ TaskList("blocked") = lists["blocked"]
  BY <1>1 DEF QueueKeys
<1>. DEFINE mirror == IF Mirror(lists) = Str(task) THEN Null ELSE Mirror(lists)
            active == Others(lists["active"], task)
            completed == AlsoIn(lists["completed"], task)
            a == Write(<<"active_task">>, mirror)
            b == Write(<<"tasks", "active">>, List(active))
            c == Write(<<"tasks", "completed">>, List(completed))
            ws == <<a, b, c>>
<1>3. Store("relay", ws) /\ Completed(task)
  BY <1>1, <1>2 DEF Complete, IndexWrite
<1>4. /\ early \subseteq early'
      /\ task \in ToSet(lists["queued"]) \cup ToSet(lists["blocked"]) => task \in early'
  <2>1. task \in ToSet(lists["queued"]) \cup ToSet(lists["blocked"]) => PutAside(task)
    BY <1>2 DEF PutAside
  <2>. QED
    BY <1>3, <2>1 DEF Completed
<1>5. IndexInv(Shown("relay", Reads, ws), early')
  BY <1>1, <1>4, CompleteKeeps
<1>6. Storable("relay", mirror)
  BY <1>1, TaskStorable, MirrorStorable
<1>. HIDE DEF mirror, active, completed
<1>7. AllFit("relay", ws, Plain[kind], Sections[kind])
  <2>1. Fits(a, Plain[kind], Sections[kind]) /\ Storable("relay", a.value)
    BY <1>6, IndexKeys, KeyFits
  <2>2. Fits(b, Plain[kind], Sections[kind]) /\ Storable("relay", b.value)
    BY TaskStorable, IndexKeys, EntryFits
  <2>3. Fits(c, Plain[kind], Sections[kind]) /\ Storable("relay", c.value)
    BY TaskStorable, IndexKeys, EntryFits
  <2>. HIDE DEF a, b, c
  <2>. QED
    BY <2>1, <2>2, <2>3, ThreeFit
<1>. HIDE DEF ws
<1>. QED
  BY <1>3, <1>5, <1>7, IndexKeys, StoreKeeps

LEMMA ActivateStep ==
  ASSUME DocumentInv, kind = "index", Activate
  PROVE  DocumentInv'
<1>1. PICK lists : /\ ValidLists(lists, early) /\ IndexOf(Reads, Mirror(lists), lists)
                   /\ ActiveTask = Mirror(lists)
                   /\ \A key \in QueueKeys : TaskList(key) = lists[key]
  BY IndexRead
<1>. DEFINE q == lists["queued"]
<1>2. TaskList("active") = lists["active"] /\ TaskList("queued") = q
  BY <1>1 DEF QueueKeys
<1>. DEFINE task == Head(q)
            one == <<task>>
            rest == Tail(q)
            a == Write(<<"tasks", "active">>, List(one))
            b == Write(<<"tasks", "queued">>, List(rest))
            c == Write(<<"active_task">>, Str(task))
            ws == <<a, b, c>>
<1>3. Store("relay", ws) /\ early' = early /\ lists["active"] = <<>> /\ q # <<>>
  BY <1>1, <1>2 DEF Activate, IndexWrite
<1>5. IndexInv(Shown("relay", Reads, ws), early')
  BY <1>1, <1>3, ActivateKeeps
<1>. HIDE DEF task, one, rest
<1>7. AllFit("relay", ws, Plain[kind], Sections[kind])
  <2>1. Fits(c, Plain[kind], Sections[kind]) /\ Storable("relay", c.value)
    BY TaskStorable, IndexKeys, KeyFits
  <2>2. Fits(b, Plain[kind], Sections[kind]) /\ Storable("relay", b.value)
    BY TaskStorable, IndexKeys, EntryFits
  <2>3. Fits(a, Plain[kind], Sections[kind]) /\ Storable("relay", a.value)
    BY TaskStorable, IndexKeys, EntryFits
  <2>. HIDE DEF a, b, c
  <2>. QED
    BY <2>1, <2>2, <2>3, ThreeFit
<1>. HIDE DEF ws
<1>. QED
  BY <1>3, <1>5, <1>7, IndexKeys, StoreKeeps

LEMMA EnlistStep ==
  ASSUME DocumentInv, kind = "index", NEW task \in Tasks, Enlist(task)
  PROVE  DocumentInv'
<1>1. PICK lists : /\ ValidLists(lists, early) /\ IndexOf(Reads, Mirror(lists), lists)
                   /\ ActiveTask = Mirror(lists)
                   /\ \A key \in QueueKeys : TaskList(key) = lists[key]
  BY IndexRead
<1>2. TaskList("active") = lists["active"] /\ TaskList("queued") = lists["queued"]
  BY <1>1 DEF QueueKeys
<1>. DEFINE one == <<task>>
            more == Append(lists["queued"], task)
            a == Write(<<"active_task">>, Str(task))
            b == Write(<<"tasks", "active">>, List(one))
            c == Write(<<"tasks", "queued">>, List(more))
            ws == IF lists["active"] = <<>> THEN <<a, b>> ELSE <<c>>
<1>3. Store("relay", ws) /\ early' = early
  BY <1>1, <1>2 DEF Enlist, IndexWrite
<1>4. \A key \in QueueKeys : task \notin ToSet(lists[key])
  BY <1>1 DEF Enlist
<1>5. IndexInv(Shown("relay", Reads, ws), early')
  BY <1>1, <1>3, <1>4, EnlistKeeps
<1>. HIDE DEF one, more
<1>7. AllFit("relay", ws, Plain[kind], Sections[kind])
  <2>1. Fits(a, Plain[kind], Sections[kind]) /\ Storable("relay", a.value)
    BY TaskStorable, IndexKeys, KeyFits
  <2>2. Fits(b, Plain[kind], Sections[kind]) /\ Storable("relay", b.value)
    BY TaskStorable, IndexKeys, EntryFits
  <2>3. Fits(c, Plain[kind], Sections[kind]) /\ Storable("relay", c.value)
    BY TaskStorable, IndexKeys, EntryFits
  <2>. HIDE DEF a, b, c
  <2>4. AllFit("relay", <<a, b>>, Plain[kind], Sections[kind])
    BY <2>1, <2>2, TwoFit
  <2>5. AllFit("relay", <<c>>, Plain[kind], Sections[kind])
    BY <2>3, OneFits
  <2>. QED
    BY <2>4, <2>5
<1>. HIDE DEF ws
<1>. QED
  BY <1>3, <1>5, <1>7, IndexKeys, StoreKeeps

LEMMA SwitchStep ==
  ASSUME DocumentInv, kind = "index", NEW key \in {"queued", "blocked"}, Switch(key)
  PROVE  DocumentInv'
<1>1. PICK lists : /\ ValidLists(lists, early) /\ IndexOf(Reads, Mirror(lists), lists)
                   /\ ActiveTask = Mirror(lists)
                   /\ \A k \in QueueKeys : TaskList(k) = lists[k]
  BY IndexRead
<1>2. TaskList("active") = lists["active"] /\ TaskList(key) = lists[key]
  BY <1>1 DEF QueueKeys
<1>. DEFINE none == <<>>
            more == Append(lists[key], Head(lists["active"]))
            a == Write(<<"tasks", "active">>, List(none))
            b == Write(<<"tasks", key>>, List(more))
            c == Write(<<"active_task">>, Null)
            ws == <<a, b, c>>
<1>3. Store("relay", ws) /\ early' = early /\ lists["active"] # <<>>
  BY <1>2 DEF Switch, IndexWrite
<1>5. IndexInv(Shown("relay", Reads, ws), early')
  BY <1>1, <1>3, SwitchKeeps
<1>. HIDE DEF none, more
<1>7. AllFit("relay", ws, Plain[kind], Sections[kind])
  <2>1. Fits(c, Plain[kind], Sections[kind]) /\ Storable("relay", c.value)
    BY TaskStorable, IndexKeys, KeyFits
  <2>2. Fits(b, Plain[kind], Sections[kind]) /\ Storable("relay", b.value)
    BY TaskStorable, IndexKeys, EntryFits
  <2>3. Fits(a, Plain[kind], Sections[kind]) /\ Storable("relay", a.value)
    BY TaskStorable, IndexKeys, EntryFits
  <2>. HIDE DEF a, b, c
  <2>. QED
    BY <2>1, <2>2, <2>3, ThreeFit
<1>. HIDE DEF ws
<1>. QED
  BY <1>3, <1>5, <1>7, IndexKeys, StoreKeeps

LEMMA UnblockStep ==
  ASSUME DocumentInv, kind = "index", NEW task \in Tasks, Unblock(task)
  PROVE  DocumentInv'
<1>1. PICK lists : /\ ValidLists(lists, early) /\ IndexOf(Reads, Mirror(lists), lists)
                   /\ ActiveTask = Mirror(lists)
                   /\ \A key \in QueueKeys : TaskList(key) = lists[key]
  BY IndexRead
<1>2. TaskList("blocked") = lists["blocked"] /\ TaskList("queued") = lists["queued"]
  BY <1>1 DEF QueueKeys
<1>. DEFINE rest == Others(lists["blocked"], task)
            more == Append(lists["queued"], task)
            a == Write(<<"tasks", "blocked">>, List(rest))
            b == Write(<<"tasks", "queued">>, List(more))
            ws == <<a, b>>
<1>3. Store("relay", ws) /\ early' = early /\ task \in ToSet(lists["blocked"])
  BY <1>2 DEF Unblock, IndexWrite
<1>5. IndexInv(Shown("relay", Reads, ws), early')
  BY <1>1, <1>3, UnblockKeeps
<1>. HIDE DEF rest, more
<1>7. AllFit("relay", ws, Plain[kind], Sections[kind])
  <2>1. Fits(a, Plain[kind], Sections[kind]) /\ Storable("relay", a.value)
    BY TaskStorable, IndexKeys, EntryFits
  <2>2. Fits(b, Plain[kind], Sections[kind]) /\ Storable("relay", b.value)
    BY TaskStorable, IndexKeys, EntryFits
  <2>. HIDE DEF a, b
  <2>. QED
    BY <2>1, <2>2, TwoFit
<1>. HIDE DEF ws
<1>. QED
  BY <1>3, <1>5, <1>7, IndexKeys, StoreKeeps

\* An operation of the store, of the relay helper or of replace-agent.
LEMMA GivenStep ==
  ASSUME DocumentInv, NEW hand \in {"relay", "helper"}, NEW op, Admitted(op),
         op \in IF hand = "relay" THEN RelayOperations[kind] ELSE HelperOperations[kind],
         Store(hand, op.writes), UNCHANGED early
  PROVE  DocumentInv'
<1>1. kind \in DOMAIN Templates /\ op \in RelayOperations[kind] \cup HelperOperations[kind]
  BY DEF DocumentInv
<1>2. AllFit(hand, op.writes, Plain[kind], Sections[kind])
  BY <1>1, OperationAssumption
<1>3. ~Reported
  <2>1. CASE kind = "index"
    BY <2>1 DEF Reported
  <2>2. CASE kind # "index"
    <3>1. <<"status">> \in DOMAIN op.when /\ Str("DONE") \notin op.when[<<"status">>]
      BY <1>1, <2>2, OperationAssumption
    <3>2. Reads[<<"status">>] \in op.when[<<"status">>]
      BY <3>1 DEF Admitted
    <3>. QED
      BY <3>1, <3>2, NotDone
  <2>. QED
    BY <2>1, <2>2
<1>4. ASSUME kind = "index" PROVE IndexInv(Shown(hand, Reads, op.writes), early')
  <2>. DEFINE writes == op.writes
  <2>1. DOMAIN writes = 1..Len(writes) /\ Len(writes) \in Nat
    <3>1. writes \in Seq(ToSet(writes))
      BY <1>2 DEF AllFit
    <3>. QED
      BY <3>1, LenProperties
  <2>2. \A i \in DOMAIN writes : writes[i].path[1] \notin {"active_task", "tasks"}
    BY <1>1, <1>4, OperationAssumption
  <2>3. IndexInv(Reads, early)
    BY <1>4 DEF DocumentInv
  <2>. HIDE DEF writes
  <2>4. IndexInv(Shown(hand, Reads, writes), early)
    BY <2>1, <2>2, <2>3, OthersKeep
  <2>. QED
    BY <2>4 DEF writes
<1>. QED
  BY <1>2, <1>3, <1>4, StoreKeeps

\* The operations on a task that has not been reported.
LEMMA TaskKeys ==
  ASSUME DocumentInv, kind # "index"
  PROVE  /\ "status" \in Plain[kind] /\ "reporting" \in Plain[kind]
         /\ "delivery_id" \in Plain[kind] /\ "reporting" \notin Sections[kind]
         /\ \A name \in {"deliver", "wake", "phase", "report", "reported"} :
              AllFit("relay", Rest[name], Plain[kind], Sections[kind])
<1>1. kind \in DOMAIN Templates
  BY DEF DocumentInv
<1>. QED
  BY <1>1, KeysAre, OperationAssumption

\* The texts the operations go by are different ones.
LEMMA StatusesAre ==
  /\ Str("IMPLEMENTING") # Str("DONE") /\ Str("REPORTING") # Str("DONE")
  /\ \A fields : Object(fields) # Mapping
  /\ Understood("relay", Str("DONE")) = Str("DONE")
  /\ Understood("relay", Str("completed")) = Str("completed")
<1>1. \A text : Str(text).text = text
  BY DEF Str, Value
<1>2. Mapping.type = "map" /\ \A fields : Object(fields).type = "object"
  BY DEF Mapping, Object, Value
<1>3. /\ "DONE" \notin Numbers \cup BareWords /\ "completed" \notin Numbers \cup BareWords
  BY TextAssumption
<1>4. "IMPLEMENTING" # "DONE" /\ "REPORTING" # "DONE"
  OBVIOUS
<1>. QED
  BY <1>1, <1>2, <1>3, <1>4, UnderstoodText

LEMMA DeliverStep ==
  ASSUME DocumentInv, NEW id \in Deliveries, Deliver(id)
  PROVE  DocumentInv'
<1>. DEFINE first == DeliveryIn(execution')
            w == Write(<<"delivery_id">>, Str(first))
            ws == Append(Rest["deliver"], w)
<1>1. kind # "index" /\ Store("relay", ws) /\ Has("status", Str("IMPLEMENTING"))
  BY DEF Deliver
<1>. HIDE DEF first
<1>2. ~Reported
  BY <1>1, NotDone, StatusesAre DEF Has
<1>5. Fits(w, Plain[kind], Sections[kind]) /\ Storable("relay", w.value)
  BY <1>1, TaskStorable, TaskKeys, KeyFits
<1>6. ws = Rest["deliver"] \o <<w>>
  <2>1. Rest["deliver"] \in Seq(ToSet(Rest["deliver"]))
    BY <1>1, TaskKeys DEF AllFit
  <2>. HIDE DEF w
  <2>. QED
    BY <2>1, AppendIsConcat
<1>. HIDE DEF w
<1>7. AllFit("relay", <<w>>, Plain[kind], Sections[kind])
  BY <1>5, OneFits
<1>8. AllFit("relay", ws, Plain[kind], Sections[kind])
  BY <1>1, <1>6, <1>7, TaskKeys, JoinedFit
<1>. HIDE DEF ws
<1>. QED
  BY <1>1, <1>2, <1>8, StoreKeeps

\* reporting becomes, or stays, a mapping on one line.
LEMMA ReportingStep ==
  ASSUME DocumentInv, kind # "index", ~Reported, NEW name \in {"wake", "phase"}, NEW fields,
         RelayWrite(<<Write(<<"reporting">>, Object(fields))>> \o Rest[name])
  PROVE  DocumentInv'
<1>. DEFINE w == Write(<<"reporting">>, Object(fields))
            ws == <<w>> \o Rest[name]
<1>1. Store("relay", ws)
  BY DEF RelayWrite
<1>2. Storable("relay", Object(fields))
  <2>1. Object(fields).items = fields
    BY DEF Object, Value
  <2>. QED
    BY <2>1 DEF Storable
<1>3. Fits(w, Plain[kind], Sections[kind]) /\ Storable("relay", w.value)
  BY <1>2, TaskKeys, KeyFits
<1>. HIDE DEF w
<1>4. AllFit("relay", <<w>>, Plain[kind], Sections[kind])
  BY <1>3, OneFits
<1>5. AllFit("relay", ws, Plain[kind], Sections[kind])
  BY <1>4, TaskKeys, JoinedFit
<1>. HIDE DEF ws
<1>. QED
  BY <1>1, <1>5, StoreKeeps

\* report-done: the key of the line becomes the head of a section, once.
LEMMA ShapeWider ==
  ASSUME NEW ls, NEW R, NEW H, Shape(ls, R, H), NEW key, key # Nothing
  PROVE  Shape(ls, R, H \cup {key})
BY DEF Shape

LEMMA FitWider ==
  ASSUME NEW hand, NEW writes, NEW R, NEW H, AllFit(hand, writes, R, H), R \cap H = {}, NEW key,
         \A i \in DOMAIN writes : writes[i].path[1] # key
  PROVE  AllFit(hand, writes, R \ (H \cup {key}), H \cup {key})
<1>. DEFINE K == H \cup {key}
            P == R \ K
<1>1. \A x \in R : x # key => x \in P
  OBVIOUS
<1>2. \A x \in H : x \in K
  OBVIOUS
<1>. HIDE DEF K, P
<1>3. ASSUME NEW i \in DOMAIN writes PROVE Fits(writes[i], P, K)
  <2>1. Fits(writes[i], R, H)
    BY DEF AllFit
  <2>. QED
    BY <1>1, <1>2, <2>1 DEF Fits
<1>4. AllFit(hand, writes, P, K)
  BY <1>3 DEF AllFit
<1>. QED
  BY <1>4 DEF P, K

IsJoined(ws, a, b) ==
  /\ ws \in Seq(ToSet(ws)) /\ Len(a) \in Nat /\ Len(b) \in Nat
  /\ Len(ws) = Len(a) + Len(b)
  /\ \A i \in 1..Len(a) : ws[i] = a[i]
  /\ \A i \in 1..Len(b) : ws[Len(a) + i] = b[i]
  /\ \A i \in 1..Len(ws) : i \in 1..Len(a) \/ \E k \in 1..Len(b) : i = Len(a) + k

LEMMA JoinedIs ==
  ASSUME NEW a, NEW b, a \in Seq(ToSet(a)), b \in Seq(ToSet(b)), NEW ws, ws = a \o b
  PROVE  IsJoined(ws, a, b)
<1>1. Len(a) \in Nat /\ Len(b) \in Nat
  BY LenProperties
<1>2. IsSpliced(a, ws, Len(a), b)
  BY SplicedAtEnd
<1>3. /\ ws \in Seq(ToSet(ws)) /\ Len(ws) = Len(a) + Len(b)
      /\ \A i \in 1..Len(a) : ws[i] = a[i]
      /\ \A i \in 1..Len(b) : ws[Len(a) + i] = b[i]
  BY <1>2 DEF IsSpliced
<1>4. ASSUME NEW i \in 1..Len(ws), i \notin 1..Len(a) PROVE \E k \in 1..Len(b) : i = Len(a) + k
  <2>. DEFINE m == Len(a)
              n == Len(b)
  <2>1. i \in 1..(m + n) /\ i \notin 1..m /\ m \in Nat /\ n \in Nat
    BY <1>1, <1>3, <1>4 DEF IsJoined
  <2>. HIDE DEF m, n
  <2>2. i - m \in 1..n /\ i = m + (i - m)
    BY <2>1
  <2>3. \E k \in 1..n : i = m + k
    BY <2>2
  <2>. QED
    BY <2>3 DEF m, n
<1>. QED
  BY <1>1, <1>3, <1>4 DEF IsJoined

\* What report-done writes: the status first, and the phase once.
IsReport(ws, s, p) ==
  /\ Len(ws) \in Nat /\ 1 <= Len(ws) /\ ws[1] = s
  /\ \A i \in 2..Len(ws) : ws[i].path[1] # "status"
  /\ \E q \in 2..Len(ws) :
       ws[q] = p /\ \A i \in 1..Len(ws) : i # q => ws[i].path[1] # "reporting"

LEMMA ReportWrites ==
  ASSUME NEW s, NEW p, NEW a, NEW c, a \in Seq(ToSet(a)), c \in Seq(ToSet(c)),
         s.path[1] = "status", p.path[1] = "reporting",
         \A i \in DOMAIN a : a[i].path[1] \notin {"status", "reporting"},
         \A i \in DOMAIN c : c[i].path[1] \notin {"status", "reporting"},
         NEW m, m = a \o <<p>>, NEW r, r = m \o c, NEW ws, ws = <<s>> \o r
  PROVE  IsReport(ws, s, p)
<1>. DEFINE one == <<p>>
            first == <<s>>
            A == Len(a)
            C == Len(c)
<1>1. /\ one \in Seq(ToSet(one)) /\ Len(one) = 1 /\ one[1] = p
      /\ first \in Seq(ToSet(first)) /\ Len(first) = 1 /\ first[1] = s
  <2>1. /\ one \in Seq({p}) /\ Len(one) = 1 /\ one[1] = p
        /\ first \in Seq({s}) /\ Len(first) = 1 /\ first[1] = s
    OBVIOUS
  <2>. HIDE DEF one, first
  <2>. QED
    BY <2>1, IsASeq1
<1>. HIDE DEF one, first
<1>2. /\ A \in Nat /\ C \in Nat /\ DOMAIN a = 1..A /\ DOMAIN c = 1..C
  BY LenProperties
<1>3. /\ m \in Seq(ToSet(m)) /\ Len(m) = A + 1
      /\ \A i \in 1..A : m[i] = a[i]
      /\ \A i \in 1..1 : m[A + i] = one[i]
      /\ \A i \in 1..Len(m) : i \in 1..A \/ \E k \in 1..1 : i = A + k
  <2>. DEFINE x == a
              y == one
              z == m
  <2>1. x \in Seq(ToSet(x)) /\ y \in Seq(ToSet(y)) /\ z = x \o y
    BY <1>1 DEF one
  <2>. HIDE DEF x, y, z
  <2>2. IsJoined(z, x, y)
    BY <2>1, JoinedIs
  <2>. QED
    BY <1>1, <2>2 DEF x, y, z, IsJoined
<1>4. /\ r \in Seq(ToSet(r)) /\ Len(r) = Len(m) + C
      /\ \A i \in 1..Len(m) : r[i] = m[i]
      /\ \A i \in 1..C : r[Len(m) + i] = c[i]
      /\ \A i \in 1..Len(r) : i \in 1..Len(m) \/ \E k \in 1..C : i = Len(m) + k
  <2>. DEFINE x == m
              y == c
              z == r
  <2>1. x \in Seq(ToSet(x)) /\ y \in Seq(ToSet(y)) /\ z = x \o y
    BY <1>3
  <2>. HIDE DEF x, y, z
  <2>2. IsJoined(z, x, y)
    BY <2>1, JoinedIs
  <2>. QED
    BY <2>2 DEF x, y, z, IsJoined
<1>5. /\ Len(ws) = 1 + Len(r)
      /\ \A i \in 1..1 : ws[i] = first[i]
      /\ \A i \in 1..Len(r) : ws[1 + i] = r[i]
      /\ \A i \in 1..Len(ws) : i \in 1..1 \/ \E k \in 1..Len(r) : i = 1 + k
  <2>. DEFINE x == first
              y == r
              z == ws
  <2>1. x \in Seq(ToSet(x)) /\ y \in Seq(ToSet(y)) /\ z = x \o y
    BY <1>1, <1>4 DEF first
  <2>. HIDE DEF x, y, z
  <2>2. IsJoined(z, x, y)
    BY <2>1, JoinedIs
  <2>. QED
    BY <1>1, <2>2 DEF x, y, z, IsJoined
<1>. HIDE DEF A, C
<1>6. \A k \in 1..1 : k = 1
  OBVIOUS
<1>7. Len(m) \in Nat /\ Len(r) \in Nat /\ Len(ws) = (A + 1) + C + 1 /\ Len(m) = A + 1
  BY <1>2, <1>3, <1>4, <1>5
<1>8. ASSUME NEW i \in 1..Len(m)
      PROVE  /\ i # A + 1 => m[i].path[1] \notin {"status", "reporting"}
             /\ i = A + 1 => m[i] = p
  <2>1. CASE i \in 1..A
    <3>1. m[i] = a[i] /\ i # A + 1
      BY <1>2, <1>3, <2>1
    <3>. QED
      BY <1>2, <2>1, <3>1
  <2>2. CASE i = A + 1
    BY <1>1, <1>3, <2>2
  <2>. QED
    BY <1>3, <1>6, <2>1, <2>2
<1>9. ASSUME NEW i \in 1..Len(r)
      PROVE  /\ i # A + 1 => r[i].path[1] \notin {"status", "reporting"}
             /\ i = A + 1 => r[i] = p
  <2>1. CASE i \in 1..Len(m)
    <3>1. r[i] = m[i]
      BY <1>4, <2>1
    <3>. QED
      BY <1>8, <2>1, <3>1
  <2>2. ASSUME NEW k \in 1..C, i = Len(m) + k
        PROVE  i # A + 1 /\ r[i].path[1] \notin {"status", "reporting"}
    <3>1. r[i] = c[k] /\ i # A + 1
      BY <1>2, <1>4, <1>7, <2>2
    <3>. QED
      BY <1>2, <3>1
  <2>. QED
    BY <1>4, <2>1, <2>2
<1>10. ws[1] = s
  BY <1>1, <1>5
<1>11. ASSUME NEW i \in 2..Len(ws)
       PROVE  /\ i # A + 2 => ws[i].path[1] \notin {"status", "reporting"}
              /\ i = A + 2 => ws[i] = p
  <2>1. i - 1 \in 1..Len(r) /\ 1 + (i - 1) = i
    BY <1>5, <1>7
  <2>2. ws[i] = r[i - 1]
    BY <1>5, <2>1
  <2>3. i = A + 2 <=> i - 1 = A + 1
    BY <1>2
  <2>. QED
    BY <1>9, <2>1, <2>2, <2>3
<1>12. A + 2 \in 2..Len(ws) /\ Len(ws) \in Nat /\ 1 <= Len(ws)
  BY <1>2, <1>7
<1>13. \A i \in 1..Len(ws) : i = 1 \/ i \in 2..Len(ws)
  BY <1>12
<1>14. \A i \in 2..Len(ws) : ws[i].path[1] # "status"
  <2>1. \A i \in 2..Len(ws) : i # A + 2 => ws[i].path[1] # "status"
    BY <1>11
  <2>2. ws[A + 2] = p /\ p.path[1] # "status"
    BY <1>11, <1>12
  <2>. QED
    BY <2>1, <2>2
<1>15. ws[A + 2] = p /\ \A i \in 1..Len(ws) : i # A + 2 => ws[i].path[1] # "reporting"
  <2>1. ws[1].path[1] # "reporting"
    BY <1>10
  <2>. QED
    BY <1>11, <1>12, <1>13, <2>1
<1>16. \E q \in 2..Len(ws) :
         ws[q] = p /\ \A i \in 1..Len(ws) : i # q => ws[i].path[1] # "reporting"
  BY <1>12, <1>15
<1>. QED
  BY <1>10, <1>12, <1>14, <1>16 DEF IsReport

\* What is read after the writes of report-done: the status, and of reporting the phase.
LEMMA ReportIsRead ==
  ASSUME NEW data, KeyPath("reporting") \in DOMAIN data, data[KeyPath("reporting")] # Mapping,
         NEW ws, Len(ws) \in Nat, 1 <= Len(ws), ws[1] = Write(<<"status">>, Str("DONE")),
         \A i \in 2..Len(ws) : ws[i].path[1] # "status",
         NEW q \in 2..Len(ws), ws[q] = Write(<<"reporting", "phase">>, Str("completed")),
         \A i \in 1..Len(ws) : i # q => ws[i].path[1] # "reporting"
  PROVE  LET new == Shown("relay", data, ws)
             phase == EntryPath("reporting", "phase")
         IN /\ KeyPath("status") \in DOMAIN new /\ new[KeyPath("status")] = Str("DONE")
            /\ {path \in DOMAIN new : path[1] = "reporting"} = {KeyPath("reporting"), phase}
            /\ new[KeyPath("reporting")] = Mapping /\ new[phase] = Str("completed")
<1>. DEFINE N == Len(ws)
            f == Shows("relay", data, ws)
            status == KeyPath("status")
            key == KeyPath("reporting")
            phase == EntryPath("reporting", "phase")
            done == Str("DONE")
            completed == Str("completed")
            w == ws[q]
<1>1. Stores(f, "relay", data, ws, N)
  BY ShowsUnfold
<1>2. /\ Understood("relay", done) = done /\ Understood("relay", completed) = completed
      /\ status[1] = "status" /\ key[1] = "reporting" /\ phase[1] = "reporting"
  BY StatusesAre, PathsAre
<1>3. /\ ws[1].path = <<"status">> /\ ws[1].value = done
      /\ w.path = <<"reporting", "phase">> /\ w.value = completed
  BY DEF Write
<1>4. /\ 0 \in 0..N /\ 1 \in 0..N /\ N \in 1..N /\ q \in 0..N /\ q - 1 \in 0..N /\ q # 0
      /\ q \in Nat /\ N \in q..N /\ q - 1 \in 0..(q - 1)
  OBVIOUS
<1>. HIDE DEF done, completed, w
<1>5. f[0] = data /\ f[1] = With(data, status, done) /\ f[q] = Show("relay", f[q - 1], w)
  <2>. HIDE DEF f, N
  <2>1. f[0] = data /\ f[1] = Show("relay", f[1 - 1], ws[1]) /\ f[q] = Show("relay", f[q - 1], ws[q])
    BY <1>1, <1>4 DEF Stores
  <2>2. 1 - 1 = 0 /\ Len(<<"status">>) = 1
    OBVIOUS
  <2>3. Show("relay", data, ws[1]) = With(data, status, done)
    BY <1>2, <1>3, <2>2 DEF Show, KeyPath
  <2>. QED
    BY <2>1, <2>2, <2>3 DEF w
<1>6. status \in DOMAIN f[N] /\ f[N][status] = done
  <2>1. status \in DOMAIN f[1] /\ f[1][status] = done
    BY <1>5, WithAt
  <2>. DEFINE j == 1
  <2>2. j \in 0..N /\ N \in j..N /\ \A i \in (j + 1)..N : ws[i].path[1] # status[1]
    <3>1. j + 1 = 2
      OBVIOUS
    <3>. QED
      BY <1>2, <1>4, <3>1
  <2>3. status \in DOMAIN f[j] /\ f[j][status] = done
    BY <2>1
  <2>. HIDE DEF j, status
  <2>. QED
    BY <2>2, <2>3, ShowsKeep
<1>7. key \in DOMAIN f[q - 1] /\ f[q - 1][key] = data[key]
  <2>. DEFINE j == 0
              k == q - 1
  <2>1. j \in 0..N /\ k \in j..N /\ \A i \in (j + 1)..k : ws[i].path[1] # key[1]
    BY <1>2, <1>4
  <2>2. key \in DOMAIN f[j] /\ f[j][key] = data[key]
    BY <1>5
  <2>. HIDE DEF j, k, key
  <2>3. key \in DOMAIN f[k] /\ f[k][key] = data[key]
    BY <2>1, <2>2, ShowsKeep
  <2>. QED
    BY <2>3 DEF k
<1>8. f[q] = With(AtKey(f[q - 1], "reporting", Mapping), phase, completed)
  <2>. DEFINE old == f[q - 1]
  <2>1. Len(w.path) # 1 /\ w.path[1] = "reporting" /\ old[<<"reporting">>] # Mapping
    <3>1. Len(<<"reporting", "phase">>) = 2 /\ <<"reporting", "phase">>[1] = "reporting"
      OBVIOUS
    <3>2. old[key] # Mapping
      BY <1>7
    <3>. HIDE DEF old
    <3>. QED
      BY <1>3, <3>1, <3>2 DEF KeyPath
  <2>. HIDE DEF old, f
  <2>2. Show("relay", old, w) = With(AtKey(old, "reporting", Mapping), phase, completed)
    BY <1>2, <1>3, <2>1 DEF Show, AtKey, KeyPath, EntryPath
  <2>. QED
    BY <1>5, <2>2 DEF old
<1>9. /\ \A p : p[1] = "reporting" => (p \in DOMAIN f[q] <=> p \in {key, phase})
      /\ f[q][key] = Mapping /\ f[q][phase] = completed
  <2>. DEFINE d == AtKey(f[q - 1], "reporting", Mapping)
  <2>1. /\ \A p : p[1] = "reporting" => (p \in DOMAIN d <=> p = key)
        /\ key \in DOMAIN d /\ d[key] = Mapping /\ key # phase
    BY <1>2, AtKeyIs, PathsAre
  <2>2. f[q] = With(d, phase, completed)
    BY <1>8
  <2>. HIDE DEF d, f, key, phase
  <2>3. \A p : p \in DOMAIN f[q] <=> p \in DOMAIN d \/ p = phase
    BY <2>2, WithAt
  <2>4. f[q][key] = Mapping /\ f[q][phase] = completed
    BY <2>1, <2>2, WithAt
  <2>. QED
    BY <2>1, <2>3, <2>4
<1>10. ASSUME NEW p, p[1] = "reporting"
       PROVE  /\ p \in DOMAIN f[N] <=> p \in DOMAIN f[q]
              /\ p \in DOMAIN f[q] => f[N][p] = f[q][p]
  <2>1. \A i \in (q + 1)..N : ws[i].path[1] # p[1]
    BY <1>4, <1>10
  <2>. QED
    BY <1>4, <2>1, ShowsKeep
<1>11. /\ {path \in DOMAIN f[N] : path[1] = "reporting"} = {key, phase}
       /\ f[N][key] = Mapping /\ f[N][phase] = completed
  <2>. HIDE DEF f, N, key, phase
  <2>. QED
    BY <1>2, <1>9, <1>10
<1>. QED
  BY <1>6, <1>11 DEF Shown, done, completed

LEMMA ReportStep ==
  ASSUME DocumentInv, NEW fields, Report(fields)
  PROVE  DocumentInv'
<1>. DEFINE R == Plain[kind]
            H == Sections[kind] \cup {"reporting"}
            X == {"reporting"}
            s == Write(<<"status">>, Str("DONE"))
            p == Write(<<"reporting", "phase">>, Str("completed"))
            a == Rest["report"]
            c == Rest["reported"]
            middle == a \o <<p>>
            rest == middle \o c
            first == <<s>>
            ws == first \o rest
            new == Shown("relay", Reads, ws)
            kept == Recorded(record, "relay", ws)
            status == KeyPath("status")
            key == KeyPath("reporting")
            phase == EntryPath("reporting", "phase")
<1>1. /\ kind # "index" /\ kind' = kind /\ doc' = Written("relay", doc, ws) /\ record' = kept
      /\ Has("status", Str("REPORTING")) /\ Has("reporting", Object(fields))
  BY DEF Report, RelayWrite, Store
<1>2. ~Reported
  BY <1>1, NotDone, StatusesAre DEF Has
<1>3. /\ kind \in DOMAIN Templates /\ Shape(doc, R, Sections[kind])
      /\ Heads(record, Sections[kind])
      /\ DataAt(doc, Len(doc)) = Reads /\ \A path : Agree(Reads, record, path)
  BY <1>2, BeforeReport
<1>4. /\ R \cap Sections[kind] = {} /\ Nothing \notin R /\ "status" \in R /\ "reporting" \in R
      /\ "status" \notin Sections[kind] /\ "reporting" \notin Sections[kind]
  BY <1>1, <1>3, KeysAre
<1>5. Shape(doc, R, H) /\ (R \ H) \cap H = {} /\ H \ X = Sections[kind]
  <2>1. "reporting" # Nothing
    BY <1>4
  <2>2. Shape(doc, R, H)
    BY <1>3, <2>1, ShapeWider
  <2>. QED
    BY <1>4, <2>2
<1>6. /\ \A i \in DOMAIN a : a[i].path[1] \notin {"status", "reporting"}
      /\ \A i \in DOMAIN c : c[i].path[1] \notin {"status", "reporting"}
  BY OperationAssumption
<1>7. AllFit("relay", a, R \ H, H) /\ AllFit("relay", c, R \ H, H)
  <2>1. AllFit("relay", a, R, Sections[kind]) /\ AllFit("relay", c, R, Sections[kind])
    BY <1>1, TaskKeys
  <2>2. /\ \A i \in DOMAIN a : a[i].path[1] # "reporting"
        /\ \A i \in DOMAIN c : c[i].path[1] # "reporting"
    BY <1>6
  <2>. HIDE DEF a, c
  <2>. QED
    BY <1>4, <2>1, <2>2, FitWider
<1>8. Fits(s, R \ H, H) /\ Storable("relay", s.value) /\ s.path[1] = "status"
  <2>1. "status" \in R \ H
    BY <1>4
  <2>. QED
    BY <2>1, TaskStorable, KeyFits
<1>9. Fits(p, R \ H, H) /\ Storable("relay", p.value) /\ p.path[1] = "reporting"
  <2>1. "reporting" \in H
    OBVIOUS
  <2>. QED
    BY <2>1, TaskStorable, EntryFits
<1>. HIDE DEF R, H, X, s, p, a, c, first
<1>10. AllFit("relay", ws, R \ H, H)
  <2>1. AllFit("relay", first, R \ H, H) /\ AllFit("relay", <<p>>, R \ H, H)
    BY <1>8, <1>9, OneFits DEF first
  <2>2. AllFit("relay", middle, R \ H, H)
    BY <1>7, <2>1, JoinedFit
  <2>. HIDE DEF middle
  <2>3. AllFit("relay", rest, R \ H, H)
    BY <1>7, <2>2, JoinedFit
  <2>. HIDE DEF rest
  <2>. QED
    BY <2>1, <2>3, JoinedFit
<1>11. /\ Len(ws) \in Nat /\ 1 <= Len(ws) /\ ws[1] = s
       /\ \A i \in 2..Len(ws) : ws[i].path[1] # "status"
       /\ \E q \in 2..Len(ws) :
            ws[q] = p /\ \A i \in 1..Len(ws) : i # q => ws[i].path[1] # "reporting"
  <2>1. a \in Seq(ToSet(a)) /\ c \in Seq(ToSet(c))
    BY <1>7 DEF AllFit
  <2>2. s.path[1] = "status" /\ p.path[1] = "reporting"
    BY <1>8, <1>9
  <2>3. middle = a \o <<p>> /\ rest = middle \o c /\ ws = <<s>> \o rest
    BY DEF first
  <2>. HIDE DEF middle, rest, ws
  <2>4. IsReport(ws, s, p)
    BY <1>6, <2>1, <2>2, <2>3, ReportWrites
  <2>. QED
    BY <2>4 DEF IsReport
<1>. HIDE DEF middle, rest, ws
<1>12. ReadsAs(doc', R, H, new)
  <2>1. ReadsAs(Written("relay", doc, ws), R, H, Shown("relay", DataAt(doc, Len(doc)), ws))
    BY <1>5, <1>10, WrittenReads
  <2>. QED
    BY <1>1, <1>3, <2>1
<1>13. AgreeBut(new, kept, X)
  <2>1. AgreeBut(Reads, record, X) /\ Heads(record, H \ X)
    BY <1>3, <1>5 DEF AgreeBut
  <2>. HIDE DEF new, kept
  <2>. QED
    BY <1>5, <1>10, <2>1, RecordedAgrees DEF new, kept
<1>14. /\ status \in DOMAIN new /\ new[status] = Str("DONE")
       /\ {path \in DOMAIN new : path[1] = "reporting"} = {key, phase}
       /\ new[key] = Mapping /\ new[phase] = Str("completed")
  <2>1. PICK q \in 2..Len(ws) :
          ws[q] = p /\ \A i \in 1..Len(ws) : i # q => ws[i].path[1] # "reporting"
    BY <1>11
  <2>2. key \in DOMAIN Reads /\ Reads[key] # Mapping
    BY <1>1, StatusesAre DEF Has, KeyPath
  <2>. QED
    BY <1>11, <2>1, <2>2, ReportIsRead DEF s, p
<1>. HIDE DEF new, kept
<1>15. HasSection(new, "reporting")
  <2>1. key \in {path \in DOMAIN new : path[1] = "reporting"}
    BY <1>14
  <2>. QED
    BY <1>14, <2>1 DEF HasSection
<1>16. Parse(doc').ok /\ Parse(doc').data = new
  BY <1>12, ParseIs DEF ReadsAs
<1>17. Reads' = new
  BY <1>16 DEF Reads
<1>18. Reported' /\ Has("status", Str("DONE"))'
  BY <1>1, <1>14, <1>15, <1>17 DEF Reported, Has, HasSection, KeyPath
<1>19. ReadsBack'
  <2>1. \A path : Agree(new, kept, path) \/ path[1] = "reporting"
    BY <1>13 DEF AgreeBut, X
  <2>. QED
    BY <1>1, <1>14, <1>16, <1>18, <2>1 DEF ReadsBack, KeyPath, EntryPath
<1>. QED
  BY <1>1, <1>3, <1>18, <1>19 DEF DocumentInv

LEMMA StepInv ==
  ASSUME DocumentInv, [Next]_vars
  PROVE  DocumentInv'
<1>1. ASSUME NEW op \in RelayOperations[kind], RelayOperation(op) PROVE DocumentInv'
  <2>1. Admitted(op) /\ Store("relay", op.writes) /\ UNCHANGED early
    BY <1>1 DEF RelayOperation, RelayWrite
  <2>2. op \in IF "relay" = "relay" THEN RelayOperations[kind] ELSE HelperOperations[kind]
    OBVIOUS
  <2>. QED
    BY <2>1, <2>2, GivenStep
<1>2. ASSUME NEW op \in HelperOperations[kind], HelperOperation(op) PROVE DocumentInv'
  <2>1. Admitted(op) /\ Store("helper", op.writes) /\ UNCHANGED early
    BY <1>2 DEF HelperOperation
  <2>2. op \in IF "helper" = "relay" THEN RelayOperations[kind] ELSE HelperOperations[kind]
    OBVIOUS
  <2>. QED
    BY <2>1, <2>2, GivenStep
<1>3. ASSUME NEW id \in Deliveries, Deliver(id) PROVE DocumentInv'
  BY <1>3, DeliverStep
<1>4. ASSUME NEW key \in WakeKeys, Wake(key) PROVE DocumentInv'
  <2>. DEFINE fields == [phase |-> "pending", wake_key |-> key]
  <2>1. /\ kind # "index" /\ Has("status", Str("REPORTING"))
        /\ RelayWrite(<<Write(<<"reporting">>, Object(fields))>> \o Rest["wake"])
    BY <1>4 DEF Wake
  <2>2. ~Reported
    BY <2>1, NotDone, StatusesAre DEF Has
  <2>. HIDE DEF fields
  <2>. QED
    BY <2>1, <2>2, ReportingStep
<1>5. ASSUME NEW old, NEW phase, SetPhase(old, phase) PROVE DocumentInv'
  <2>. DEFINE fields == [old EXCEPT !.phase = phase]
  <2>1. /\ kind # "index" /\ Has("reporting", Object(old))
        /\ RelayWrite(<<Write(<<"reporting">>, Object(fields))>> \o Rest["phase"])
    BY <1>5 DEF SetPhase
  <2>2. ~Reported
    BY <2>1, StatusesAre DEF Has, Reported
  <2>. HIDE DEF fields
  <2>. QED
    BY <2>1, <2>2, ReportingStep
<1>6. ASSUME NEW fields, Report(fields) PROVE DocumentInv'
  BY <1>6, ReportStep
<1>7. ASSUME kind = "index", IndexStep PROVE DocumentInv'
  BY <1>7, CompleteStep, ActivateStep, EnlistStep, SwitchStep, UnblockStep DEF IndexStep
<1>8. ASSUME UNCHANGED vars PROVE DocumentInv'
  BY <1>8 DEF vars, DocumentInv, ReadsBack, Reported, Has, Reads
<1>. QED
  BY <1>1, <1>2, <1>3, <1>4, <1>5, <1>6, <1>7, <1>8 DEF Next

---------------------------------------------------------------------------
(* The theorems.                                                           *)

\* Whatever is written, by whichever writer, until report-done the document keeps the
\* shape in which the next write finds its line, and afterwards nothing is written.
THEOREM DocumentInvariant == Spec => []DocumentInv
<1>1. Init => DocumentInv
  BY InitInv
<1>2. DocumentInv /\ [Next]_vars => DocumentInv'
  BY StepInv
<1>. QED
  BY <1>1, <1>2, PTL DEF Spec

\* The parser reads what either writer meant, any text included, over any sequence of
\* operations: but for the relay helper's bare words and the fields of reporting that
\* report-done loses, as ReadsBack says.
THEOREM WritesReadBack == Spec => []ReadsBack
<1>1. DocumentInv => ReadsBack
  BY DEF DocumentInv
<1>. QED
  BY <1>1, DocumentInvariant, PTL

\* The index satisfies schema.py after every operation, report-done for a task that was
\* put aside included: then only that task is in two lists.
THEOREM IndexValidity == Spec => []IndexIsValid
<1>1. DocumentInv => IndexIsValid
  BY IndexIs DEF DocumentInv, IndexIsValid
<1>. QED
  BY <1>1, DocumentInvariant, PTL

===============================================================================
