-------------------------- MODULE ConfigObjectsProofs --------------------------
(***************************************************************************)
(* What a success, its undo and a claimed restoration of a binding, list,  *)
(* range or group mean, for any objects, texts and requests.  The first    *)
(* part is about the switch: what a set of lines makes of a configuration. *)
(* The second is about the plans, handler by handler.  The invariant IInv  *)
(* says of each request where it is in its set (Placed), that its object   *)
(* differs from what it read in what its job is about only (Bounded), and  *)
(* what its last read saw (Seen).                                          *)
(***************************************************************************)
EXTENDS ConfigObjects, FiniteSetTheorems, SequenceTheorems, WellFoundedInduction, TLAPS

-------------------------------------------------------------------------------
(* Entries *)

\* An object that is not there has no entries, which are entries.
LEMMA NoEntries == Entries(<<>>) /\ DOMAIN <<>> = {}
<1>1. DOMAIN <<>> = {}
  OBVIOUS
<1>2. <<>> \in [{} -> Text]
  OBVIOUS
<1> QED BY <1>1, <1>2, FS_EmptySet DEF Entries

LEMMA ContentsEntries ==
  ASSUME NEW c, Configuration(c), NEW o PROVE Entries(Contents(c, o))
  BY NoEntries DEF Contents, Configuration

\* A finite set of numbers has a largest one.
LEMMA MaxIsLargest ==
  ASSUME NEW S \in SUBSET Nat, IsFiniteSet(S), S # {}
  PROVE  Max(S) \in S /\ \A x \in S : x <= Max(S)
<1> DEFINE Tops(U) == {x \in U : \A y \in U : y <= x}
           B == {U \in FiniteSubsetsOf(S) : U # {} /\ Tops(U) = {}}
<1>1. SUFFICES Tops(S) # {}
  BY DEF Max
<1>2. S \in FiniteSubsetsOf(S)
  BY DEF FiniteSubsetsOf
<1>3. SUFFICES ASSUME B # {} PROVE FALSE
  BY <1>2
<1>4. PICK U \in B : \A V \in B : ~(<<V, U>> \in StrictSubsetOrdering(S))
  <2>1. B \subseteq FiniteSubsetsOf(S)
    OBVIOUS
  <2> HIDE DEF B
  <2> QED BY <1>3, <2>1, WFMin, FS_StrictSubsetOrderingWellFounded
<1>5. U \subseteq S /\ IsFiniteSet(U) /\ U # {} /\ Tops(U) = {}
  BY DEF FiniteSubsetsOf
<1>6. PICK x \in U : TRUE
  BY <1>5
<1> DEFINE V == U \ {x}
<1>7. V \in FiniteSubsetsOf(S) /\ <<V, U>> \in StrictSubsetOrdering(S)
  BY <1>5, <1>6, FS_RemoveElement DEF FiniteSubsetsOf, StrictSubsetOrdering
<1>8. V = {} \/ Tops(V) # {}
  BY <1>4, <1>7
<1>9. CASE V = {}
  <2>1. U = {x} /\ x \in Nat
    BY <1>5, <1>6, <1>9
  <2>2. x \in Tops(U)
    BY <2>1
  <2> QED BY <1>5, <2>2
<1>10. CASE Tops(V) # {}
  <2>1. PICK m \in V : \A y \in V : y <= m
    BY <1>10
  <2>2. m \in Nat /\ x \in Nat /\ \A y \in U : y \in Nat /\ (y = x \/ y \in V)
    BY <1>5, <1>6
  <2>3. x <= m => m \in Tops(U)
    BY <2>1, <2>2
  <2>4. m < x => x \in Tops(U)
    BY <1>6, <2>1, <2>2
  <2> QED BY <1>5, <2>2, <2>3, <2>4
<1> QED BY <1>8, <1>9, <1>10

\* The number a member gets is a new one.
LEMMA NextIsNew ==
  ASSUME NEW f, Entries(f)
  PROVE  NextNumber(f) \in Nat \ {0} /\ NextNumber(f) \notin DOMAIN f
<1>1. CASE DOMAIN f = {}
  BY <1>1 DEF NextNumber
<1>2. CASE DOMAIN f # {}
  <2> DEFINE D == DOMAIN f
             m == Max(D)
  <2>1. D \subseteq Nat /\ m \in D /\ \A x \in D : x <= m
    BY <1>2, MaxIsLargest DEF Entries
  <2>2. NextNumber(f) = m + 1
    BY <1>2 DEF NextNumber
  <2> HIDE DEF D, m
  <2>3. m + 1 \in Nat \ {0} /\ m + 1 \notin D
    BY <2>1
  <2> QED BY <2>2, <2>3 DEF D
<1> QED BY <1>1, <1>2

LEMMA WithEntryEntries ==
  ASSUME NEW f, Entries(f), NEW k \in Nat \ {0}, NEW v \in Text
  PROVE  /\ Entries(WithEntry(f, k, v))
         /\ DOMAIN WithEntry(f, k, v) = DOMAIN f \cup {k}
         /\ WithEntry(f, k, v)[k] = v
         /\ \A n \in DOMAIN f : n # k => WithEntry(f, k, v)[n] = f[n]
<1>1. IsFiniteSet(DOMAIN f \cup {k})
  BY FS_AddElement DEF Entries
<1>2. \A n \in DOMAIN f : f[n] \in Text
  BY DEF Entries
<1> QED BY <1>1, <1>2 DEF Entries, WithEntry

LEMMA RestrictEntries ==
  ASSUME NEW f, Entries(f), NEW S \in SUBSET DOMAIN f
  PROVE  /\ Entries(Restrict(f, S)) /\ DOMAIN Restrict(f, S) = S
         /\ \A n \in S : Restrict(f, S)[n] = f[n]
<1>1. IsFiniteSet(S)
  BY FS_Subset DEF Entries
<1> QED BY <1>1 DEF Entries, Restrict

-------------------------------------------------------------------------------
(* Lines *)

Line ==
    {c \in [op : {"enter", "put", "add", "remove", "delete"}, o : Objects,
            k : Nat, v : Text \cup {""}] :
       (c.op \in {"put", "add"} => c.v \in Text) /\ (c.op = "put" => c.k # 0)}

LineAt(o) == {l \in Line : l.o = o}

\* The entries a line leaves in its object.
LEMMA ObeyedIs ==
  ASSUME NEW c, NEW f
  PROVE  /\ c.op = "enter" => Obeyed(c, f) = f
         /\ c.op = "put" => Obeyed(c, f) = WithEntry(f, c.k, c.v)
         /\ c.op = "add" /\ c.v \notin Range(f) => Obeyed(c, f) = WithEntry(f, NextNumber(f), c.v)
         /\ c.op = "add" /\ c.v \in Range(f) => Obeyed(c, f) = f
         /\ c.op = "remove" => Obeyed(c, f) = Restrict(f, DOMAIN f \ Named(c, f))
<1>1. c.op = "enter" => Obeyed(c, f) = f
  BY Zenon DEF Obeyed
<1>2. c.op = "put" => Obeyed(c, f) = WithEntry(f, c.k, c.v)
  BY Zenon DEF Obeyed
<1>3. c.op = "add" /\ c.v \notin Range(f) => Obeyed(c, f) = WithEntry(f, NextNumber(f), c.v)
  BY Zenon DEF Obeyed
<1>4. c.op = "add" /\ c.v \in Range(f) => Obeyed(c, f) = f
  BY Zenon DEF Obeyed
<1>5. c.op = "remove" => Obeyed(c, f) = Restrict(f, DOMAIN f \ Named(c, f))
  BY Zenon DEF Obeyed
<1> QED BY <1>1, <1>2, <1>3, <1>4, <1>5

LEMMA ObeyedEntries ==
  ASSUME NEW c \in Line, NEW f, Entries(f), c.op # "delete" PROVE Entries(Obeyed(c, f))
<1>1. c.op \in {"enter", "put", "add", "remove"} /\ c.k \in Nat
  BY DEF Line
<1>2. c.op = "put" => Entries(WithEntry(f, c.k, c.v))
  BY <1>1, WithEntryEntries DEF Line
<1>3. c.op = "add" => Entries(WithEntry(f, NextNumber(f), c.v))
  BY <1>1, WithEntryEntries, NextIsNew DEF Line
<1>4. Entries(Restrict(f, DOMAIN f \ Named(c, f)))
  BY RestrictEntries
<1> QED BY <1>1, <1>2, <1>3, <1>4, ObeyedIs

\* The configuration with an object's entries replaced.
LEMMA HoldingConfiguration ==
  ASSUME NEW c, Configuration(c), NEW o \in Objects, NEW f, Entries(f)
  PROVE  /\ Configuration(Holding(c, o, f))
         /\ DOMAIN Holding(c, o, f) = DOMAIN c \cup {o}
         /\ Holding(c, o, f)[o] = f /\ Contents(Holding(c, o, f), o) = f
         /\ \A p \in DOMAIN c : p # o => Holding(c, o, f)[p] = c[p]
         /\ \A p : p # o => Contents(Holding(c, o, f), p) = Contents(c, p)
BY DEF Configuration, Holding, Contents

LEMMA WithoutConfiguration ==
  ASSUME NEW c, Configuration(c), NEW S \in SUBSET DOMAIN c
  PROVE  /\ Configuration(Restrict(c, S))
         /\ DOMAIN Restrict(c, S) = S
         /\ \A p \in S : Restrict(c, S)[p] = c[p]
         /\ \A p : Contents(Restrict(c, S), p) = IF p \in S THEN c[p] ELSE <<>>
BY DEF Configuration, Restrict, Contents

\* A line changes its object alone.
LEMMA ObeyConfiguration ==
  ASSUME NEW c, Configuration(c), NEW l \in Line
  PROVE  /\ Configuration(Obey(c, l))
         /\ \A p : p # l.o => /\ p \in DOMAIN Obey(c, l) <=> p \in DOMAIN c
                              /\ Contents(Obey(c, l), p) = Contents(c, p)
         /\ l.op = "delete" => /\ l.o \notin DOMAIN Obey(c, l)
                               /\ Obey(c, l) = Restrict(c, DOMAIN c \ {l.o})
         /\ l.op # "delete" => /\ l.o \in DOMAIN Obey(c, l)
                               /\ Obey(c, l)[l.o] = Obeyed(l, Contents(c, l.o))
                               /\ Contents(Obey(c, l), l.o) = Obeyed(l, Contents(c, l.o))
<1>1. l.o \in Objects
  BY DEF Line
<1>2. CASE l.op = "delete"
  <2>1. Obey(c, l) = Restrict(c, DOMAIN c \ {l.o})
    BY <1>2 DEF Obey
  <2>2. \A p : p # l.o /\ p \in DOMAIN c => p \in DOMAIN c \ {l.o}
    OBVIOUS
  <2>3. \A p : Contents(c, p) = IF p \in DOMAIN c THEN c[p] ELSE <<>>
    BY DEF Contents
  <2> QED BY <1>2, <2>1, <2>2, <2>3, WithoutConfiguration
<1>3. CASE l.op # "delete"
  <2>1. Obey(c, l) = Holding(c, l.o, Obeyed(l, Contents(c, l.o)))
    BY <1>3 DEF Obey
  <2>2. Entries(Obeyed(l, Contents(c, l.o)))
    BY <1>3, ContentsEntries, ObeyedEntries
  <2> DEFINE e == Obeyed(l, Contents(c, l.o))
             d == Holding(c, l.o, e)
  <2> HIDE DEF e
  <2>3. /\ Configuration(d) /\ DOMAIN d = DOMAIN c \cup {l.o}
        /\ d[l.o] = e /\ Contents(d, l.o) = e
        /\ \A p : p # l.o => Contents(d, p) = Contents(c, p)
    BY <1>1, <2>2, HoldingConfiguration DEF e
  <2> HIDE DEF d
  <2>4. Obey(c, l) = d
    BY <2>1 DEF d, e
  <2> QED BY <1>3, <2>3, <2>4 DEF e
<1> QED BY <1>2, <1>3

\* Two configurations with the same objects and entries are one.
LEMMA SameConfiguration ==
  ASSUME NEW c, Configuration(c), NEW d, Configuration(d), DOMAIN c = DOMAIN d,
         \A o \in DOMAIN c : c[o] = d[o]
  PROVE  c = d
<1>1. c = [o \in DOMAIN c |-> c[o]] /\ d = [o \in DOMAIN d |-> d[o]]
  BY DEF Configuration
<1> QED BY <1>1

LEMMA SameEntries ==
  ASSUME NEW f, Entries(f), NEW g, Entries(g), DOMAIN f = DOMAIN g,
         \A n \in DOMAIN f : f[n] = g[n]
  PROVE  f = g
<1>1. f = [n \in DOMAIN f |-> f[n]] /\ g = [n \in DOMAIN g |-> g[n]]
  BY DEF Entries
<1> QED BY <1>1

-------------------------------------------------------------------------------
(* Sets of lines *)

\* An induction over the first n positions.
LEMMA UpTo ==
  ASSUME NEW n \in Nat, NEW S, n >= 1 => 1 \in S,
         \A i \in 1..n : i \in S /\ i # n => i + 1 \in S
  PROVE  \A i \in 1..n : i \in S
<1> DEFINE T == {i \in 1..n : i \notin S}
<1> SUFFICES ASSUME T # {} PROVE FALSE
  OBVIOUS
<1>1. T \subseteq Nat
  OBVIOUS
<1>2. PICK i \in T : \A y \in T : ~(<<y, i>> \in OpToRel(<, Nat))
  <2> HIDE DEF T
  <2> QED BY <1>1, WFMin, NatLessThanWellFounded
<1>3. \A y \in T : ~(y < i)
  BY <1>1, <1>2 DEF OpToRel
<1>4. i \in 1..n /\ i \notin S
  OBVIOUS
<1>5. i # 1
  BY <1>4
<1>6. i - 1 \in 1..n /\ i - 1 < i /\ i - 1 # n /\ (i - 1) + 1 = i
  BY <1>4, <1>5
<1>7. i - 1 \in S
  BY <1>3, <1>6
<1> QED BY <1>4, <1>6, <1>7

\* The configurations after the first lines of a set, one for each line.
Stages(c, set) ==
    CHOOSE g : g = [i \in 1..Len(set) |-> Obey(IF i = 1 THEN c ELSE g[i - 1], set[i])]

LEMMA ObeyAllIs ==
  ASSUME NEW c, NEW set
  PROVE  ObeyAll(c, set) = IF set = <<>> THEN c ELSE Stages(c, set)[Len(set)]
BY DEF ObeyAll, Stages

Onto(c, set, g, i) == Obey(IF i = 1 THEN c ELSE g[i - 1], set[i])

LEMMA StagesExist ==
  ASSUME NEW c, NEW set, NEW len \in Nat
  PROVE  \A n \in 1..len :
           \E g : g = [i \in 1..n |-> Onto(c, set, g, i)]
<1> DEFINE P(n) == \E g : g = [i \in 1..n |-> Onto(c, set, g, i)]
           S == {n \in 1..len : P(n)}
<1>1. P(1)
  <2> DEFINE g == [i \in 1..1 |-> Obey(c, set[1])]
  <2>1. \A i \in 1..1 : i = 1
    OBVIOUS
  <2>2. g = [i \in 1..1 |-> Onto(c, set, g, i)]
    <3>1. \A i \in 1..1 : Onto(c, set, g, i) = Obey(c, set[1])
      BY <2>1 DEF Onto
    <3> QED BY <3>1
  <2> QED BY <2>2
<1>2. ASSUME NEW n \in 1..len, P(n) PROVE P(n + 1)
  <2>1. PICK g : g = [i \in 1..n |-> Onto(c, set, g, i)]
    BY <1>2
  <2> DEFINE h == [i \in 1..(n + 1) |-> IF i = n + 1 THEN Onto(c, set, g, i) ELSE g[i]]
  <2>2. ASSUME NEW i \in 1..(n + 1) PROVE h[i] = Onto(c, set, h, i)
    <3>1. i # n + 1 => i \in 1..n
      OBVIOUS
    <3>2. h[i] = Onto(c, set, g, i)
      BY <2>1, <3>1
    <3>3. i # 1 => i - 1 \in 1..(n + 1) /\ i - 1 # n + 1
      OBVIOUS
    <3>4. i # 1 => h[i - 1] = g[i - 1]
      BY <3>3
    <3> QED BY <3>2, <3>4 DEF Onto
  <2>3. h = [i \in 1..(n + 1) |-> h[i]]
    OBVIOUS
  <2> HIDE DEF h
  <2>4. h = [i \in 1..(n + 1) |-> Onto(c, set, h, i)]
    BY <2>2, <2>3
  <2> QED BY <2>4
<1> HIDE DEF P
<1>3. len >= 1 => 1 \in S
  BY <1>1
<1>4. \A i \in 1..len : i \in S /\ i # len => i + 1 \in S
  BY <1>2
<1> HIDE DEF S
<1>5. \A i \in 1..len : i \in S
  BY <1>3, <1>4, UpTo
<1> QED BY <1>5 DEF S, P

\* What they are.
LEMMA StagesAre ==
  ASSUME NEW c, NEW set \in Seq(Line), set # <<>>
  PROVE  /\ Len(set) \in Nat \ {0} /\ Len(set) \in 1..Len(set) /\ 1 \in 1..Len(set)
         /\ DOMAIN set = 1..Len(set) /\ \A i \in 1..Len(set) : set[i] \in Line
         /\ ObeyAll(c, set) = Stages(c, set)[Len(set)]
         /\ Stages(c, set)[1] = Obey(c, set[1])
         /\ \A i \in 1..Len(set) :
              i # 1 => i - 1 \in 1..Len(set) /\ Stages(c, set)[i] = Obey(Stages(c, set)[i - 1], set[i])
<1>1. Len(set) \in Nat \ {0} /\ Len(set) \in 1..Len(set) /\ 1 \in 1..Len(set)
      /\ DOMAIN set = 1..Len(set) /\ \A i \in 1..Len(set) : set[i] \in Line
  BY EmptySeq, LenProperties, ElementOfSeq
<1>2. ObeyAll(c, set) = Stages(c, set)[Len(set)]
  BY ObeyAllIs
<1>3. PICK g : g = [i \in 1..Len(set) |-> Onto(c, set, g, i)]
  <2>1. \A n \in 1..Len(set) : \E g : g = [i \in 1..n |-> Onto(c, set, g, i)]
    BY <1>1, StagesExist
  <2> QED BY <1>1, <2>1
<1>4. g = [i \in 1..Len(set) |-> Obey(IF i = 1 THEN c ELSE g[i - 1], set[i])]
  BY <1>3 DEF Onto
<1>5. Stages(c, set) = [i \in 1..Len(set) |->
                          Obey(IF i = 1 THEN c ELSE Stages(c, set)[i - 1], set[i])]
  BY <1>4 DEF Stages
<1> DEFINE f == Stages(c, set)
<1>6. \A i \in 1..Len(set) : f[i] = Obey(IF i = 1 THEN c ELSE f[i - 1], set[i])
  BY <1>5
<1> HIDE DEF f
<1>7. \A i \in 1..Len(set) : i # 1 => i - 1 \in 1..Len(set)
  BY <1>1
<1> QED BY <1>1, <1>2, <1>6, <1>7 DEF f

-------------------------------------------------------------------------------
(* Numbers *)

\* Sorted lists every element of a finite set of numbers, and nothing else.
LEMMA SortedLists ==
  ASSUME NEW S \in SUBSET Nat, IsFiniteSet(S)
  PROVE  /\ Sorted(S) \in Seq(S) /\ Len(Sorted(S)) = Cardinality(S)
         /\ DOMAIN Sorted(S) = 1..Cardinality(S)
         /\ \A k \in S : \E i \in DOMAIN Sorted(S) : Sorted(S)[i] = k
<1> DEFINE n == Cardinality(S)
           Below(k) == {m \in S : m < k}
           rank == [k \in S |-> Cardinality(Below(k)) + 1]
<1>1. n \in Nat
  BY FS_CardinalityType
<1>2. ASSUME NEW k \in S
      PROVE  IsFiniteSet(Below(k)) /\ Cardinality(Below(k)) \in Nat /\ Cardinality(Below(k)) < n
  <2>1. IsFiniteSet(Below(k)) /\ Cardinality(Below(k)) <= n
    BY FS_Subset
  <2>2. Cardinality(Below(k)) = n => Below(k) = S
    BY FS_Subset
  <2>3. k \in S /\ ~(k < k)
    OBVIOUS
  <2>4. Below(k) # S
    BY <2>3
  <2>5. Cardinality(Below(k)) \in Nat
    BY <2>1, FS_CardinalityType
  <2> HIDE DEF n, Below
  <2> QED BY <1>1, <2>1, <2>2, <2>4, <2>5
<1>3. ASSUME NEW k \in S, NEW l \in S, k < l
      PROVE  Cardinality(Below(k)) < Cardinality(Below(l))
  <2>1. Below(k) \in SUBSET Below(l)
    <3> SUFFICES ASSUME NEW m \in S, m < k PROVE m < l
      OBVIOUS
    <3>1. m \in Nat /\ k \in Nat /\ l \in Nat
      OBVIOUS
    <3> QED BY <1>3, <3>1
  <2>2. k \in Below(l) /\ k \notin Below(k)
    BY <1>3
  <2>3. Below(k) # Below(l)
    BY <2>2
  <2> HIDE DEF Below
  <2>4. Cardinality(Below(k)) <= Cardinality(Below(l))
        /\ Cardinality(Below(k)) # Cardinality(Below(l))
    BY <1>2, <2>1, <2>3, FS_Subset
  <2> QED BY <1>2, <2>4
<1>4. \A k \in S : rank[k] \in 1..n
  <2> HIDE DEF Below, n
  <2> QED BY <1>1, <1>2
<1>5. rank \in [S -> 1..n]
  BY <1>4
<1>6. \A k, l \in S : k # l => rank[k] # rank[l]
  <2> HIDE DEF Below
  <2> SUFFICES ASSUME NEW k \in S, NEW l \in S, k # l PROVE rank[k] # rank[l]
    OBVIOUS
  <2>1. k < l \/ l < k
    OBVIOUS
  <2>2. Cardinality(Below(k)) \in Nat /\ Cardinality(Below(l)) \in Nat
    BY <1>2
  <2>3. Cardinality(Below(k)) # Cardinality(Below(l))
    BY <1>3, <2>1, <2>2
  <2> QED BY <2>2, <2>3
<1>7. \A i \in 1..n : \E k \in S : rank[k] = i
  <2> HIDE DEF rank
  <2>1. rank \in Injection(S, 1..n)
    BY <1>5, <1>6 DEF Injection, IsInjective
  <2>2. IsFiniteSet(1..n) /\ Cardinality(1..n) = n
    BY <1>1, FS_Interval
  <2>3. rank \in Surjection(S, 1..n)
    BY <2>1, <2>2, FS_Injection
  <2> QED BY <2>3 DEF Surjection
<1>8. ASSUME NEW i \in 1..n
      PROVE  Sorted(S)[i] \in S /\ rank[Sorted(S)[i]] = i
  <2>1. Sorted(S)[i] = CHOOSE k \in S : Cardinality(Below(k)) = i - 1
    BY DEF Sorted
  <2>2. PICK k \in S : rank[k] = i
    BY <1>7
  <2>3. Cardinality(Below(k)) = i - 1
    <3>1. Cardinality(Below(k)) + 1 = i /\ Cardinality(Below(k)) \in Nat
      BY <1>2, <2>2
    <3> HIDE DEF Below
    <3> QED BY <3>1
  <2> DEFINE x == CHOOSE y \in S : Cardinality(Below(y)) = i - 1
  <2> HIDE DEF Below, n
  <2>4. x \in S /\ Cardinality(Below(x)) = i - 1
    BY <2>3
  <2>5. rank[x] = i
    BY <1>1, <1>2, <2>4
  <2> QED BY <2>1, <2>4, <2>5
<1>9. Sorted(S) = [i \in 1..n |-> Sorted(S)[i]]
  <2> DEFINE Nth(i) == CHOOSE k \in S : Cardinality({m \in S : m < k}) = i - 1
             f == [i \in 1..n |-> Nth(i)]
  <2>1. Sorted(S) = f
    BY DEF Sorted
  <2> HIDE DEF Nth
  <2>2. f = [i \in 1..n |-> f[i]]
    OBVIOUS
  <2> QED BY <2>1, <2>2
<1>10. Sorted(S) \in Seq(S) /\ Len(Sorted(S)) = n /\ DOMAIN Sorted(S) = 1..n
  <2> HIDE DEF n
  <2>1. \A i \in 1..n : Sorted(S)[i] \in S
    BY <1>8
  <2> DEFINE f == Sorted(S)
  <2>2. f = [i \in 1..n |-> f[i]]
    BY <1>9
  <2>3. \A i \in 1..n : f[i] \in S
    BY <2>1
  <2> HIDE DEF f
  <2>4. f \in Seq(S) /\ Len(f) = n /\ DOMAIN f = 1..n
    BY <1>1, <2>2, <2>3, LenProperties
  <2> QED BY <2>4 DEF f
<1>11. \A k \in S : \E i \in 1..n : Sorted(S)[i] = k
  <2> SUFFICES ASSUME NEW k \in S PROVE Sorted(S)[rank[k]] = k
    BY <1>4
  <2>1. rank[k] \in 1..n
    BY <1>4
  <2> HIDE DEF rank
  <2> QED BY <1>6, <1>8, <2>1
<1> QED BY <1>10, <1>11

\* first_empty_sequences gives as many free numbers as it is asked for.
LEMMA FirstEmptyIsFree ==
  ASSUME NEW used \in SUBSET Nat, IsFiniteSet(used), NEW count \in Nat
  PROVE  /\ FirstEmpty(used, count) \in Seq(Nat \ {0})
         /\ Len(FirstEmpty(used, count)) = count
         /\ \A i \in 1..count : FirstEmpty(used, count)[i] \notin used
<1> DEFINE n == Cardinality(used) + count
           U == (1..n) \ used
           s == Sorted(U)
<1>1. Cardinality(used) \in Nat /\ n \in Nat
  BY FS_CardinalityType
<1>2. IsFiniteSet(1..n) /\ Cardinality(1..n) = n
  <2> HIDE DEF n
  <2> QED BY <1>1, FS_Interval
<1>3. IsFiniteSet(U) /\ Cardinality(U) = n - Cardinality((1..n) \cap used)
  BY <1>2, FS_Difference
<1>4. Cardinality((1..n) \cap used) <= Cardinality(used)
  BY FS_Intersection
<1>5. Cardinality((1..n) \cap used) \in Nat /\ Cardinality(U) \in Nat
  BY <1>2, <1>3, FS_Intersection, FS_CardinalityType
<1>6. Cardinality(U) >= count
  BY <1>1, <1>3, <1>4, <1>5
<1>7. U \in SUBSET (Nat \ {0}) /\ U \in SUBSET Nat
  OBVIOUS
<1>8. s \in Seq(U) /\ Len(s) = Cardinality(U)
  BY <1>3, <1>7, SortedLists
<1>9. FirstEmpty(used, count) = SubSeq(s, 1, count)
  BY DEF FirstEmpty
<1>10. \A u \in U : u \notin used
  OBVIOUS
<1> HIDE DEF s, U
<1>11. count = 0 \/ (count \in 1..Len(s) /\ 1 \in 1..Len(s))
  BY <1>5, <1>6, <1>8
<1>12. SubSeq(s, 1, count) \in Seq(U) /\ Len(SubSeq(s, 1, count)) = count
       /\ \A i \in 1..count : SubSeq(s, 1, count)[i] \in U
  <2>1. \A i \in 1..count : s[i] \in U
    BY <1>5, <1>6, <1>8
  <2>2. SubSeq(s, 1, count) = [i \in 1..count |-> s[i]]
    BY <1>5, <1>6, <1>8
  <2> DEFINE q == [i \in 1..count |-> s[i]]
  <2>3. q \in Seq(U) /\ Len(q) = count
    BY <2>1, LenProperties
  <2>4. \A i \in 1..count : q[i] \in U
    BY <2>1
  <2> QED BY <2>2, <2>3, <2>4
<1>13. SubSeq(s, 1, count) \in Seq(Nat \ {0})
  <2> DEFINE q == SubSeq(s, 1, count)
  <2>1. q \in Seq(U)
    BY <1>12
  <2> HIDE DEF q
  <2>2. q \in Seq(Nat \ {0})
    <3>1. /\ Len(q) \in Nat /\ q = [i \in 1..Len(q) |-> q[i]]
          /\ \A i \in 1..Len(q) : q[i] \in U
      BY <2>1
    <3> QED BY <1>7, <3>1
  <2> QED BY <2>2 DEF q
<1> QED BY <1>9, <1>10, <1>12, <1>13

-------------------------------------------------------------------------------
(* The sets are made of lines *)

LEMMA EnterForm ==
  ASSUME NEW o \in Objects
  PROVE  /\ Enter(o) \in LineAt(o) /\ Enter(o).op = "enter" /\ Enter(o).o = o
         /\ Enter(o).k = 0 /\ Enter(o).v = ""
<1>1. Enter(o).op = "enter" /\ Enter(o).o = o /\ Enter(o).k = 0 /\ Enter(o).v = ""
  BY DEF Enter, Command
<1>2. Enter(o) \in Line
  BY DEF Line, Enter, Command
<1>3. Enter(o) \in LineAt(o)
  BY <1>1, <1>2 DEF LineAt
<1> QED BY <1>1, <1>3

LEMMA DeleteForm ==
  ASSUME NEW o \in Objects
  PROVE  /\ Delete(o) \in LineAt(o) /\ Delete(o).op = "delete" /\ Delete(o).o = o
         /\ Delete(o).k = 0 /\ Delete(o).v = ""
<1>1. Delete(o).op = "delete" /\ Delete(o).o = o /\ Delete(o).k = 0 /\ Delete(o).v = ""
  BY DEF Delete, Command
<1>2. Delete(o) \in Line
  BY DEF Line, Delete, Command
<1>3. Delete(o) \in LineAt(o)
  BY <1>1, <1>2 DEF LineAt
<1> QED BY <1>1, <1>3

LEMMA PutForm ==
  ASSUME NEW o \in Objects, NEW k \in Nat \ {0}, NEW v \in Text
  PROVE  /\ Put(o, k, v) \in LineAt(o) /\ Put(o, k, v).op = "put" /\ Put(o, k, v).o = o
         /\ Put(o, k, v).k = k /\ Put(o, k, v).v = v
<1>1. Put(o, k, v).op = "put" /\ Put(o, k, v).o = o /\ Put(o, k, v).k = k /\ Put(o, k, v).v = v
  BY DEF Put, Command
<1>2. Put(o, k, v) \in Line
  BY DEF Line, Put, Command
<1>3. Put(o, k, v) \in LineAt(o)
  BY <1>1, <1>2 DEF LineAt
<1> QED BY <1>1, <1>3

LEMMA AddForm ==
  ASSUME NEW o \in Objects, NEW v \in Text
  PROVE  /\ Add(o, v) \in LineAt(o) /\ Add(o, v).op = "add" /\ Add(o, v).o = o
         /\ Add(o, v).k = 0 /\ Add(o, v).v = v
<1>1. Add(o, v).op = "add" /\ Add(o, v).o = o /\ Add(o, v).k = 0 /\ Add(o, v).v = v
  BY DEF Add, Command
<1>2. Add(o, v) \in Line
  BY DEF Line, Add, Command
<1>3. Add(o, v) \in LineAt(o)
  BY <1>1, <1>2 DEF LineAt
<1> QED BY <1>1, <1>3

LEMMA StripForm ==
  ASSUME NEW o \in Objects, NEW k \in Nat, NEW v \in Text \cup {""}
  PROVE  /\ Strip(o, k, v) \in LineAt(o) /\ Strip(o, k, v).op = "remove" /\ Strip(o, k, v).o = o
         /\ Strip(o, k, v).k = k /\ Strip(o, k, v).v = v
<1>1. Strip(o, k, v).op = "remove" /\ Strip(o, k, v).o = o /\ Strip(o, k, v).k = k /\ Strip(o, k, v).v = v
  BY DEF Strip, Command
<1>2. Strip(o, k, v) \in Line
  BY DEF Line, Strip, Command
<1>3. Strip(o, k, v) \in LineAt(o)
  BY <1>1, <1>2 DEF LineAt
<1> QED BY <1>1, <1>3

LEMMA PutsLines ==
  ASSUME NEW o \in Objects, NEW numbers \in Seq(Nat \ {0}), NEW lines \in Seq(Text),
         Len(numbers) = Len(lines)
  PROVE  /\ Puts(o, numbers, lines) \in Seq(LineAt(o))
         /\ Len(Puts(o, numbers, lines)) = Len(lines)
         /\ \A i \in 1..Len(lines) : /\ Puts(o, numbers, lines)[i] = Put(o, numbers[i], lines[i])
                                     /\ numbers[i] \in Nat \ {0} /\ lines[i] \in Text
<1>1. Len(lines) \in Nat /\ Len(numbers) \in Nat /\ DOMAIN lines = 1..Len(lines)
  OBVIOUS
<1>2. ASSUME NEW i \in 1..Len(lines)
      PROVE  numbers[i] \in Nat \ {0} /\ lines[i] \in Text /\ Put(o, numbers[i], lines[i]) \in LineAt(o)
  <2>1. i \in 1..Len(numbers)
    BY <1>1
  <2>2. numbers[i] \in Nat \ {0} /\ lines[i] \in Text
    BY <2>1, ElementOfSeq
  <2> QED BY <2>2, PutForm
<1>3. Puts(o, numbers, lines) = [i \in 1..Len(lines) |-> Put(o, numbers[i], lines[i])]
  BY <1>1 DEF Puts
<1> QED BY <1>1, <1>2, <1>3

LEMMA AddsLines ==
  ASSUME NEW o \in Objects, NEW lines \in Seq(Text)
  PROVE  /\ Adds(o, lines) \in Seq(LineAt(o)) /\ Len(Adds(o, lines)) = Len(lines)
         /\ \A i \in 1..Len(lines) : /\ Adds(o, lines)[i] = Add(o, lines[i])
                                     /\ lines[i] \in Text
<1>1. Len(lines) \in Nat /\ DOMAIN lines = 1..Len(lines)
  OBVIOUS
<1>2. ASSUME NEW i \in 1..Len(lines) PROVE lines[i] \in Text /\ Add(o, lines[i]) \in LineAt(o)
  BY ElementOfSeq, AddForm
<1>3. Adds(o, lines) = [i \in 1..Len(lines) |-> Add(o, lines[i])]
  BY <1>1 DEF Adds
<1> QED BY <1>1, <1>2, <1>3

LEMMA RemovesLines ==
  ASSUME NEW o \in Objects, NEW numbers \in Seq(Nat \ {0})
  PROVE  /\ Removes(o, numbers) \in Seq(LineAt(o)) /\ Len(Removes(o, numbers)) = Len(numbers)
         /\ \A i \in 1..Len(numbers) : /\ Removes(o, numbers)[i] = Strip(o, numbers[i], "")
                                       /\ numbers[i] \in Nat \ {0}
<1>1. Len(numbers) \in Nat /\ DOMAIN numbers = 1..Len(numbers)
  OBVIOUS
<1>2. ASSUME NEW i \in 1..Len(numbers)
      PROVE  numbers[i] \in Nat \ {0} /\ Strip(o, numbers[i], "") \in LineAt(o)
  <2>1. numbers[i] \in Nat \ {0}
    BY ElementOfSeq
  <2> QED BY <2>1, StripForm
<1> DEFINE q == [i \in 1..Len(numbers) |-> Strip(o, numbers[i], "")]
<1>3. Removes(o, numbers) = q
  BY <1>1 DEF Removes
<1>4. \A i \in 1..Len(numbers) : q[i] = Strip(o, numbers[i], "")
  OBVIOUS
<1>5. q \in Seq(LineAt(o)) /\ Len(q) = Len(numbers)
  <2>1. \A i \in 1..Len(numbers) : q[i] \in LineAt(o)
    BY <1>2, <1>4
  <2>2. q = [i \in 1..Len(numbers) |-> q[i]]
    OBVIOUS
  <2> HIDE DEF q
  <2> QED BY <1>1, <2>1, <2>2
<1> QED BY <1>2, <1>3, <1>4, <1>5

\* A set that begins with the header of its object.
LEMMA Headed ==
  ASSUME NEW o \in Objects, NEW set \in Seq(LineAt(o))
  PROVE  /\ <<Enter(o)>> \o set \in Seq(LineAt(o)) /\ <<Enter(o)>> \o set # <<>>
         /\ Len(<<Enter(o)>> \o set) = Len(set) + 1
         /\ (<<Enter(o)>> \o set)[1] = Enter(o)
         /\ \A i \in 1..Len(set) : (<<Enter(o)>> \o set)[i + 1] = set[i]
<1>1. Enter(o) \in LineAt(o) /\ <<Enter(o)>> \in Seq(LineAt(o)) /\ Len(<<Enter(o)>>) = 1
  <2>1. Enter(o) \in LineAt(o)
    BY EnterForm
  <2> QED BY <2>1
<1>2. Len(set) \in Nat
  OBVIOUS
<1> DEFINE e == <<Enter(o)>>
           s == e \o set
<1>3. e[1] = Enter(o)
  OBVIOUS
<1> HIDE DEF e
<1>4. s \in Seq(LineAt(o)) /\ Len(s) = 1 + Len(set)
      /\ \A i \in 1..(1 + Len(set)) : s[i] = IF i <= 1 THEN e[i] ELSE set[i - 1]
  BY <1>1, ConcatProperties DEF e
<1> HIDE DEF s
<1>5. s[1] = Enter(o) /\ Len(s) = Len(set) + 1
  BY <1>2, <1>3, <1>4
<1>6. \A i \in 1..Len(set) : s[i + 1] = set[i]
  <2> SUFFICES ASSUME NEW i \in 1..Len(set) PROVE s[i + 1] = set[i]
    OBVIOUS
  <2>1. i + 1 \in 1..(1 + Len(set)) /\ ~(i + 1 <= 1) /\ (i + 1) - 1 = i
    BY <1>2
  <2> QED BY <1>4, <2>1
<1>7. s # <<>>
  BY <1>2, <1>4
<1> QED BY <1>4, <1>5, <1>6, <1>7 DEF s, e

\* What was captured of an object has all its entries: their numbers in order, and
\* their texts.
LEMMA Listed ==
  ASSUME NEW f, Entries(f)
  PROVE  /\ Sorted(DOMAIN f) \in Seq(Nat \ {0}) /\ Lines(f) \in Seq(Text)
         /\ Len(Lines(f)) = Len(Sorted(DOMAIN f))
         /\ \A i \in 1..Len(Lines(f)) : /\ Sorted(DOMAIN f)[i] \in DOMAIN f
                                        /\ Lines(f)[i] = f[Sorted(DOMAIN f)[i]]
         /\ \A k \in DOMAIN f : \E i \in 1..Len(Lines(f)) : Sorted(DOMAIN f)[i] = k
<1> DEFINE D == DOMAIN f
           s == Sorted(D)
<1>1. D \in SUBSET Nat /\ IsFiniteSet(D) /\ D \in SUBSET (Nat \ {0})
  BY DEF Entries
<1>2. /\ s \in Seq(D) /\ DOMAIN s = 1..Len(s) /\ Len(s) \in Nat
      /\ \A k \in D : \E i \in DOMAIN s : s[i] = k
  BY <1>1, SortedLists
<1>3. Lines(f) = [i \in DOMAIN s |-> f[s[i]]]
  BY DEF Lines
<1>4. \A k \in D : f[k] \in Text
  BY DEF Entries
<1> HIDE DEF s, D
<1>5. \A i \in 1..Len(s) : s[i] \in D
  BY <1>2, ElementOfSeq
<1>6. \A i \in 1..Len(s) : f[s[i]] \in Text
  BY <1>4, <1>5
<1>7. Lines(f) \in Seq(Text) /\ Len(Lines(f)) = Len(s)
      /\ \A i \in 1..Len(s) : Lines(f)[i] = f[s[i]]
  BY <1>2, <1>3, <1>6
<1>8. s \in Seq(Nat \ {0})
  <2>1. s = [i \in 1..Len(s) |-> s[i]] /\ \A i \in 1..Len(s) : s[i] \in Nat \ {0}
    BY <1>1, <1>2, <1>5
  <2> QED BY <1>2, <2>1
<1> QED BY <1>2, <1>5, <1>7, <1>8 DEF s, D

LEMMA CapturedLines ==
  ASSUME NEW s, Configuration(s), NEW o \in DOMAIN s
  PROVE  Captured(s, o) \in Seq(LineAt(o)) /\ Captured(s, o) # <<>>
<1>1. o \in Objects /\ Entries(s[o])
  BY DEF Configuration
<1>2. /\ Sorted(DOMAIN s[o]) \in Seq(Nat \ {0}) /\ Lines(s[o]) \in Seq(Text)
      /\ Len(Lines(s[o])) = Len(Sorted(DOMAIN s[o])) /\ Len(Lines(s[o])) \in Nat
  BY <1>1, Listed
<1>3. Puts(o, Sorted(DOMAIN s[o]), Lines(s[o])) \in Seq(LineAt(o))
  BY <1>1, <1>2, PutsLines
<1>4. Adds(o, Lines(s[o])) \in Seq(LineAt(o))
  BY <1>1, <1>2, AddsLines
<1>5. CASE o \in Lists
  BY <1>1, <1>3, <1>5, Headed DEF Captured
<1>6. CASE o \notin Lists
  BY <1>1, <1>4, <1>6, Headed DEF Captured
<1> QED BY <1>5, <1>6

-------------------------------------------------------------------------------
(* Obeying a set line by line *)

LEMMA LineAtSeq ==
  ASSUME NEW o, NEW set \in Seq(LineAt(o))
  PROVE  set \in Seq(Line)
<1>1. LineAt(o) \subseteq Line
  BY DEF LineAt
<1>2. /\ Len(set) \in Nat /\ set = [i \in 1..Len(set) |-> set[i]]
      /\ \A i \in 1..Len(set) : set[i] \in LineAt(o)
  OBVIOUS
<1> QED BY <1>1, <1>2

LEMMA ObeyNone == ASSUME NEW c PROVE ObeyAll(c, <<>>) = c
  BY ObeyAllIs

\* What a set does is what its first line does, and then its rest.
LEMMA ObeyRest ==
  ASSUME NEW c, NEW set \in Seq(Line), set # <<>>
  PROVE  /\ Head(set) \in Line /\ Tail(set) \in Seq(Line)
         /\ ObeyAll(c, set) = ObeyAll(Obey(c, Head(set)), Tail(set))
<1> DEFINE n == Len(set)
           t == Tail(set)
           d == Obey(c, Head(set))
           g == Stages(c, set)
           h == Stages(d, t)
<1>1. /\ n \in Nat \ {0} /\ n \in 1..n /\ 1 \in 1..n /\ \A i \in 1..n : set[i] \in Line
      /\ ObeyAll(c, set) = g[n] /\ g[1] = Obey(c, set[1])
      /\ \A i \in 1..n : i # 1 => g[i] = Obey(g[i - 1], set[i])
  BY StagesAre
<1>2. /\ Head(set) = set[1] /\ t \in Seq(Line) /\ Len(t) = n - 1
      /\ \A i \in 1..(n - 1) : t[i] = set[i + 1]
  BY HeadTailProperties
<1>3. g[1] = d
  BY <1>1, <1>2
<1>4. CASE n = 1
  <2>1. t = <<>>
    <3> HIDE DEF t, n
    <3>1. t \in Seq(Line) /\ Len(t) = 0
      BY <1>2, <1>4
    <3> QED BY <3>1, EmptySeq
  <2>2. ObeyAll(d, t) = d
    BY <2>1, ObeyNone
  <2> QED BY <1>1, <1>2, <1>3, <1>4, <2>2
<1>5. CASE n # 1
  <2> HIDE DEF g, d, t, n
  <2>1. n - 1 \in Nat \ {0} /\ t # <<>> /\ n - 1 >= 1 /\ 1 \in 1..(n - 1)
    <3>1. n - 1 \in Nat \ {0}
      BY <1>1, <1>5
    <3>2. t # <<>>
      BY <1>2, <3>1
    <3>3. \A m \in Nat \ {0} : m >= 1 /\ 1 \in 1..m
      OBVIOUS
    <3> QED BY <3>1, <3>2, <3>3
  <2>2. /\ ObeyAll(d, t) = h[n - 1] /\ h[1] = Obey(d, t[1])
        /\ \A i \in 1..(n - 1) : i # 1 => h[i] = Obey(h[i - 1], t[i])
    <3>1. /\ ObeyAll(d, t) = Stages(d, t)[Len(t)] /\ Stages(d, t)[1] = Obey(d, t[1])
          /\ \A i \in 1..Len(t) : i # 1 => Stages(d, t)[i] = Obey(Stages(d, t)[i - 1], t[i])
      BY <1>2, <2>1, StagesAre
    <3> QED BY <1>2, <3>1
  <2> DEFINE S == {i \in 1..(n - 1) : h[i] = g[i + 1]}
  <2> HIDE DEF h
  <2>3. 1 \in S
    <3>1. 2 \in 1..n /\ 1 + 1 = 2 /\ 2 - 1 = 1
      BY <1>1, <1>5
    <3>2. g[2] = Obey(g[1], set[2]) /\ t[1] = set[2]
      BY <1>1, <1>2, <2>1, <3>1
    <3> QED BY <1>3, <2>1, <2>2, <3>1, <3>2
  <2>4. ASSUME NEW i \in 1..(n - 1), i \in S, i # n - 1 PROVE i + 1 \in S
    <3>1. /\ i + 1 \in 1..(n - 1) /\ i + 1 # 1 /\ (i + 1) - 1 = i
          /\ (i + 1) + 1 \in 1..n /\ (i + 1) + 1 # 1 /\ ((i + 1) + 1) - 1 = i + 1
      <4>1. i # n - 1 /\ i \in Nat /\ n \in Nat
        BY <1>1, <2>4
      <4> QED BY <4>1
    <3>2. h[i + 1] = Obey(h[i], t[i + 1])
      BY <2>2, <3>1
    <3>3. g[(i + 1) + 1] = Obey(g[i + 1], set[(i + 1) + 1])
      BY <1>1, <3>1
    <3>4. t[i + 1] = set[(i + 1) + 1]
      BY <1>2, <3>1
    <3> QED BY <2>4, <3>1, <3>2, <3>3, <3>4
  <2> HIDE DEF S
  <2>5. \A i \in 1..(n - 1) : i \in S
    <3>1. \A i \in 1..(n - 1) : i \in S /\ i # n - 1 => i + 1 \in S
      BY <2>4
    <3> QED BY <2>1, <2>3, <3>1, UpTo
  <2>6. n - 1 \in 1..(n - 1) /\ (n - 1) + 1 = n
    BY <1>1, <2>1
  <2>7. h[n - 1] = g[n]
    BY <2>5, <2>6 DEF S
  <2>8. ObeyAll(d, t) = ObeyAll(c, set)
    BY <1>1, <2>2, <2>7
  <2> QED BY <1>1, <1>2, <2>8 DEF t, d
<1> QED BY <1>4, <1>5

LEMMA ObeyTwo ==
  ASSUME NEW c, NEW a \in Line, NEW b \in Line
  PROVE  /\ ObeyAll(c, <<a>>) = Obey(c, a)
         /\ ObeyAll(c, <<a, b>>) = Obey(Obey(c, a), b)
<1>1. ASSUME NEW d, NEW l \in Line PROVE ObeyAll(d, <<l>>) = Obey(d, l)
  <2>1. <<l>> \in Seq(Line) /\ <<l>> # <<>> /\ Head(<<l>>) = l /\ Tail(<<l>>) = <<>>
    OBVIOUS
  <2> QED BY <2>1, ObeyRest, ObeyNone
<1>2. <<a, b>> \in Seq(Line) /\ <<a, b>> # <<>> /\ Head(<<a, b>>) = a /\ Tail(<<a, b>>) = <<b>>
  OBVIOUS
<1>3. ObeyAll(c, <<a, b>>) = ObeyAll(Obey(c, a), <<b>>)
  BY <1>2, ObeyRest
<1> QED BY <1>1, <1>3

LEMMA ObeyThree ==
  ASSUME NEW c, NEW a \in Line, NEW b \in Line, NEW e \in Line
  PROVE  ObeyAll(c, <<a, b, e>>) = Obey(Obey(Obey(c, a), b), e)
<1>1. /\ <<a, b, e>> \in Seq(Line) /\ <<a, b, e>> # <<>>
      /\ Head(<<a, b, e>>) = a /\ Tail(<<a, b, e>>) = <<b, e>>
  OBVIOUS
<1>2. ObeyAll(c, <<a, b, e>>) = ObeyAll(Obey(c, a), <<b, e>>)
  BY <1>1, ObeyRest
<1> QED BY <1>2, ObeyTwo

-------------------------------------------------------------------------------
(* What holds of a request between its read and its answer *)

\* The lines a job may send, in its set or in its undo: all name its object.
Dirs(j) == IF j.op = "flip" THEN {In, Out} ELSE {j.k}

BindingLines(j) ==
    {Enter(j.o)} \cup {Put(j.o, d, j.v) : d \in Dirs(j)}
                 \cup {Strip(j.o, d, j.v) : d \in Dirs(j)}
AddedLines(j) == {Enter(j.o), Add(j.o, j.v), Strip(j.o, 0, j.v)}
EditedLines(j) ==
    {Enter(j.o), Strip(j.o, j.k, ""), Strip(j.o, 0, j.v), Add(j.o, j.w),
     Strip(j.o, 0, j.w), Add(j.o, j.v)}

StepsOf(j) ==
    {l \in LineAt(j.o) :
        /\ j.op \in BindingOps => l \in BindingLines(j)
        /\ j.op = "addMember" => l \in AddedLines(j)
        /\ j.op = "editMember" => l \in EditedLines(j)}

\* Jobs whose plan a list that could not be read does not change.
Certain(j) == j.op \in BindingOps \cup {"addMember", "editMember"}

\* The entries f of a job's object differ from g, those it read, in nothing
\* but what the job is about.
Alike(j, g, f) ==
    /\ j.op \in BindingOps =>
          /\ \A n : n \notin Dirs(j) =>
                /\ n \in DOMAIN f <=> n \in DOMAIN g
                /\ n \in DOMAIN g => f[n] = g[n]
          /\ \A n \in Dirs(j) : n \in DOMAIN f => f[n] = j.v
    /\ j.op = "addMember" => Range(f) \ {j.v} = Range(g) \ {j.v}
    /\ j.op = "editMember" => Range(f) \ {j.v, j.w} = Range(g) \ {j.v, j.w}

\* Before the rollback of an edit the other members still have their numbers,
\* where members have them.
Kept(nx, j, g, f) ==
    j.op = "editMember" /\ nx =>
        \A n \in DOMAIN g \ {j.k} : n \in DOMAIN f /\ f[n] = g[n]

\* A rollback all of whose lines were obeyed.
Reverted(j, f) ==
    /\ j.op = "flip" => Opposite(j.k) \notin DOMAIN f /\ j.k \in DOMAIN f
    /\ j.op = "editMember" => j.w \notin Range(f) /\ j.v \in Range(f)

Working(r) ==
    \/ pc[r] \in {"config", "verify", "undoing", "rollback", "restoreVerify"}
    \/ Done(r, "success") \/ Done(r, "restored")

TypeInv ==
    /\ nexus \in BOOLEAN /\ Configuration(conf)
    /\ pc \in [Requests -> {"idle", "config", "verify", "undoing", "rollback",
                            "restoreVerify", "done"}]
    /\ \A r \in Requests :
        /\ err[r] \in BOOLEAN
        /\ pc[r] \in Sending => todo[r] # <<>>
        /\ plan[r] = [answer |-> plan[r].answer, set |-> plan[r].set, undo |-> plan[r].undo]
    /\ job = [r \in Requests |-> job[r]] /\ was = [r \in Requests |-> was[r]]
    /\ plan = [r \in Requests |-> plan[r]] /\ todo = [r \in Requests |-> todo[r]]
    /\ err = [r \in Requests |-> err[r]] /\ reply = [r \in Requests |-> reply[r]]

\* What a request is asked, read and planned.
Founded(r) ==
    LET j == job[r]
        p == PlanFor(nexus, job[r], was[r])
    IN  /\ j \in Asks[r] /\ Configuration(was[r])
        /\ plan[r].set \in Seq(StepsOf(j)) /\ plan[r].set # <<>>
        /\ pc[r] # "done" => plan[r].undo \in Seq(StepsOf(j)) /\ plan[r].undo # <<>>
        /\ r \notin blind \/ Certain(j) =>
              /\ p.answer = "" /\ plan[r].set = p.set
              /\ pc[r] # "done" => plan[r].undo = p.undo
        /\ pc[r] \in Sending => todo[r] \in Seq(StepsOf(j))

\* Where the request is in its set.
Placed(r) ==
    LET j == job[r]
        target == ObeyAll(was[r], plan[r].set)
    IN  /\ pc[r] = "config" /\ ~err[r] /\ r \notin silent =>
              ObeyAll(conf, todo[r]) = target
        /\ (pc[r] = "verify" \/ Done(r, "success")) /\ r \notin silent => conf = target
        /\ pc[r] = "rollback" /\ ~err[r] /\ r \notin silent =>
              Reverted(j, Contents(ObeyAll(conf, todo[r]), j.o))
        /\ pc[r] = "restoreVerify" /\ ~err[r] /\ r \notin silent =>
              Reverted(j, Contents(conf, j.o))
        /\ Done(r, "restored") /\ r \notin silent => Reverted(j, Contents(conf, j.o))

\* What its lines did to the configuration.
Bounded(r) ==
    LET j == job[r]
        g == Contents(was[r], j.o)
        f == Contents(conf, j.o)
    IN  /\ \A o : o # j.o => Contents(conf, o) = Contents(was[r], o)
        /\ Alike(j, g, f)
        /\ pc[r] \in {"config", "verify"} \/ Done(r, "success") => Kept(nexus, j, g, f)
        /\ pc[r] = "config" /\ j.op = "editMember" =>
              \/ f = g /\ todo[r] \in {plan[r].set, Tail(plan[r].set)}
              \/ todo[r] = <<Add(j.o, j.w)>>
        /\ pc[r] = "rollback" /\ j.op = "editMember" =>
              todo[r] \in Seq(StepsOf(j) \ {Strip(j.o, j.k, "")})

\* What the reads after the set and after the rollback saw.
Seen(r) ==
    LET j == job[r]
    IN  /\ Done(r, "success") /\ ReadsBack(j) /\ (j.op = "detach" => r \notin blind) =>
              Confirms(j, conf)
        /\ Done(r, "success") /\ r \notin blind =>
              plan[r].undo = UndoOf(nexus, j, conf, PlanFor(nexus, j, was[r]).undo)
        /\ pc[r] = "restoreVerify" => j.op \in {"attach", "detach", "editMember"}
        /\ Done(r, "restored") =>
              \/ j.op = "flip"
              \/ j.op \in {"attach", "detach", "editMember"} /\ Restored(j, conf, TRUE)

Holds(r) == Working(r) => /\ Founded(r)
                          /\ Alone(r) => Placed(r) /\ Bounded(r) /\ Seen(r)

IInv == TypeInv /\ \A r \in Requests : Holds(r)

-------------------------------------------------------------------------------
(* Plans *)

\* Jobs are planned by their endpoint.
LEMMA PlanIs ==
  ASSUME NEW nx, NEW j, NEW s
  PROVE  /\ j.op = "attach" => PlanFor(nx, j, s) = AttachPlan(j, s)
         /\ j.op = "detach" => PlanFor(nx, j, s) = DetachPlan(j, s)
         /\ j.op = "flip" => PlanFor(nx, j, s) = FlipPlan(j, s)
         /\ j.op = "template" => PlanFor(nx, j, s) = TemplatePlan(j, s)
         /\ j.op = "createList" => PlanFor(nx, j, s) = CreateListPlan(j, s)
         /\ j.op = "deleteList" => PlanFor(nx, j, s) = DeleteListPlan(j, s)
         /\ j.op = "deleteRange" => PlanFor(nx, j, s) = DeleteRangePlan(j, s)
         /\ j.op = "deleteGroup" => PlanFor(nx, j, s) = DeleteGroupPlan(j, s)
         /\ j.op = "range" => PlanFor(nx, j, s) = RangePlan(j, s)
         /\ j.op = "createGroup" => PlanFor(nx, j, s) = CreateGroupPlan(j, s)
         /\ j.op = "addMember" => PlanFor(nx, j, s) = AddMemberPlan(j, s)
         /\ j.op = "deleteMember" => PlanFor(nx, j, s) = DeleteMemberPlan(nx, j, s)
         /\ j.op = "editMember" => PlanFor(nx, j, s) = EditMemberPlan(nx, j, s)
<1>1. j.op = "attach" => PlanFor(nx, j, s) = AttachPlan(j, s)
  BY Zenon DEF PlanFor
<1>2. j.op = "detach" => PlanFor(nx, j, s) = DetachPlan(j, s)
  BY Zenon DEF PlanFor
<1>3. j.op = "flip" => PlanFor(nx, j, s) = FlipPlan(j, s)
  BY Zenon DEF PlanFor
<1>4. j.op = "template" => PlanFor(nx, j, s) = TemplatePlan(j, s)
  BY Zenon DEF PlanFor
<1>5. j.op = "createList" => PlanFor(nx, j, s) = CreateListPlan(j, s)
  BY Zenon DEF PlanFor
<1>6. j.op = "deleteList" => PlanFor(nx, j, s) = DeleteListPlan(j, s)
  BY Zenon DEF PlanFor
<1>7. j.op = "deleteRange" => PlanFor(nx, j, s) = DeleteRangePlan(j, s)
  BY Zenon DEF PlanFor
<1>8. j.op = "deleteGroup" => PlanFor(nx, j, s) = DeleteGroupPlan(j, s)
  BY Zenon DEF PlanFor
<1>9. j.op = "range" => PlanFor(nx, j, s) = RangePlan(j, s)
  BY Zenon DEF PlanFor
<1>10. j.op = "createGroup" => PlanFor(nx, j, s) = CreateGroupPlan(j, s)
  BY Zenon DEF PlanFor
<1>11. j.op = "addMember" => PlanFor(nx, j, s) = AddMemberPlan(j, s)
  BY Zenon DEF PlanFor
<1>12. j.op = "deleteMember" => PlanFor(nx, j, s) = DeleteMemberPlan(nx, j, s)
  BY Zenon DEF PlanFor
<1>13. j.op = "editMember" => PlanFor(nx, j, s) = EditMemberPlan(nx, j, s)
  BY Zenon DEF PlanFor
<1> QED BY <1>1, <1>2, <1>3, <1>4, <1>5, <1>6, <1>7, <1>8, <1>9, <1>10, <1>11, <1>12, <1>13

\* What an accepted job is.
LEMMA AcceptedIs ==
  ASSUME NEW j, Accepted(j)
  PROVE  /\ j.op \in BindingOps \cup ListOps \cup RangeOps \cup GroupOps
         /\ j.o \in Objects /\ j.k \in Nat /\ j.v \in Text \cup {""} /\ j.w \in Text \cup {""}
         /\ j.lines \in Seq(Text) /\ j.refs \subseteq Groups \cup Ranges
         /\ j.op \in BindingOps => /\ j.o \in Interfaces /\ j.k \in {In, Out}
                                   /\ j.v \in Text /\ j.refs = {}
         /\ j.op \in {"template", "createList", "deleteList"} => j.o \in Lists
         /\ j.op = "createList" => j.v \in Text
         /\ j.op \in {"range", "deleteRange"} => j.o \in Ranges
         /\ j.op \in GroupOps => j.o \in Groups
         /\ j.op \in {"addMember", "deleteMember", "editMember"} => j.v \in Text
         /\ j.op = "editMember" => j.w \in Text
  BY DEF Accepted, Endpoints, ListOps, RangeOps

LEMMA SendIs ==
  ASSUME NEW set, NEW undo
  PROVE  /\ Send(set, undo).answer = "" /\ Send(set, undo).set = set
         /\ Send(set, undo).undo = undo
  BY DEF Send

LEMMA SendsIs ==
  ASSUME NEW p, NEW set, NEW undo, p = Send(set, undo)
  PROVE  p.set = set /\ p.undo = undo
  BY DEF Send

LEMMA AnswerIs ==
  ASSUME NEW text
  PROVE  Answer(text).answer = text
  BY DEF Answer

\* What a request that goes on has found, and what it sends.
LEMMA AttachSends ==
  ASSUME NEW j, Accepted(j), NEW s, NEW nx, j.op = "attach", PlanFor(nx, j, s).answer = ""
  PROVE  /\ j.o \in DOMAIN s /\ j.k \notin DOMAIN s[j.o]
         /\ PlanFor(nx, j, s) = Send(<<Enter(j.o), Put(j.o, j.k, j.v)>>,
                                     <<Enter(j.o), Strip(j.o, j.k, j.v)>>)
<1>1. PlanFor(nx, j, s) = AttachPlan(j, s)
  BY PlanIs
<1>2. Answer("unchanged").answer # "" /\ Answer("refused").answer # ""
  BY AnswerIs
<1> QED BY <1>1, <1>2 DEF AttachPlan, If

LEMMA DetachSends ==
  ASSUME NEW j, Accepted(j), NEW s, NEW nx, j.op = "detach", PlanFor(nx, j, s).answer = ""
  PROVE  /\ j.v \in DOMAIN s /\ At(s, j.o, j.k, j.v)
         /\ PlanFor(nx, j, s) = Send(<<Enter(j.o), Strip(j.o, j.k, j.v)>>,
                                     <<Enter(j.o), Put(j.o, j.k, j.v)>>)
<1>1. PlanFor(nx, j, s) = DetachPlan(j, s)
  BY PlanIs
<1>2. Answer("refused").answer # ""
  BY AnswerIs
<1> QED BY <1>1, <1>2 DEF DetachPlan, If

LEMMA FlipSends ==
  ASSUME NEW j, Accepted(j), NEW s, NEW nx, j.op = "flip", PlanFor(nx, j, s).answer = ""
  PROVE  /\ At(s, j.o, j.k, j.v)
         /\ Opposite(j.k) \in DOMAIN s[j.o] => At(s, j.o, Opposite(j.k), j.v)
         /\ PlanFor(nx, j, s) =
              Send(<<Enter(j.o), Strip(j.o, j.k, j.v), Put(j.o, Opposite(j.k), j.v)>>,
                   <<Enter(j.o), Strip(j.o, Opposite(j.k), j.v), Put(j.o, j.k, j.v)>>)
<1>1. PlanFor(nx, j, s) = FlipPlan(j, s)
  BY PlanIs
<1>2. Answer("refused").answer # ""
  BY AnswerIs
<1> QED BY <1>1, <1>2 DEF FlipPlan, If

LEMMA TemplateSends ==
  ASSUME NEW j, Accepted(j), NEW s, NEW nx, j.op = "template", PlanFor(nx, j, s).answer = "",
         NEW numbers, numbers = FirstEmpty(RuleNumbers(Contents(s, j.o)), Len(j.lines))
  PROVE  PlanFor(nx, j, s) = Send(<<Enter(j.o)>> \o Puts(j.o, numbers, j.lines),
                                  <<Enter(j.o)>> \o Removes(j.o, numbers))
<1>1. PlanFor(nx, j, s) = TemplatePlan(j, s)
  BY PlanIs
<1>2. Answer("refused").answer # ""
  BY AnswerIs
<1> QED BY <1>1, <1>2 DEF TemplatePlan, If

LEMMA CreateListSends ==
  ASSUME NEW j, Accepted(j), NEW s, NEW nx, j.op = "createList", PlanFor(nx, j, s).answer = ""
  PROVE  /\ j.o \notin DOMAIN s /\ Len(j.lines) < LastNumber
         /\ PlanFor(nx, j, s) =
              Send(<<Enter(j.o)>> \o Puts(j.o, FirstEmpty({}, Len(j.lines)), j.lines)
                                  \o <<Put(j.o, LastNumber, j.v)>>,
                   <<Delete(j.o)>>)
<1>1. PlanFor(nx, j, s) = CreateListPlan(j, s)
  BY PlanIs
<1>2. Answer("refused").answer # ""
  BY AnswerIs
<1> QED BY <1>1, <1>2 DEF CreateListPlan, If

LEMMA DeletionSends ==
  ASSUME NEW j, Accepted(j), NEW s, NEW nx, PlanFor(nx, j, s).answer = "",
         j.op \in {"deleteList", "deleteRange", "deleteGroup"}
  PROVE  /\ j.o \in DOMAIN s
         /\ PlanFor(nx, j, s) = Send(<<Delete(j.o)>>, Captured(s, j.o))
<1>1. PlanFor(nx, j, s) = Deletion(j.o, s)
  BY PlanIs DEF DeleteListPlan, DeleteRangePlan, DeleteGroupPlan
<1>2. Answer("refused").answer # ""
  BY AnswerIs
<1> QED BY <1>1, <1>2 DEF Deletion, If

LEMMA RangeSends ==
  ASSUME NEW j, Accepted(j), NEW s, NEW nx, j.op = "range", PlanFor(nx, j, s).answer = ""
  PROVE  PlanFor(nx, j, s) =
           IF j.o \in DOMAIN s
           THEN Send(<<Delete(j.o), Enter(j.o)>> \o Adds(j.o, j.lines), Captured(s, j.o))
           ELSE Send(<<Enter(j.o)>> \o Adds(j.o, j.lines), <<Delete(j.o)>>)
  BY PlanIs DEF RangePlan

LEMMA CreateGroupSends ==
  ASSUME NEW j, Accepted(j), NEW s, NEW nx, j.op = "createGroup", PlanFor(nx, j, s).answer = ""
  PROVE  /\ j.o \notin DOMAIN s
         /\ PlanFor(nx, j, s) = Send(<<Enter(j.o)>> \o Adds(j.o, j.lines), <<Delete(j.o)>>)
<1>1. PlanFor(nx, j, s) = CreateGroupPlan(j, s)
  BY PlanIs
<1>2. Answer("refused").answer # ""
  BY AnswerIs
<1> QED BY <1>1, <1>2 DEF CreateGroupPlan, If

LEMMA AddMemberSends ==
  ASSUME NEW j, Accepted(j), NEW s, NEW nx, j.op = "addMember", PlanFor(nx, j, s).answer = ""
  PROVE  /\ j.o \in DOMAIN s
         /\ PlanFor(nx, j, s) = Send(<<Enter(j.o), Add(j.o, j.v)>>,
                                     <<Enter(j.o), Strip(j.o, 0, j.v)>>)
<1>1. PlanFor(nx, j, s) = AddMemberPlan(j, s)
  BY PlanIs
<1>2. Answer("refused").answer # ""
  BY AnswerIs
<1> QED BY <1>1, <1>2 DEF AddMemberPlan, If

LEMMA DeleteMemberSends ==
  ASSUME NEW j, Accepted(j), NEW s, NEW nx, j.op = "deleteMember", PlanFor(nx, j, s).answer = ""
  PROVE  /\ At(s, j.o, j.k, j.v)
         /\ PlanFor(nx, j, s) = Send(<<Enter(j.o), DeleteTarget(nx, j)>>,
                                     <<Enter(j.o), Add(j.o, j.v)>>)
<1>1. PlanFor(nx, j, s) = DeleteMemberPlan(nx, j, s)
  BY PlanIs
<1>2. Answer("refused").answer # ""
  BY AnswerIs
<1> QED BY <1>1, <1>2 DEF DeleteMemberPlan, If

LEMMA EditMemberSends ==
  ASSUME NEW j, Accepted(j), NEW s, NEW nx, j.op = "editMember", PlanFor(nx, j, s).answer = ""
  PROVE  /\ At(s, j.o, j.k, j.v) /\ j.v # j.w
         /\ PlanFor(nx, j, s) =
              Send(<<Enter(j.o), DeleteTarget(nx, j), Add(j.o, j.w)>>,
                   <<Enter(j.o), Strip(j.o, 0, j.w), Add(j.o, j.v)>>)
<1>1. PlanFor(nx, j, s) = EditMemberPlan(nx, j, s)
  BY PlanIs
<1>2. Answer("unchanged").answer # "" /\ Answer("refused").answer # ""
  BY AnswerIs
<1> QED BY <1>1, <1>2 DEF EditMemberPlan, If

LEMMA PlainSteps ==
  ASSUME NEW j, ~Certain(j)
  PROVE  StepsOf(j) = LineAt(j.o)
  BY DEF StepsOf, Certain

LEMMA DirsAre ==
  ASSUME NEW j, Accepted(j), j.op \in BindingOps
  PROVE  /\ j.k \in Dirs(j) /\ Dirs(j) \subseteq Nat \ {0}
         /\ Opposite(j.k) \in Nat \ {0} /\ Opposite(j.k) # j.k /\ Opposite(j.k) \in {In, Out}
         /\ j.op = "flip" => Dirs(j) = {j.k, Opposite(j.k)}
         /\ j.op # "flip" => Dirs(j) = {j.k}
<1>1. j.k \in {1, 2}
  BY AcceptedIs DEF In, Out
<1>2. (j.k = 1 => Opposite(j.k) = 2) /\ (j.k = 2 => Opposite(j.k) = 1)
  BY DEF Opposite, In, Out
<1>3. j.op = "flip" => Dirs(j) = {1, 2}
  BY DEF Dirs, In, Out
<1>4. j.op # "flip" => Dirs(j) = {j.k}
  BY DEF Dirs
<1> QED BY <1>1, <1>2, <1>3, <1>4 DEF In, Out

LEMMA BindingSteps ==
  ASSUME NEW j, Accepted(j), j.op \in BindingOps
  PROVE  /\ Enter(j.o) \in StepsOf(j)
         /\ \A d \in Dirs(j) : Put(j.o, d, j.v) \in StepsOf(j) /\ Strip(j.o, d, j.v) \in StepsOf(j)
         /\ StepsOf(j) = BindingLines(j)
<1>1. j.o \in Objects /\ j.v \in Text /\ j.op # "addMember" /\ j.op # "editMember"
  BY AcceptedIs DEF BindingOps
<1>2. StepsOf(j) = {l \in LineAt(j.o) : l \in BindingLines(j)}
  BY <1>1 DEF StepsOf
<1>3. Enter(j.o) \in LineAt(j.o) /\ Enter(j.o) \in BindingLines(j)
  BY <1>1, EnterForm DEF BindingLines
<1>4. ASSUME NEW d \in Dirs(j)
      PROVE  /\ Put(j.o, d, j.v) \in LineAt(j.o) /\ Strip(j.o, d, j.v) \in LineAt(j.o)
             /\ Put(j.o, d, j.v) \in BindingLines(j) /\ Strip(j.o, d, j.v) \in BindingLines(j)
  <2>1. d \in Nat \ {0}
    BY DirsAre
  <2> QED BY <1>1, <2>1, PutForm, StripForm DEF BindingLines
<1>5. BindingLines(j) \subseteq LineAt(j.o)
  BY <1>3, <1>4 DEF BindingLines
<1> QED BY <1>2, <1>3, <1>4, <1>5

LEMMA AddedSteps ==
  ASSUME NEW j, Accepted(j), j.op = "addMember"
  PROVE  /\ Enter(j.o) \in StepsOf(j) /\ Add(j.o, j.v) \in StepsOf(j)
         /\ Strip(j.o, 0, j.v) \in StepsOf(j)
         /\ StepsOf(j) \subseteq AddedLines(j)
<1>1. j.o \in Objects /\ j.v \in Text
  BY AcceptedIs
<1>2. Enter(j.o) \in LineAt(j.o) /\ Add(j.o, j.v) \in LineAt(j.o) /\ Strip(j.o, 0, j.v) \in LineAt(j.o)
  BY <1>1, EnterForm, AddForm, StripForm
<1>3. j.op \notin BindingOps
  BY DEF BindingOps
<1> QED BY <1>2, <1>3 DEF StepsOf, AddedLines

LEMMA EditedSteps ==
  ASSUME NEW j, Accepted(j), j.op = "editMember"
  PROVE  /\ Enter(j.o) \in StepsOf(j) /\ Add(j.o, j.v) \in StepsOf(j) /\ Add(j.o, j.w) \in StepsOf(j)
         /\ Strip(j.o, 0, j.v) \in StepsOf(j) /\ Strip(j.o, 0, j.w) \in StepsOf(j)
         /\ Strip(j.o, j.k, "") \in StepsOf(j)
         /\ StepsOf(j) \subseteq EditedLines(j)
<1>1. j.o \in Objects /\ j.v \in Text /\ j.w \in Text /\ j.k \in Nat
  BY AcceptedIs
<1>2. /\ Enter(j.o) \in LineAt(j.o) /\ Add(j.o, j.v) \in LineAt(j.o) /\ Add(j.o, j.w) \in LineAt(j.o)
      /\ Strip(j.o, 0, j.v) \in LineAt(j.o) /\ Strip(j.o, 0, j.w) \in LineAt(j.o)
  BY <1>1, EnterForm, AddForm, StripForm
<1>3. Strip(j.o, j.k, "") \in LineAt(j.o)
  BY <1>1, StripForm
<1>4. j.op \notin BindingOps
  BY DEF BindingOps
<1> QED BY <1>2, <1>3, <1>4 DEF StepsOf, EditedLines

LEMMA ShortSets ==
  ASSUME NEW S
  PROVE  /\ \A a \in S : <<a>> \in Seq(S) /\ <<a>> # <<>> /\ Len(<<a>>) = 1
         /\ \A a \in S, b \in S : <<a, b>> \in Seq(S) /\ <<a, b>> # <<>> /\ Len(<<a, b>>) = 2
         /\ \A a \in S, b \in S, c \in S : <<a, b, c>> \in Seq(S) /\ <<a, b, c>> # <<>>
<1>1. ASSUME NEW a \in S PROVE <<a>> \in Seq(S) /\ <<a>> # <<>> /\ Len(<<a>>) = 1
  OBVIOUS
<1>2. ASSUME NEW a \in S, NEW b \in S
      PROVE  <<a, b>> \in Seq(S) /\ <<a, b>> # <<>> /\ Len(<<a, b>>) = 2
  OBVIOUS
<1>3. ASSUME NEW a \in S, NEW b \in S, NEW c \in S
      PROVE  <<a, b, c>> \in Seq(S) /\ <<a, b, c>> # <<>>
  OBVIOUS
<1> QED BY <1>1, <1>2, <1>3

LEMMA JoinedSets ==
  ASSUME NEW S, NEW a \in Seq(S), a # <<>>, NEW b \in Seq(S)
  PROVE  a \o b \in Seq(S) /\ a \o b # <<>>
<1>1. Len(a) \in Nat /\ Len(b) \in Nat /\ Len(a) # 0
  BY LenProperties, EmptySeq
<1>2. a \o b \in Seq(S) /\ Len(a \o b) = Len(a) + Len(b)
  BY ConcatProperties
<1>3. Len(a \o b) # 0
  BY <1>1, <1>2
<1> QED BY <1>2, <1>3, EmptySeq

TypedPlan(p, S) ==
    p.set \in Seq(S) /\ p.set # <<>> /\ p.undo \in Seq(S) /\ p.undo # <<>>

LEMMA SendTyped ==
  ASSUME NEW S, NEW set \in Seq(S), set # <<>>, NEW undo \in Seq(S), undo # <<>>
  PROVE  TypedPlan(Send(set, undo), S)
  BY SendIs DEF TypedPlan

\* The set and the undo are lines of the job, and not empty.
LEMMA PlanTyped ==
  ASSUME NEW j, Accepted(j), NEW s, Configuration(s), NEW nx, PlanFor(nx, j, s).answer = ""
  PROVE  TypedPlan(PlanFor(nx, j, s), StepsOf(j))
<1> DEFINE p == PlanFor(nx, j, s)
           S == StepsOf(j)
           o == j.o
<1> HIDE DEF p, S
<1>1. /\ j.op \in BindingOps \cup ListOps \cup RangeOps \cup GroupOps
      /\ o \in Objects /\ j.k \in Nat /\ j.v \in Text \cup {""} /\ j.lines \in Seq(Text)
  BY AcceptedIs
<1>2. Len(j.lines) \in Nat
  BY <1>1, LenProperties
<1>3. CASE j.op = "attach"
  <2>1. p = Send(<<Enter(o), Put(o, j.k, j.v)>>, <<Enter(o), Strip(o, j.k, j.v)>>)
    BY <1>3, AttachSends DEF p
  <2>2. Enter(o) \in S /\ Put(o, j.k, j.v) \in S /\ Strip(o, j.k, j.v) \in S
    BY <1>3, BindingSteps, DirsAre DEF S, BindingOps
  <2> QED BY <2>1, <2>2, ShortSets, SendTyped DEF p, S
<1>4. CASE j.op = "detach"
  <2>1. p = Send(<<Enter(o), Strip(o, j.k, j.v)>>, <<Enter(o), Put(o, j.k, j.v)>>)
    BY <1>4, DetachSends DEF p
  <2>2. Enter(o) \in S /\ Put(o, j.k, j.v) \in S /\ Strip(o, j.k, j.v) \in S
    BY <1>4, BindingSteps, DirsAre DEF S, BindingOps
  <2> QED BY <2>1, <2>2, ShortSets, SendTyped DEF p, S
<1>5. CASE j.op = "flip"
  <2>1. p = Send(<<Enter(o), Strip(o, j.k, j.v), Put(o, Opposite(j.k), j.v)>>,
                 <<Enter(o), Strip(o, Opposite(j.k), j.v), Put(o, j.k, j.v)>>)
    BY <1>5, FlipSends DEF p
  <2>2. j.k \in Dirs(j) /\ Opposite(j.k) \in Dirs(j)
    BY <1>5, DirsAre DEF BindingOps
  <2>3. /\ Enter(o) \in S /\ Put(o, j.k, j.v) \in S /\ Strip(o, j.k, j.v) \in S
        /\ Put(o, Opposite(j.k), j.v) \in S /\ Strip(o, Opposite(j.k), j.v) \in S
    BY <1>5, <2>2, BindingSteps DEF S, BindingOps
  <2> QED BY <2>1, <2>3, ShortSets, SendTyped DEF p, S
<1>6. CASE j.op = "addMember"
  <2>1. p = Send(<<Enter(o), Add(o, j.v)>>, <<Enter(o), Strip(o, 0, j.v)>>)
    BY <1>6, AddMemberSends DEF p
  <2>2. Enter(o) \in S /\ Add(o, j.v) \in S /\ Strip(o, 0, j.v) \in S
    BY <1>6, AddedSteps DEF S
  <2> QED BY <2>1, <2>2, ShortSets, SendTyped DEF p, S
<1>7. CASE j.op = "editMember"
  <2>1. p = Send(<<Enter(o), DeleteTarget(nx, j), Add(o, j.w)>>,
                 <<Enter(o), Strip(o, 0, j.w), Add(o, j.v)>>)
    BY <1>7, EditMemberSends DEF p
  <2>2. /\ Enter(o) \in S /\ DeleteTarget(nx, j) \in S /\ Add(o, j.w) \in S
        /\ Strip(o, 0, j.w) \in S /\ Add(o, j.v) \in S
    BY <1>7, EditedSteps DEF S, DeleteTarget
  <2> QED BY <2>1, <2>2, ShortSets, SendTyped DEF p, S
<1>8. CASE ~Certain(j)
  <2>1. S = LineAt(o)
    BY <1>8, PlainSteps DEF S
  <2>2. Enter(o) \in S /\ Delete(o) \in S
    BY <1>1, <2>1, EnterForm, DeleteForm
  <2>3. /\ Adds(o, j.lines) \in Seq(S) /\ <<Enter(o)>> \o Adds(o, j.lines) \in Seq(S)
        /\ <<Enter(o)>> \o Adds(o, j.lines) # <<>>
    BY <1>1, <2>1, AddsLines, Headed
  <2>4. o \in DOMAIN s => Captured(s, o) \in Seq(S) /\ Captured(s, o) # <<>>
    BY <2>1, CapturedLines
  <2>5. CASE j.op = "template"
    <3> DEFINE used == RuleNumbers(Contents(s, o))
               numbers == FirstEmpty(used, Len(j.lines))
    <3>1. used \in SUBSET Nat /\ IsFiniteSet(used)
      <4>1. Entries(Contents(s, o))
        BY ContentsEntries
      <4> QED BY <4>1, FS_Subset DEF RuleNumbers, Entries
    <3> HIDE DEF used
    <3>2. numbers \in Seq(Nat \ {0}) /\ Len(numbers) = Len(j.lines)
      BY <1>2, <3>1, FirstEmptyIsFree
    <3> HIDE DEF numbers
    <3>3. p = Send(<<Enter(o)>> \o Puts(o, numbers, j.lines), <<Enter(o)>> \o Removes(o, numbers))
      BY <2>5, TemplateSends DEF p, numbers, used
    <3>4. Puts(o, numbers, j.lines) \in Seq(S)
      BY <1>1, <2>1, <3>2, PutsLines
    <3>5. Removes(o, numbers) \in Seq(S)
      BY <1>1, <2>1, <3>2, RemovesLines
    <3>6. /\ <<Enter(o)>> \o Puts(o, numbers, j.lines) \in Seq(S)
          /\ <<Enter(o)>> \o Puts(o, numbers, j.lines) # <<>>
          /\ <<Enter(o)>> \o Removes(o, numbers) \in Seq(S)
          /\ <<Enter(o)>> \o Removes(o, numbers) # <<>>
      BY <1>1, <2>1, <3>4, <3>5, Headed
    <3> QED BY <3>3, <3>6, SendTyped DEF p, S
  <2>6. CASE j.op = "createList"
    <3> DEFINE numbers == FirstEmpty({}, Len(j.lines))
               q == <<Enter(o)>> \o Puts(o, numbers, j.lines)
               e == <<Put(o, LastNumber, j.v)>>
    <3>1. numbers \in Seq(Nat \ {0}) /\ Len(numbers) = Len(j.lines)
      BY <1>2, FS_EmptySet, FirstEmptyIsFree
    <3> HIDE DEF numbers
    <3>2. p = Send(q \o e, <<Delete(o)>>)
      BY <2>6, CreateListSends DEF p, numbers
    <3>3. Puts(o, numbers, j.lines) \in Seq(S)
      BY <1>1, <2>1, <3>1, PutsLines
    <3>4. q \in Seq(S) /\ q # <<>>
      BY <1>1, <2>1, <3>3, Headed
    <3>5. e \in Seq(S)
      <4>1. Put(o, LastNumber, j.v) \in S
        BY <1>1, <2>1, <2>6, AsksAssumption, AcceptedIs, PutForm
      <4> QED BY <4>1, ShortSets
    <3> HIDE DEF q, e
    <3>6. q \o e \in Seq(S) /\ q \o e # <<>>
      BY <3>4, <3>5, JoinedSets
    <3> QED BY <2>2, <3>2, <3>6, ShortSets, SendTyped DEF p, S
  <2>7. CASE j.op \in {"deleteList", "deleteRange", "deleteGroup"}
    <3>1. o \in DOMAIN s /\ p = Send(<<Delete(o)>>, Captured(s, o))
      BY <2>7, DeletionSends DEF p
    <3> QED BY <2>2, <2>4, <3>1, ShortSets, SendTyped DEF p, S
  <2>8. CASE j.op = "range"
    <3> DEFINE e == <<Delete(o), Enter(o)>>
               q == Adds(o, j.lines)
    <3>1. p = IF o \in DOMAIN s THEN Send(e \o q, Captured(s, o))
              ELSE Send(<<Enter(o)>> \o q, <<Delete(o)>>)
      BY <2>8, RangeSends DEF p
    <3>2. e \in Seq(S) /\ e # <<>> /\ q \in Seq(S)
      BY <2>2, <2>3, ShortSets
    <3> HIDE DEF e
    <3>3. e \o q \in Seq(S) /\ e \o q # <<>>
      BY <3>2, JoinedSets
    <3> QED BY <2>2, <2>3, <2>4, <3>1, <3>3, ShortSets, SendTyped DEF p, S
  <2>9. CASE j.op = "createGroup"
    <3>1. p = Send(<<Enter(o)>> \o Adds(o, j.lines), <<Delete(o)>>)
      BY <2>9, CreateGroupSends DEF p
    <3> QED BY <2>2, <2>3, <3>1, ShortSets, SendTyped DEF p, S
  <2>10. CASE j.op = "deleteMember"
    <3>1. p = Send(<<Enter(o), DeleteTarget(nx, j)>>, <<Enter(o), Add(o, j.v)>>)
      BY <2>10, DeleteMemberSends DEF p
    <3>2. j.v \in Text
      BY <2>10, AcceptedIs
    <3>3. DeleteTarget(nx, j) \in S /\ Add(o, j.v) \in S
      BY <1>1, <2>1, <3>2, AddForm, StripForm DEF DeleteTarget
    <3> QED BY <2>2, <3>1, <3>3, ShortSets, SendTyped DEF p, S
  <2> QED BY <1>1, <1>8, <2>5, <2>6, <2>7, <2>8, <2>9, <2>10
          DEF Certain, BindingOps, ListOps, RangeOps, GroupOps
<1> QED BY <1>1, <1>3, <1>4, <1>5, <1>6, <1>7, <1>8 DEF Certain, BindingOps

-------------------------------------------------------------------------------
(* Reads *)

LEMMA HiddenIs ==
  ASSUME NEW c, Configuration(c), NEW names
  PROVE  /\ Configuration(Hidden(c, names)) /\ DOMAIN Hidden(c, names) = DOMAIN c \ names
         /\ \A o \in DOMAIN c \ names : Hidden(c, names)[o] = c[o]
  BY WithoutConfiguration DEF Hidden

LEMMA NamesOnlyIs ==
  ASSUME NEW c, Configuration(c)
  PROVE  /\ Configuration(NamesOnly(c)) /\ DOMAIN NamesOnly(c) = DOMAIN c
         /\ \A o \in DOMAIN c : o \notin Ranges => NamesOnly(c)[o] = c[o]
<1>1. /\ NamesOnly(c) = [o \in DOMAIN c |-> NamesOnly(c)[o]] /\ DOMAIN NamesOnly(c) = DOMAIN c
      /\ \A o \in DOMAIN c : NamesOnly(c)[o] = IF o \in Ranges THEN <<>> ELSE c[o]
  BY DEF NamesOnly
<1>2. \A o \in DOMAIN c : Entries(NamesOnly(c)[o])
  BY <1>1, NoEntries DEF Configuration
<1> QED BY <1>1, <1>2 DEF Configuration

\* What is read are configurations, in which what is not hidden is what is there.
LEMMA ReadIs ==
  ASSUME Configuration(conf), NEW j, Accepted(j), NEW s \in Reads(j)
  PROVE  /\ Configuration(s) /\ DOMAIN s \subseteq DOMAIN conf
         /\ j.op \in BindingOps => s = conf
         /\ j.o \in Groups /\ j.o \in DOMAIN s => s[j.o] = conf[j.o]
<1>1. \/ s = conf
      \/ ReadsGroups(j) /\ s = Hidden(conf, Groups)
      \/ ReadsRanges(j) /\ (s = Hidden(conf, Ranges) \/ s = NamesOnly(conf))
  BY DEF Reads
<1>2. j.op \in BindingOps => ~ReadsGroups(j) /\ ~ReadsRanges(j)
  BY AcceptedIs, NamesAssumption DEF ReadsGroups, ReadsRanges
<1>3. j.o \in Groups => j.o \notin Ranges
  BY NamesAssumption
<1>4. CASE s = conf
  BY <1>4
<1>5. CASE ReadsGroups(j) /\ s = Hidden(conf, Groups)
  BY <1>2, <1>5, HiddenIs
<1>6. CASE ReadsRanges(j) /\ s = Hidden(conf, Ranges)
  <2> DEFINE h == Hidden(conf, Ranges)
  <2>1. /\ Configuration(h) /\ DOMAIN h = DOMAIN conf \ Ranges
        /\ \A o \in DOMAIN conf \ Ranges : h[o] = conf[o]
    BY HiddenIs
  <2> HIDE DEF h
  <2>2. j.o \in DOMAIN h => h[j.o] = conf[j.o]
    BY <2>1
  <2> QED BY <1>2, <1>6, <2>1, <2>2 DEF h
<1>7. CASE ReadsRanges(j) /\ s = NamesOnly(conf)
  BY <1>2, <1>3, <1>7, NamesOnlyIs
<1> QED BY <1>1, <1>4, <1>5, <1>6, <1>7

LEMMA CertainIs ==
  ASSUME NEW j
  PROVE  Certain(j) <=> j.op \in {"attach", "detach", "flip", "addMember", "editMember"}
  BY DEF Certain, BindingOps

\* A list that could not be read does not change the plan of a certain job: it
\* is the plan for what is there, or none.
LEMMA CertainPlan ==
  ASSUME Configuration(conf), NEW j, Accepted(j), NEW s \in Reads(j), NEW nx,
         Certain(j), PlanFor(nx, j, s).answer = ""
  PROVE  PlanFor(nx, j, s) = PlanFor(nx, j, conf)
<1>1. CASE j.op \in BindingOps
  BY <1>1, ReadIs
<1>2. CASE j.op = "addMember"
  <2> DEFINE p == Send(<<Enter(j.o), Add(j.o, j.v)>>, <<Enter(j.o), Strip(j.o, 0, j.v)>>)
  <2>1. j.o \in DOMAIN s /\ PlanFor(nx, j, s) = p
    BY <1>2, AddMemberSends
  <2>2. PlanFor(nx, j, s) = AddMemberPlan(j, s)
    BY <1>2, PlanIs
  <2>3. j.refs \subseteq DOMAIN s
    BY <2>2, AnswerIs DEF AddMemberPlan, If
  <2>4. j.o \in DOMAIN conf /\ j.refs \subseteq DOMAIN conf
    BY <2>1, <2>3, ReadIs
  <2>5. PlanFor(nx, j, conf) = p
    BY <1>2, <2>4, PlanIs DEF AddMemberPlan, If
  <2> QED BY <2>1, <2>5
<1>3. CASE j.op = "editMember"
  <2> DEFINE p == Send(<<Enter(j.o), DeleteTarget(nx, j), Add(j.o, j.w)>>,
                       <<Enter(j.o), Strip(j.o, 0, j.w), Add(j.o, j.v)>>)
  <2>1. At(s, j.o, j.k, j.v) /\ j.v # j.w /\ PlanFor(nx, j, s) = p
    BY <1>3, EditMemberSends
  <2>2. j.o \in Groups
    BY <1>3, AcceptedIs DEF GroupOps
  <2>3. j.o \in DOMAIN s
    BY <2>1, NoEntries DEF At, Contents
  <2>4. At(conf, j.o, j.k, j.v)
    BY <2>1, <2>2, <2>3, ReadIs DEF At, Contents
  <2>5. PlanFor(nx, j, conf) = p
    BY <1>3, <2>1, <2>4, PlanIs DEF EditMemberPlan, If
  <2> QED BY <2>1, <2>5
<1> QED BY <1>1, <1>2, <1>3 DEF Certain

-------------------------------------------------------------------------------
(* What the lines of a job do to its object *)

LEMMA RangeIs ==
  ASSUME NEW f, NEW x
  PROVE  x \in Range(f) <=> \E n \in DOMAIN f : f[n] = x
  BY DEF Range

LEMMA AtIs ==
  ASSUME NEW c, NEW o, NEW k, NEW v
  PROVE  /\ At(c, o, k, v) <=> k \in DOMAIN Contents(c, o) /\ Contents(c, o)[k] = v
         /\ At(c, o, k, v) => o \in DOMAIN c /\ c[o] = Contents(c, o)
<1>1. o \notin DOMAIN c => DOMAIN Contents(c, o) = {}
  BY NoEntries DEF Contents
<1>2. o \in DOMAIN c => Contents(c, o) = c[o]
  BY DEF Contents
<1> QED BY <1>1, <1>2 DEF At

LEMMA WithEntryRange ==
  ASSUME NEW f, Entries(f), NEW k \in Nat \ {0}, NEW v \in Text
  PROVE  /\ v \in Range(WithEntry(f, k, v))
         /\ k \notin DOMAIN f => Range(WithEntry(f, k, v)) = Range(f) \cup {v}
<1> DEFINE h == WithEntry(f, k, v)
<1>1. DOMAIN h = DOMAIN f \cup {k} /\ h[k] = v /\ \A n \in DOMAIN f : n # k => h[n] = f[n]
  BY DEF WithEntry
<1> HIDE DEF h
<1>2. v \in Range(h)
  BY <1>1, RangeIs
<1>3. ASSUME k \notin DOMAIN f, NEW x PROVE x \in Range(h) <=> x \in Range(f) \/ x = v
  BY <1>1, <1>3, RangeIs
<1> QED BY <1>2, <1>3 DEF h

\* Adding a text adds it, and nothing else.
LEMMA AddRange ==
  ASSUME NEW f, Entries(f), NEW l \in Line, l.op = "add"
  PROVE  /\ Range(Obeyed(l, f)) = Range(f) \cup {l.v}
         /\ \A n \in DOMAIN f : n \in DOMAIN Obeyed(l, f) /\ Obeyed(l, f)[n] = f[n]
<1>0. l.v \in Text
  BY DEF Line
<1>1. CASE l.v \in Range(f)
  <2>1. Obeyed(l, f) = f
    BY <1>1, ObeyedIs
  <2> QED BY <1>1, <2>1
<1>2. CASE l.v \notin Range(f)
  <2> DEFINE k == NextNumber(f)
             h == WithEntry(f, k, l.v)
  <2>1. Obeyed(l, f) = h
    BY <1>2, ObeyedIs
  <2>2. k \in Nat \ {0} /\ k \notin DOMAIN f
    BY NextIsNew
  <2> HIDE DEF k
  <2>3. Range(h) = Range(f) \cup {l.v}
    BY <1>0, <2>2, WithEntryRange
  <2>4. \A n \in DOMAIN f : n \in DOMAIN h /\ h[n] = f[n]
    BY <2>2 DEF WithEntry
  <2> QED BY <2>1, <2>3, <2>4
<1> QED BY <1>1, <1>2

\* What is left when entries are removed.
LEMMA StripIs ==
  ASSUME NEW f, Entries(f), NEW l \in Line, l.op = "remove"
  PROVE  /\ DOMAIN Obeyed(l, f) = DOMAIN f \ Named(l, f)
         /\ \A n \in DOMAIN f \ Named(l, f) : Obeyed(l, f)[n] = f[n]
         /\ l.k = 0 /\ l.v \in Text => Named(l, f) = {n \in DOMAIN f : f[n] = l.v}
         /\ l.k # 0 /\ l.v = "" => Named(l, f) = {n \in DOMAIN f : n = l.k}
         /\ l.k # 0 /\ l.v \in Text => Named(l, f) = {n \in DOMAIN f : n = l.k /\ f[n] = l.v}
<1>1. Obeyed(l, f) = Restrict(f, DOMAIN f \ Named(l, f))
  BY ObeyedIs
<1>2. /\ DOMAIN Obeyed(l, f) = DOMAIN f \ Named(l, f)
      /\ \A n \in DOMAIN f \ Named(l, f) : Obeyed(l, f)[n] = f[n]
  BY <1>1, RestrictEntries
<1>3. l.v \in Text => l.v # ""
  BY NamesAssumption
<1> QED BY <1>2, <1>3 DEF Named

\* Removing a text removes it, and nothing else.
LEMMA StripRange ==
  ASSUME NEW f, Entries(f), NEW l \in Line, l.op = "remove", l.k = 0, l.v \in Text
  PROVE  Range(Obeyed(l, f)) = Range(f) \ {l.v}
<1> DEFINE h == Obeyed(l, f)
<1>1. DOMAIN h = {n \in DOMAIN f : f[n] # l.v} /\ \A n \in DOMAIN h : h[n] = f[n]
  <2> DEFINE N == Named(l, f)
  <2>1. N = {n \in DOMAIN f : f[n] = l.v}
    BY StripIs
  <2>2. DOMAIN h = DOMAIN f \ N /\ \A n \in DOMAIN f \ N : h[n] = f[n]
    BY StripIs
  <2> HIDE DEF N, h
  <2> QED BY <2>1, <2>2
<1> HIDE DEF h
<1>2. ASSUME NEW x PROVE x \in Range(h) <=> x \in Range(f) /\ x # l.v
  BY <1>1, RangeIs
<1> QED BY <1>2 DEF h

LEMMA AlikeUncertain ==
  ASSUME NEW j, ~Certain(j), NEW g, NEW f
  PROVE  Alike(j, g, f)
  BY DEF Alike, Certain

\* A job finds its object alike.
LEMMA StartsAlike ==
  ASSUME NEW j, Accepted(j), NEW s, Configuration(s), NEW nx, PlanFor(nx, j, s).answer = "",
         NEW g, g = Contents(s, j.o)
  PROVE  /\ Alike(j, g, g) /\ Kept(nx, j, g, g)
         /\ Certain(j) => j.o \in DOMAIN s /\ g = s[j.o]
         /\ j.op \in {"detach", "flip", "editMember"} => j.k \in DOMAIN g /\ g[j.k] = j.v
         /\ j.op = "attach" => j.k \notin DOMAIN g
<1>1. Kept(nx, j, g, g)
  BY DEF Kept
<1>2. CASE j.op = "attach"
  <2>1. j.o \in DOMAIN s /\ j.k \notin DOMAIN s[j.o]
    BY <1>2, AttachSends
  <2>2. g = s[j.o] /\ Dirs(j) = {j.k}
    BY <1>2, <2>1 DEF Contents, Dirs
  <2> QED BY <1>1, <1>2, <2>1, <2>2 DEF Alike
<1>3. CASE j.op = "detach"
  <2>1. j.k \in DOMAIN g /\ g[j.k] = j.v /\ j.o \in DOMAIN s /\ g = s[j.o]
    <3>1. At(s, j.o, j.k, j.v)
      BY <1>3, DetachSends
    <3> QED BY <3>1, NoEntries DEF At, Contents
  <2>2. Dirs(j) = {j.k}
    BY <1>3 DEF Dirs
  <2> QED BY <1>1, <1>3, <2>1, <2>2 DEF Alike
<1>4. CASE j.op = "flip"
  <2>1. j.k \in DOMAIN g /\ g[j.k] = j.v /\ j.o \in DOMAIN s /\ g = s[j.o]
    <3>1. At(s, j.o, j.k, j.v)
      BY <1>4, FlipSends
    <3> QED BY <3>1, NoEntries DEF At, Contents
  <2>2. Opposite(j.k) \in DOMAIN g => g[Opposite(j.k)] = j.v
    <3>1. Opposite(j.k) \in DOMAIN s[j.o] => At(s, j.o, Opposite(j.k), j.v)
      BY <1>4, FlipSends
    <3> QED BY <2>1, <3>1 DEF At
  <2>3. Dirs(j) = {j.k, Opposite(j.k)}
    BY <1>4, DirsAre DEF BindingOps
  <2> QED BY <1>1, <1>4, <2>1, <2>2, <2>3 DEF Alike
<1>5. CASE j.op = "addMember"
  <2>1. j.o \in DOMAIN s
    BY <1>5, AddMemberSends
  <2> QED BY <1>1, <1>5, <2>1 DEF Alike, Contents, BindingOps
<1>6. CASE j.op = "editMember"
  <2>1. At(s, j.o, j.k, j.v)
    BY <1>6, EditMemberSends
  <2>2. j.k \in DOMAIN g /\ g[j.k] = j.v /\ j.o \in DOMAIN s /\ g = s[j.o]
    BY <2>1, NoEntries DEF At, Contents
  <2> QED BY <1>1, <1>6, <2>2 DEF Alike, BindingOps
<1>7. CASE ~Certain(j)
  BY <1>1, <1>7, AlikeUncertain, CertainIs
<1> QED BY <1>2, <1>3, <1>4, <1>5, <1>6, <1>7, CertainIs

\* Binding and taking a binding away, in a direction of the job.
LEMMA BindingAlike ==
  ASSUME NEW j, Accepted(j), j.op \in BindingOps, NEW f, Entries(f), NEW g, Alike(j, g, f),
         NEW l \in StepsOf(j)
  PROVE  Alike(j, g, Obeyed(l, f))
<1> DEFINE h == Obeyed(l, f)
<1>0. l \in Line
  BY DEF StepsOf, LineAt
<1>1. /\ j.op # "addMember" /\ j.op # "editMember" /\ Dirs(j) \subseteq Nat \ {0}
      /\ j.o \in Objects /\ j.v \in Text
  BY AcceptedIs, DirsAre DEF BindingOps
<1>2. /\ \A n : n \notin Dirs(j) => /\ n \in DOMAIN f <=> n \in DOMAIN g
                                    /\ n \in DOMAIN g => f[n] = g[n]
      /\ \A n \in Dirs(j) : n \in DOMAIN f => f[n] = j.v
  BY DEF Alike
<1>3. SUFFICES /\ \A n : n \notin Dirs(j) => /\ n \in DOMAIN h <=> n \in DOMAIN f
                                             /\ n \in DOMAIN f => h[n] = f[n]
               /\ \A n \in Dirs(j) : n \in DOMAIN h => h[n] = j.v
  <2> HIDE DEF h
  <2>1. \A n : n \notin Dirs(j) => /\ n \in DOMAIN h <=> n \in DOMAIN g
                                   /\ n \in DOMAIN g => h[n] = g[n]
    BY <1>2, <1>3
  <2> QED BY <1>1, <1>3, <2>1 DEF Alike, h
<1>4. l \in BindingLines(j)
  BY BindingSteps
<1>5. CASE l = Enter(j.o)
  <2>1. l.op = "enter"
    BY <1>5 DEF Enter, Command
  <2>2. h = f
    BY <2>1, ObeyedIs
  <2> QED BY <1>2, <2>2
<1>6. ASSUME NEW d \in Dirs(j), l = Put(j.o, d, j.v)
      PROVE  /\ \A n : n \notin Dirs(j) => /\ n \in DOMAIN h <=> n \in DOMAIN f
                                           /\ n \in DOMAIN f => h[n] = f[n]
             /\ \A n \in Dirs(j) : n \in DOMAIN h => h[n] = j.v
  <2>1. l.op = "put" /\ l.k = d /\ l.v = j.v
    BY <1>6 DEF Put, Command
  <2>2. h = WithEntry(f, d, j.v)
    BY <2>1, ObeyedIs
  <2>3. DOMAIN h = DOMAIN f \cup {d} /\ h[d] = j.v /\ \A n \in DOMAIN f : n # d => h[n] = f[n]
    BY <2>2 DEF WithEntry
  <2> HIDE DEF h
  <2> QED BY <1>2, <2>3
<1>7. ASSUME NEW d \in Dirs(j), l = Strip(j.o, d, j.v)
      PROVE  /\ \A n : n \notin Dirs(j) => /\ n \in DOMAIN h <=> n \in DOMAIN f
                                           /\ n \in DOMAIN f => h[n] = f[n]
             /\ \A n \in Dirs(j) : n \in DOMAIN h => h[n] = j.v
  <2>1. l.op = "remove" /\ l.k = d /\ l.v = j.v /\ d # 0
    BY <1>1, <1>7 DEF Strip, Command
  <2> DEFINE N == Named(l, f)
  <2>2. N = {n \in DOMAIN f : n = d /\ f[n] = j.v}
    BY <1>1, <2>1, NamesAssumption DEF Named
  <2>3. DOMAIN h = DOMAIN f \ N /\ \A n \in DOMAIN f \ N : h[n] = f[n]
    BY <1>0, <2>1, StripIs
  <2> HIDE DEF h, N
  <2> QED BY <1>2, <2>2, <2>3
<1> QED BY <1>4, <1>5, <1>6, <1>7 DEF BindingLines

LEMMA MemberAlike ==
  ASSUME NEW j, Accepted(j), j.op \in {"addMember", "editMember"}, NEW f, Entries(f), NEW g,
         Alike(j, g, f), NEW l \in StepsOf(j),
         l = Strip(j.o, j.k, "") => j.k # 0 /\ (j.k \in DOMAIN f => f[j.k] = j.v)
  PROVE  Alike(j, g, Obeyed(l, f))
<1> DEFINE h == Obeyed(l, f)
           X == IF j.op = "addMember" THEN {j.v} ELSE {j.v, j.w}
<1>0. l \in Line
  BY DEF StepsOf, LineAt
<1>1. /\ j.o \in Objects /\ j.k \in Nat /\ j.v \in Text /\ j.op \notin BindingOps
      /\ j.op = "editMember" => j.w \in Text
  BY AcceptedIs DEF BindingOps
<1>2. Range(f) \ X = Range(g) \ X
  BY DEF Alike
<1>3. SUFFICES Range(h) \ X = Range(f) \ X
  <2>1. Range(h) \ X = Range(g) \ X
    BY <1>2, <1>3
  <2> HIDE DEF h
  <2> QED BY <1>1, <2>1 DEF Alike, h
<1>4. \/ l = Enter(j.o)
      \/ \E x \in X : x \in Text /\ l \in {Add(j.o, x), Strip(j.o, 0, x)}
      \/ j.op = "editMember" /\ l = Strip(j.o, j.k, "")
  BY <1>1, AddedSteps, EditedSteps DEF AddedLines, EditedLines
<1>5. CASE l = Enter(j.o)
  <2>1. l.op = "enter"
    BY <1>5 DEF Enter, Command
  <2> QED BY <2>1, ObeyedIs
<1>6. ASSUME NEW x \in X, x \in Text, l = Add(j.o, x) PROVE Range(h) \ X = Range(f) \ X
  <2>1. l.op = "add" /\ l.v = x
    BY <1>6 DEF Add, Command
  <2>2. Range(h) = Range(f) \cup {x}
    BY <1>0, <1>6, <2>1, AddRange
  <2> HIDE DEF h, X
  <2> QED BY <2>2
<1>7. ASSUME NEW x \in X, x \in Text, l = Strip(j.o, 0, x) PROVE Range(h) \ X = Range(f) \ X
  <2>1. l.op = "remove" /\ l.k = 0 /\ l.v = x
    BY <1>7 DEF Strip, Command
  <2>2. Range(h) = Range(f) \ {x}
    <3> HIDE DEF X
    <3>1. l.v \in Text
      BY <1>7, <2>1
    <3>2. Range(Obeyed(l, f)) = Range(f) \ {l.v}
      BY <1>0, <2>1, <3>1, StripRange
    <3> QED BY <2>1, <3>2
  <2> HIDE DEF h, X
  <2> QED BY <2>2
<1>8. CASE j.op = "editMember" /\ l = Strip(j.o, j.k, "")
  <2>1. l.op = "remove" /\ l.k = j.k /\ l.v = "" /\ j.k # 0
    BY <1>8 DEF Strip, Command
  <2> DEFINE N == Named(l, f)
  <2>2. N = {n \in DOMAIN f : n = j.k}
    BY <2>1 DEF Named
  <2>3. DOMAIN h = DOMAIN f \ N /\ \A n \in DOMAIN f \ N : h[n] = f[n]
    BY <1>0, <2>1, StripIs
  <2>4. \A n \in N : f[n] = j.v
    BY <1>8, <2>2
  <2> HIDE DEF h, N
  <2>5. ASSUME NEW x, x # j.v PROVE x \in Range(h) <=> x \in Range(f)
    <3>1. \A n \in DOMAIN f : f[n] = x => n \in DOMAIN h /\ h[n] = x
      BY <2>3, <2>4, <2>5
    <3>2. \A n \in DOMAIN h : n \in DOMAIN f /\ h[n] = f[n]
      BY <2>3
    <3> QED BY <3>1, <3>2 DEF Range
  <2> QED BY <2>5
<1> QED BY <1>4, <1>5, <1>6, <1>7, <1>8

LEMMA StepAlike ==
  ASSUME NEW j, Accepted(j), NEW f, Entries(f), NEW g, Alike(j, g, f), NEW l \in StepsOf(j),
         j.op = "editMember" /\ l = Strip(j.o, j.k, "") =>
            j.k # 0 /\ (j.k \in DOMAIN f => f[j.k] = j.v)
  PROVE  Alike(j, g, Obeyed(l, f))
<1>1. CASE j.op \in BindingOps
  BY <1>1, BindingAlike
<1>2. CASE j.op = "editMember"
  BY <1>2, MemberAlike
<1>3. CASE j.op = "addMember"
  <2>1. l # Strip(j.o, j.k, "")
    <3>1. l \in AddedLines(j) /\ j.o \in Objects /\ j.k \in Nat /\ j.v \in Text
      BY <1>3, AddedSteps, AcceptedIs
    <3>2. Strip(j.o, j.k, "").op = "remove" /\ Strip(j.o, j.k, "").v = ""
      BY DEF Strip, Command
    <3>3. Enter(j.o).op = "enter" /\ Add(j.o, j.v).op = "add" /\ Strip(j.o, 0, j.v).v = j.v
      BY DEF Enter, Add, Strip, Command
    <3>4. j.v # ""
      BY <3>1, NamesAssumption
    <3> QED BY <3>1, <3>2, <3>3, <3>4 DEF AddedLines
  <2> QED BY <1>3, <2>1, MemberAlike
<1>4. CASE ~Certain(j)
  BY <1>4, AlikeUncertain
<1> QED BY <1>1, <1>2, <1>3, <1>4 DEF Certain

-------------------------------------------------------------------------------
(* Short sets *)

LEMMA ObeyAt ==
  ASSUME NEW c, Configuration(c), NEW o \in Objects, NEW l \in LineAt(o), l.op # "delete"
  PROVE  /\ Configuration(Obey(c, l)) /\ o \in DOMAIN Obey(c, l)
         /\ Contents(Obey(c, l), o) = Obeyed(l, Contents(c, o))
         /\ \A p : p # o => Contents(Obey(c, l), p) = Contents(c, p)
<1>1. l \in Line /\ l.o = o
  BY DEF LineAt
<1> QED BY <1>1, ObeyConfiguration

\* Entering an object is no change to its entries.
LEMMA ObeyEnter ==
  ASSUME NEW c, Configuration(c), NEW o \in Objects
  PROVE  /\ Configuration(Obey(c, Enter(o))) /\ o \in DOMAIN Obey(c, Enter(o))
         /\ \A p : Contents(Obey(c, Enter(o)), p) = Contents(c, p)
<1>1. Enter(o) \in LineAt(o) /\ Enter(o).op = "enter"
  BY EnterForm
<1>2. Obeyed(Enter(o), Contents(c, o)) = Contents(c, o)
  BY <1>1, ObeyedIs
<1> QED BY <1>1, <1>2, ObeyAt

LEMMA EnterAnd ==
  ASSUME NEW c, Configuration(c), NEW o \in Objects, NEW a \in LineAt(o), a.op # "delete"
  PROVE  /\ Configuration(ObeyAll(c, <<Enter(o), a>>))
         /\ Contents(ObeyAll(c, <<Enter(o), a>>), o) = Obeyed(a, Contents(c, o))
         /\ \A p : p # o => Contents(ObeyAll(c, <<Enter(o), a>>), p) = Contents(c, p)
<1> DEFINE d == Obey(c, Enter(o))
<1>1. Enter(o) \in Line /\ a \in Line
  BY EnterForm DEF LineAt
<1>2. ObeyAll(c, <<Enter(o), a>>) = Obey(d, a)
  BY <1>1, ObeyTwo
<1>3. Configuration(d) /\ \A p : Contents(d, p) = Contents(c, p)
  BY ObeyEnter
<1> HIDE DEF d
<1> QED BY <1>2, <1>3, ObeyAt

LEMMA EnterAndThen ==
  ASSUME NEW c, Configuration(c), NEW o \in Objects, NEW a \in LineAt(o), a.op # "delete",
         NEW b \in LineAt(o), b.op # "delete"
  PROVE  /\ Configuration(ObeyAll(c, <<Enter(o), a, b>>))
         /\ Contents(ObeyAll(c, <<Enter(o), a, b>>), o) = Obeyed(b, Obeyed(a, Contents(c, o)))
         /\ \A p : p # o => Contents(ObeyAll(c, <<Enter(o), a, b>>), p) = Contents(c, p)
<1> DEFINE d == Obey(c, Enter(o))
           e == Obey(d, a)
<1>1. Enter(o) \in Line /\ a \in Line /\ b \in Line
  BY EnterForm DEF LineAt
<1>2. ObeyAll(c, <<Enter(o), a, b>>) = Obey(e, b)
  BY <1>1, ObeyThree
<1>3. Configuration(d) /\ \A p : Contents(d, p) = Contents(c, p)
  BY ObeyEnter
<1> HIDE DEF d
<1>4. /\ Configuration(e) /\ Contents(e, o) = Obeyed(a, Contents(c, o))
      /\ \A p : p # o => Contents(e, p) = Contents(c, p)
  BY <1>3, ObeyAt
<1> HIDE DEF e
<1> QED BY <1>2, <1>4, ObeyAt

\* The rollback of a flip or an edit, once all its lines are obeyed, took out
\* what the set put in and put back what it took out.
LEMMA UndoReverts ==
  ASSUME NEW j, Accepted(j), NEW s, Configuration(s), NEW nx, PlanFor(nx, j, s).answer = "",
         NEW c, Configuration(c), NEW g, Alike(j, g, Contents(c, j.o))
  PROVE  Reverted(j, Contents(ObeyAll(c, PlanFor(nx, j, s).undo), j.o))
<1> DEFINE o == j.o
           f == Contents(c, o)
           u == PlanFor(nx, j, s).undo
           h == Contents(ObeyAll(c, u), o)
<1>1. o \in Objects /\ Entries(f)
  BY AcceptedIs, ContentsEntries
<1>2. CASE j.op = "flip"
  <2> DEFINE a == Strip(o, Opposite(j.k), j.v)
             b == Put(o, j.k, j.v)
  <2>1. u = <<Enter(o), a, b>>
    <3>1. PlanFor(nx, j, s) =
            Send(<<Enter(o), Strip(o, j.k, j.v), Put(o, Opposite(j.k), j.v)>>,
                 <<Enter(o), a, b>>)
      BY <1>2, FlipSends
    <3> QED BY <3>1, SendsIs, Zenon
  <2>2. /\ j.k \in Nat \ {0} /\ Opposite(j.k) \in Nat \ {0} /\ j.v \in Text
        /\ Opposite(j.k) # j.k
    BY <1>2, AcceptedIs, DirsAre DEF BindingOps
  <2>3. /\ a \in LineAt(o) /\ a.op = "remove" /\ a.k = Opposite(j.k) /\ a.v = j.v
        /\ b \in LineAt(o) /\ b.op = "put" /\ b.k = j.k
    <3>1. a.op = "remove" /\ a.k = Opposite(j.k) /\ a.v = j.v /\ b.op = "put" /\ b.k = j.k
      BY DEF Strip, Put, Command
    <3>2. a \in LineAt(o)
      BY <1>1, <2>2, StripForm
    <3>3. b \in LineAt(o)
      BY <1>1, <2>2, PutForm
    <3> QED BY <3>1, <3>2, <3>3
  <2> HIDE DEF f, a, b
  <2>4. h = Obeyed(b, Obeyed(a, f))
    <3>1. Contents(ObeyAll(c, <<Enter(o), a, b>>), o) = Obeyed(b, Obeyed(a, f))
      BY <1>1, <2>3, EnterAndThen DEF f
    <3> QED BY <2>1, <3>1
  <2>5. Obeyed(b, Obeyed(a, f)) = WithEntry(Obeyed(a, f), j.k, b.v)
    BY <2>3, ObeyedIs
  <2>6. j.k \in DOMAIN h
    BY <2>4, <2>5 DEF WithEntry
  <2>7. Opposite(j.k) \in DOMAIN f => f[Opposite(j.k)] = j.v
    BY <1>2, DirsAre DEF Alike, BindingOps, f
  <2>8. Opposite(j.k) \notin DOMAIN Obeyed(a, f)
    <3>1. a \in Line
      BY <2>3 DEF LineAt
    <3>2. DOMAIN Obeyed(a, f) = DOMAIN f \ Named(a, f)
      BY <1>1, <2>3, <3>1, StripIs
    <3>3. Opposite(j.k) \in DOMAIN f => Opposite(j.k) \in Named(a, f)
      BY <2>3, <2>7 DEF Named
    <3> QED BY <3>2, <3>3
  <2>9. Opposite(j.k) \notin DOMAIN h
    BY <2>2, <2>4, <2>5, <2>8 DEF WithEntry
  <2> QED BY <1>2, <2>6, <2>9 DEF Reverted
<1>3. CASE j.op = "editMember"
  <2> DEFINE a == Strip(o, 0, j.w)
             b == Add(o, j.v)
  <2>1. u = <<Enter(o), a, b>> /\ j.v # j.w
    <3>1. /\ j.v # j.w
          /\ PlanFor(nx, j, s) = Send(<<Enter(o), DeleteTarget(nx, j), Add(o, j.w)>>,
                                      <<Enter(o), a, b>>)
      BY <1>3, EditMemberSends
    <3> QED BY <3>1, SendsIs, Zenon
  <2>2. j.v \in Text /\ j.w \in Text
    BY <1>3, AcceptedIs
  <2>3. /\ a \in LineAt(o) /\ a.op = "remove" /\ a.k = 0 /\ a.v = j.w
        /\ b \in LineAt(o) /\ b.op = "add" /\ b.v = j.v
    <3>1. a.op = "remove" /\ a.k = 0 /\ a.v = j.w /\ b.op = "add" /\ b.v = j.v
      BY DEF Strip, Add, Command
    <3>2. a \in LineAt(o)
      BY <1>1, <2>2, StripForm
    <3>3. b \in LineAt(o)
      BY <1>1, <2>2, AddForm
    <3> QED BY <3>1, <3>2, <3>3
  <2> HIDE DEF f, a, b
  <2>4. h = Obeyed(b, Obeyed(a, f))
    <3>1. Contents(ObeyAll(c, <<Enter(o), a, b>>), o) = Obeyed(b, Obeyed(a, f))
      BY <1>1, <2>3, EnterAndThen DEF f
    <3> QED BY <2>1, <3>1
  <2>5. a \in Line /\ b \in Line
    BY <2>3 DEF LineAt
  <2>6. Range(Obeyed(a, f)) = Range(f) \ {a.v} /\ Entries(Obeyed(a, f))
    BY <1>1, <2>2, <2>3, <2>5, StripRange, ObeyedEntries
  <2>7. Range(h) = Range(Obeyed(a, f)) \cup {b.v}
    BY <2>3, <2>4, <2>5, <2>6, AddRange
  <2> HIDE DEF h
  <2>8. j.w \notin Range(h) /\ j.v \in Range(h)
    BY <2>1, <2>3, <2>6, <2>7
  <2> QED BY <1>3, <2>8 DEF Reverted, h
<1>4. CASE j.op \notin {"flip", "editMember"}
  BY <1>4 DEF Reverted
<1> QED BY <1>2, <1>3, <1>4

-------------------------------------------------------------------------------
(* What the reads show *)

LEMMA ConfirmsIs ==
  ASSUME NEW j, NEW s, Confirms(j, s)
  PROVE  /\ j.op = "attach" => At(s, j.o, j.k, j.v)
         /\ j.op = "detach" => ~At(s, j.o, j.k, j.v)
         /\ j.op = "addMember" => j.v \in Texts(s, j.o)
         /\ j.op = "editMember" => j.w \in Texts(s, j.o) /\ j.v \notin Texts(s, j.o)
<1>1. j.op = "attach" => At(s, j.o, j.k, j.v)
  BY Zenon DEF Confirms, Shows
<1>2. j.op = "detach" => ~At(s, j.o, j.k, j.v)
  BY Zenon DEF Confirms, Shows
<1>3. j.op = "addMember" => j.v \in Texts(s, j.o)
  BY Zenon DEF Confirms, Shows
<1>4. j.op = "editMember" => j.w \in Texts(s, j.o)
  BY Zenon DEF Confirms, Shows
<1>5. j.op = "editMember" => j.v \notin Texts(s, j.o)
  BY DEF Confirms
<1> QED BY <1>1, <1>2, <1>3, <1>4, <1>5

LEMMA RestoredIs ==
  ASSUME NEW j, NEW s, Restored(j, s, TRUE)
  PROVE  /\ j.op = "attach" => ~At(s, j.o, j.k, j.v)
         /\ j.op = "detach" => At(s, j.o, j.k, j.v)
         /\ j.op = "editMember" => j.v \in Texts(s, j.o)
<1>1. j.op = "attach" => ~At(s, j.o, j.k, j.v)
  BY Zenon DEF Restored
<1>2. j.op = "detach" => At(s, j.o, j.k, j.v)
  BY Zenon DEF Restored
<1>3. j.op = "editMember" => j.v \in Texts(s, j.o)
  BY Zenon DEF Restored
<1> QED BY <1>1, <1>2, <1>3

\* Other objects are as they were.
Elsewhere(o, c, s) == \A p : p # o => Contents(c, p) = Contents(s, p)

LEMMA SameIf ==
  ASSUME NEW c, NEW d, NEW o,
         \A p : p # o => Contents(c, p) = Contents(d, p), View(c, o) = View(d, o)
  PROVE  Same(c, d)
  BY DEF Same, View, Texts

LEMMA ViewIs ==
  ASSUME NEW c, NEW o
  PROVE  /\ o \in Interfaces \cup Lists => View(c, o) = Contents(c, o)
         /\ o \in Groups \cup Ranges => View(c, o) = Range(Contents(c, o))
  BY NamesAssumption DEF View, Texts

\* Two objects that are alike to a third, and agree on what the job is about.
LEMMA SameBindings ==
  ASSUME NEW j, j.op \in BindingOps, NEW g, NEW f, Entries(f), Alike(j, g, f),
         NEW h, Entries(h), Alike(j, g, h),
         \A n \in Dirs(j) : n \in DOMAIN f <=> n \in DOMAIN h
  PROVE  f = h
<1>1. DOMAIN f = DOMAIN h
  BY DEF Alike
<1>2. \A n \in DOMAIN f : f[n] = h[n]
  BY <1>1 DEF Alike
<1> QED BY <1>1, <1>2, SameEntries

\* A binding or a member that the read back confirms is exactly the change asked
\* for, whatever was refused on the way.
LEMMA ConfirmedBinding ==
  ASSUME NEW j, Accepted(j), NEW s, Configuration(s), NEW nx, PlanFor(nx, j, s).answer = "",
         j.op \in {"attach", "detach"}, NEW c, Configuration(c),
         Elsewhere(j.o, c, s),
         Alike(j, Contents(s, j.o), Contents(c, j.o)), Confirms(j, c)
  PROVE  Same(c, ObeyAll(s, PlanFor(nx, j, s).set))
<1> USE DEF Elsewhere
<1> DEFINE o == j.o
           g == Contents(s, o)
           f == Contents(c, o)
           l == IF j.op = "attach" THEN Put(o, j.k, j.v) ELSE Strip(o, j.k, j.v)
           h == Obeyed(l, g)
           d == ObeyAll(s, <<Enter(o), l>>)
<1>1. PlanFor(nx, j, s).set = <<Enter(o), l>>
  <2>1. CASE j.op = "attach"
    <3>1. PlanFor(nx, j, s) = Send(<<Enter(o), l>>, <<Enter(o), Strip(o, j.k, j.v)>>)
      BY <2>1, AttachSends
    <3> QED BY <3>1, SendsIs, Zenon
  <2>2. CASE j.op = "detach"
    <3>1. PlanFor(nx, j, s) = Send(<<Enter(o), l>>, <<Enter(o), Put(o, j.k, j.v)>>)
      BY <2>2, DetachSends
    <3> QED BY <3>1, SendsIs, Zenon
  <2> QED BY <2>1, <2>2
<1>2. /\ o \in Objects /\ o \in Interfaces /\ j.k \in Nat \ {0} /\ j.v \in Text
      /\ j.op \in BindingOps /\ Dirs(j) = {j.k} /\ Entries(g) /\ Entries(f)
  BY AcceptedIs, DirsAre, ContentsEntries DEF BindingOps
<1>3. /\ l \in LineAt(o) /\ l.k = j.k /\ l.v = j.v /\ l \in StepsOf(j)
      /\ j.op = "attach" => l.op = "put"
      /\ j.op = "detach" => l.op = "remove"
  <2>1. Put(o, j.k, j.v) \in StepsOf(j) /\ Strip(o, j.k, j.v) \in StepsOf(j)
    BY <1>2, BindingSteps
  <2>2. Put(o, j.k, j.v) \in LineAt(o) /\ Strip(o, j.k, j.v) \in LineAt(o)
    BY <2>1 DEF StepsOf
  <2>3. /\ Put(o, j.k, j.v).op = "put" /\ Put(o, j.k, j.v).k = j.k /\ Put(o, j.k, j.v).v = j.v
        /\ Strip(o, j.k, j.v).op = "remove" /\ Strip(o, j.k, j.v).k = j.k
        /\ Strip(o, j.k, j.v).v = j.v
    BY DEF Put, Strip, Command
  <2> QED BY <2>1, <2>2, <2>3
<1>4. /\ Alike(j, g, g)
      /\ j.op = "detach" => j.k \in DOMAIN g /\ g[j.k] = j.v
  BY StartsAlike
<1> HIDE DEF l, f, g
<1>5. /\ Contents(d, o) = h /\ \A p : p # o => Contents(d, p) = Contents(s, p)
  BY <1>2, <1>3, EnterAnd DEF g
<1>6. Entries(h) /\ Alike(j, g, h)
  <2>1. l \in Line
    BY <1>3 DEF LineAt
  <2> QED BY <1>2, <1>3, <1>4, <2>1, ObeyedEntries, BindingAlike
<1>7. j.op = "attach" => j.k \in DOMAIN h /\ j.k \in DOMAIN f
  <2>1. j.op = "attach" => At(c, o, j.k, j.v)
    BY ConfirmsIs
  <2>2. j.op = "attach" => j.k \in DOMAIN f
    BY <2>1 DEF At, f
  <2>3. j.op = "attach" => h = WithEntry(g, j.k, j.v)
    BY <1>3, ObeyedIs
  <2> HIDE DEF h
  <2>4. j.op = "attach" => j.k \in DOMAIN h
    BY <2>3 DEF WithEntry
  <2> QED BY <2>2, <2>4
<1>8. j.op = "detach" => j.k \notin DOMAIN h /\ j.k \notin DOMAIN f
  <2> SUFFICES ASSUME j.op = "detach" PROVE j.k \notin DOMAIN h /\ j.k \notin DOMAIN f
    OBVIOUS
  <2>1. ~At(c, o, j.k, j.v)
    BY ConfirmsIs
  <2>2. o \in DOMAIN c => c[o] = f
    BY DEF f, Contents
  <2>3. j.k \in DOMAIN f => f[j.k] = j.v
    BY <1>2 DEF Alike, f, g
  <2>4. j.k \notin DOMAIN f
    <3>1. o \notin DOMAIN c => DOMAIN f = {}
      BY NoEntries DEF f, Contents
    <3> QED BY <2>1, <2>2, <2>3, <3>1 DEF At, f
  <2>5. l \in Line
    BY <1>3 DEF LineAt
  <2>6. DOMAIN h = DOMAIN g \ Named(l, g)
    BY <1>2, <1>3, <2>5, StripIs
  <2>7. j.k \in Named(l, g)
    BY <1>3, <1>4 DEF Named
  <2> QED BY <2>4, <2>6, <2>7
<1> HIDE DEF h, d
<1>9. f = h
  <2>1. \A n \in Dirs(j) : n \in DOMAIN f <=> n \in DOMAIN h
    BY <1>2, <1>7, <1>8
  <2>2. Alike(j, g, f)
    BY DEF f, g
  <2> QED BY <1>2, <1>6, <2>1, <2>2, SameBindings
<1>10. Same(c, d)
  <2>1. \A p : p # o => Contents(c, p) = Contents(d, p)
    BY <1>5
  <2>2. View(c, o) = Contents(c, o) /\ View(d, o) = Contents(d, o)
    BY <1>2, ViewIs
  <2>3. View(c, o) = View(d, o)
    BY <1>5, <1>9, <2>2 DEF f
  <2> HIDE DEF o
  <2> QED BY <2>1, <2>3, SameIf
<1> QED BY <1>1, <1>10 DEF d

LEMMA ConfirmedMember ==
  ASSUME NEW j, Accepted(j), NEW s, Configuration(s), NEW nx, PlanFor(nx, j, s).answer = "",
         j.op \in {"addMember", "editMember"}, NEW c, Configuration(c),
         Elsewhere(j.o, c, s),
         Alike(j, Contents(s, j.o), Contents(c, j.o)),
         Kept(nx, j, Contents(s, j.o), Contents(c, j.o)), Confirms(j, c)
  PROVE  Same(c, ObeyAll(s, PlanFor(nx, j, s).set))
<1> USE DEF Elsewhere
<1> DEFINE o == j.o
           g == Contents(s, o)
           f == Contents(c, o)
           d == ObeyAll(s, PlanFor(nx, j, s).set)
           h == Contents(d, o)
<1>1. /\ o \in Objects /\ o \in Groups /\ j.v \in Text /\ Entries(g) /\ Entries(f)
      /\ Alike(j, g, g) /\ Alike(j, g, f)
  BY AcceptedIs, ContentsEntries, StartsAlike DEF GroupOps
<1>2. SUFFICES /\ \A p : p # o => Contents(d, p) = Contents(s, p)
               /\ Range(f) = Range(h)
  <2>1. \A p : p # o => Contents(c, p) = Contents(d, p)
    BY <1>2
  <2>2. View(c, o) = View(d, o)
    BY <1>1, <1>2, ViewIs
  <2> HIDE DEF o, d
  <2> QED BY <2>1, <2>2, SameIf DEF d
<1>3. CASE j.op = "addMember"
  <2> DEFINE l == Add(o, j.v)
  <2>1. PlanFor(nx, j, s) = Send(<<Enter(o), l>>, <<Enter(o), Strip(o, 0, j.v)>>)
    BY <1>3, AddMemberSends
  <2>2. d = ObeyAll(s, <<Enter(o), l>>)
    BY <2>1, SendsIs, Zenon
  <2>3. l \in LineAt(o) /\ l.op = "add" /\ l.v = j.v /\ l \in StepsOf(j) /\ l \in Line
    BY <1>1, <1>3, AddForm, AddedSteps DEF LineAt
  <2>4. l # Strip(o, j.k, "")
    <3>1. Strip(o, j.k, "").op = "remove"
      BY DEF Strip, Command
    <3> QED BY <2>3, <3>1
  <2>5. j.v \in Range(f)
    BY <1>3, ConfirmsIs DEF Texts
  <2> HIDE DEF l, f, g, d
  <2>6. h = Obeyed(l, g) /\ \A p : p # o => Contents(d, p) = Contents(s, p)
    BY <1>1, <2>2, <2>3, EnterAnd DEF g
  <2>7. Range(Obeyed(l, g)) = Range(g) \cup {l.v}
    BY <1>1, <2>3, AddRange
  <2>8. Alike(j, g, Obeyed(l, g))
    BY <1>1, <1>3, <2>3, <2>4, MemberAlike
  <2>9. j.v \in Range(Obeyed(l, g))
    BY <2>3, <2>7
  <2>10. Range(f) = Range(Obeyed(l, g))
    <3> DEFINE after == Obeyed(l, g)
    <3>1. /\ Alike(j, g, f) /\ Alike(j, g, after)
          /\ j.v \in Range(f) <=> j.v \in Range(after)
          /\ j.op # "editMember"
      BY <1>1, <1>3, <2>5, <2>8, <2>9
    <3> HIDE DEF after
    <3>2. Range(f) \ {j.v} = Range(after) \ {j.v}
      BY <1>3, <3>1 DEF Alike
    <3>3. j.v \in Range(f) <=> j.v \in Range(after)
      BY <3>1
    <3>4. Range(f) = (Range(f) \ {j.v}) \cup IF j.v \in Range(f) THEN {j.v} ELSE {}
      OBVIOUS
    <3>5. Range(after) = (Range(after) \ {j.v}) \cup IF j.v \in Range(after) THEN {j.v} ELSE {}
      OBVIOUS
    <3>6. Range(f) = Range(after)
      BY <3>2, <3>3, <3>4, <3>5
    <3> QED BY <3>6 DEF after
  <2> QED BY <2>6, <2>10
<1>4. CASE j.op = "editMember"
  <2> DEFINE a == DeleteTarget(nx, j)
             l == Add(o, j.w)
  <2>1. /\ j.v # j.w
        /\ PlanFor(nx, j, s) = Send(<<Enter(o), a, l>>, <<Enter(o), Strip(o, 0, j.w), Add(o, j.v)>>)
    BY <1>4, EditMemberSends
  <2>2. d = ObeyAll(s, <<Enter(o), a, l>>)
    BY <2>1, SendsIs, Zenon
  <2>3. j.w \in Text /\ j.k \in Nat
    BY <1>4, AcceptedIs
  <2>4. l \in LineAt(o) /\ l.op = "add" /\ l.v = j.w /\ l \in StepsOf(j) /\ l \in Line
    BY <1>1, <1>4, <2>3, AddForm, EditedSteps DEF LineAt
  <2>5. /\ a \in LineAt(o) /\ a.op = "remove" /\ a \in StepsOf(j) /\ a \in Line
        /\ nx => a.k = j.k /\ a.v = ""
        /\ ~nx => a.k = 0 /\ a.v = j.v
    <3>1. nx => a = Strip(o, j.k, "")
      BY DEF DeleteTarget
    <3>2. ~nx => a = Strip(o, 0, j.v)
      BY DEF DeleteTarget
    <3>3. a \in StepsOf(j) /\ a \in LineAt(o)
      BY <1>4, <3>1, <3>2, EditedSteps DEF StepsOf
    <3> HIDE DEF a
    <3>4. /\ Strip(o, j.k, "").op = "remove" /\ Strip(o, j.k, "").k = j.k
          /\ Strip(o, j.k, "").v = "" /\ Strip(o, 0, j.v).op = "remove"
          /\ Strip(o, 0, j.v).k = 0 /\ Strip(o, 0, j.v).v = j.v
      BY DEF Strip, Command
    <3> QED BY <3>1, <3>2, <3>3, <3>4 DEF LineAt
  <2>6. j.v \notin Range(f) /\ j.w \in Range(f)
    BY <1>4, ConfirmsIs DEF Texts
  <2>7. j.k \in DOMAIN g /\ g[j.k] = j.v /\ j.k # 0
    BY <1>1, <1>4, StartsAlike DEF Entries
  <2>8. nx => \A n \in DOMAIN g \ {j.k} : n \in DOMAIN f /\ f[n] = g[n]
    BY <1>4 DEF Kept
  <2> DEFINE e == Obeyed(a, g)
  <2> HIDE DEF l, f, g, d, a
  <2>9. h = Obeyed(l, e) /\ \A p : p # o => Contents(d, p) = Contents(s, p)
    BY <1>1, <2>2, <2>4, <2>5, EnterAndThen DEF g
  <2>10. Entries(e)
    BY <1>1, <2>5, ObeyedEntries
  <2>11. Alike(j, g, e)
    BY <1>1, <1>4, <2>5, <2>7, MemberAlike
  <2>12. j.v \notin Range(e)
    <3>1. CASE nx
      <4> DEFINE N == Named(a, g)
      <4>1. N = {n \in DOMAIN g : n = j.k}
        BY <2>5, <2>7, <3>1 DEF Named
      <4>2. DOMAIN e = DOMAIN g \ N /\ \A n \in DOMAIN g \ N : e[n] = g[n]
        BY <1>1, <2>5, StripIs
      <4> HIDE DEF e, N
      <4>3. \A n \in DOMAIN e : n \in DOMAIN f /\ f[n] = e[n]
        BY <2>8, <3>1, <4>1, <4>2
      <4> QED BY <2>6, <4>3 DEF Range
    <3>2. CASE ~nx
      <4>1. Range(e) = Range(g) \ {a.v}
        BY <1>1, <2>5, <3>2, StripRange
      <4> QED BY <2>5, <3>2, <4>1
    <3> QED BY <3>1, <3>2
  <2> HIDE DEF e
  <2>13. Range(Obeyed(l, e)) = Range(e) \cup {l.v}
    BY <2>4, <2>10, AddRange
  <2>14. l # Strip(o, j.k, "")
    <3>1. Strip(o, j.k, "").op = "remove"
      BY DEF Strip, Command
    <3> QED BY <2>4, <3>1
  <2>15. Alike(j, g, Obeyed(l, e))
    BY <1>4, <2>4, <2>10, <2>11, <2>14, MemberAlike
  <2>16. j.v \notin Range(Obeyed(l, e)) /\ j.w \in Range(Obeyed(l, e))
    BY <2>1, <2>4, <2>12, <2>13
  <2>17. Range(f) = Range(Obeyed(l, e))
    <3> DEFINE after == Obeyed(l, e)
    <3>1. /\ Alike(j, g, f) /\ Alike(j, g, after)
          /\ j.v \in Range(f) <=> j.v \in Range(after)
          /\ j.w \in Range(f) <=> j.w \in Range(after)
      BY <1>1, <2>6, <2>15, <2>16
    <3> HIDE DEF after
    <3>2. Range(f) \ {j.v, j.w} = Range(after) \ {j.v, j.w}
      BY <1>4, <3>1 DEF Alike
    <3>3. /\ j.v \in Range(f) <=> j.v \in Range(after)
          /\ j.w \in Range(f) <=> j.w \in Range(after)
      BY <3>1
    <3>4. Range(f) = (Range(f) \ {j.v, j.w}) \cup (IF j.v \in Range(f) THEN {j.v} ELSE {})
            \cup (IF j.w \in Range(f) THEN {j.w} ELSE {})
      OBVIOUS
    <3>5. Range(after) = (Range(after) \ {j.v, j.w}) \cup (IF j.v \in Range(after) THEN {j.v} ELSE {})
            \cup (IF j.w \in Range(after) THEN {j.w} ELSE {})
      OBVIOUS
    <3>6. Range(f) = Range(after)
      BY <3>2, <3>3, <3>4, <3>5
    <3> QED BY <3>6 DEF after
  <2> QED BY <2>9, <2>17
<1> QED BY <1>3, <1>4

\* What a rollback brought back: the binding, when the read after it shows so or
\* every line of the undo was obeyed.
LEMMA RestoredBinding ==
  ASSUME NEW j, Accepted(j), NEW s, Configuration(s), NEW nx, PlanFor(nx, j, s).answer = "",
         j.op \in BindingOps, NEW c, Configuration(c),
         Elsewhere(j.o, c, s),
         Alike(j, Contents(s, j.o), Contents(c, j.o)),
         j.op # "flip" => Restored(j, c, TRUE),
         j.op = "flip" => /\ Reverted(j, Contents(c, j.o))
                          /\ Opposite(j.k) \notin DOMAIN Contents(s, j.o)
  PROVE  Same(c, s)
<1> USE DEF Elsewhere
<1> DEFINE o == j.o
           g == Contents(s, o)
           f == Contents(c, o)
<1>1. /\ o \in Interfaces /\ Entries(g) /\ Entries(f) /\ Alike(j, g, g) /\ Alike(j, g, f)
      /\ j.op = "attach" => j.k \notin DOMAIN g
      /\ j.op \in {"detach", "flip"} => j.k \in DOMAIN g
      /\ j.k \in Dirs(j)
  BY AcceptedIs, DirsAre, ContentsEntries, StartsAlike
<1>2. j.op = "attach" => j.k \notin DOMAIN f
  <2> SUFFICES ASSUME j.op = "attach" PROVE j.k \notin DOMAIN f
    OBVIOUS
  <2>1. ~At(c, o, j.k, j.v)
    BY RestoredIs
  <2>2. j.k \in DOMAIN f => f[j.k] = j.v
    BY <1>1 DEF Alike
  <2>3. o \notin DOMAIN c => DOMAIN f = {}
    BY NoEntries DEF Contents
  <2>4. o \in DOMAIN c => c[o] = f
    BY DEF Contents
  <2> QED BY <2>1, <2>2, <2>3, <2>4 DEF At
<1>3. j.op = "detach" => j.k \in DOMAIN f
  <2>1. j.op = "detach" => At(c, o, j.k, j.v)
    BY RestoredIs
  <2> QED BY <2>1 DEF At
<1>4. j.op = "flip" => /\ j.k \in DOMAIN f /\ Opposite(j.k) \notin DOMAIN f
                       /\ Opposite(j.k) \notin DOMAIN g /\ Dirs(j) = {j.k, Opposite(j.k)}
  BY DirsAre DEF Reverted
<1>5. j.op # "flip" => Dirs(j) = {j.k}
  BY DirsAre
<1> HIDE DEF f, g
<1>6. \A n \in Dirs(j) : n \in DOMAIN f <=> n \in DOMAIN g
  <2>1. CASE j.op = "flip"
    BY <1>1, <1>4, <2>1
  <2>2. CASE j.op # "flip"
    <3>1. j.op \in {"attach", "detach"}
      BY <2>2 DEF BindingOps
    <3> QED BY <1>1, <1>2, <1>3, <1>5, <2>2, <3>1
  <2> QED BY <2>1, <2>2
<1>7. f = g
  BY <1>1, <1>6, SameBindings
<1>8. View(c, o) = View(s, o)
  BY <1>1, <1>7, ViewIs DEF f, g
<1> HIDE DEF o
<1>9. \A p : p # o => Contents(c, p) = Contents(s, p)
  BY DEF o
<1> QED BY <1>8, <1>9, SameIf

LEMMA RestoredMember ==
  ASSUME NEW j, Accepted(j), NEW s, Configuration(s), NEW nx, PlanFor(nx, j, s).answer = "",
         j.op = "editMember", NEW c, Configuration(c),
         Elsewhere(j.o, c, s),
         Alike(j, Contents(s, j.o), Contents(c, j.o)),
         Reverted(j, Contents(c, j.o)), j.w \notin Texts(s, j.o)
  PROVE  Same(c, s)
<1> USE DEF Elsewhere
<1> DEFINE o == j.o
           g == Contents(s, o)
           f == Contents(c, o)
<1>1. o \in Groups /\ Alike(j, g, f)
  BY AcceptedIs DEF GroupOps
<1>2. j.k \in DOMAIN g /\ g[j.k] = j.v
  BY StartsAlike
<1>3. j.v \in Range(g) /\ j.w \notin Range(g)
  BY <1>2 DEF Range, Texts
<1>4. j.v \in Range(f) /\ j.w \notin Range(f)
  BY DEF Reverted
<1> HIDE DEF f, g
<1>5. Range(f) \ {j.v, j.w} = Range(g) \ {j.v, j.w}
  BY <1>1 DEF Alike
<1>6. Range(f) = (Range(f) \ {j.v, j.w}) \cup {j.v}
  BY <1>4
<1>7. Range(g) = (Range(g) \ {j.v, j.w}) \cup {j.v}
  BY <1>3
<1>8. Range(f) = Range(g)
  BY <1>5, <1>6, <1>7
<1>9. View(c, o) = View(s, o)
  BY <1>1, <1>8, ViewIs DEF f, g
<1> HIDE DEF o
<1>10. \A p : p # o => Contents(c, p) = Contents(s, p)
  BY DEF o
<1> QED BY <1>9, <1>10, SameIf

-------------------------------------------------------------------------------
(* A line that is obeyed *)

\* A number is taken out of the member that has it.
Strippable(j, c, l) ==
    j.op = "editMember" /\ l = Strip(j.o, j.k, "") =>
        /\ j.k # 0
        /\ j.k \in DOMAIN Contents(c, j.o) => Contents(c, j.o)[j.k] = j.v

LEMMA ObeyAlike ==
  ASSUME NEW j, Accepted(j), NEW s, Configuration(s), NEW c, Configuration(c),
         Elsewhere(j.o, c, s), NEW g, Alike(j, g, Contents(c, j.o)), NEW l \in StepsOf(j),
         Strippable(j, c, l)
  PROVE  /\ Configuration(Obey(c, l)) /\ Elsewhere(j.o, Obey(c, l), s)
         /\ Alike(j, g, Contents(Obey(c, l), j.o))
<1>1. l \in Line /\ l.o = j.o
  BY DEF StepsOf, LineAt
<1>2. /\ Configuration(Obey(c, l)) /\ Elsewhere(j.o, Obey(c, l), s)
      /\ l.op # "delete" => Contents(Obey(c, l), j.o) = Obeyed(l, Contents(c, j.o))
  <2> DEFINE d == Obey(c, l)
  <2>1. /\ Configuration(d) /\ \A p : p # l.o => Contents(d, p) = Contents(c, p)
        /\ l.op # "delete" => Contents(d, l.o) = Obeyed(l, Contents(c, l.o))
    BY <1>1, ObeyConfiguration
  <2> HIDE DEF d
  <2> QED BY <1>1, <2>1 DEF d, Elsewhere
<1>3. Entries(Contents(c, j.o))
  BY ContentsEntries
<1>4. CASE l.op # "delete"
  <2>1. Alike(j, g, Obeyed(l, Contents(c, j.o)))
    BY <1>3, StepAlike DEF Strippable
  <2> QED BY <1>2, <1>4, <2>1
<1>5. CASE l.op = "delete"
  <2>1. ~Certain(j)
    <3>1. ASSUME NEW d PROVE Put(j.o, d, j.v).op = "put" /\ Strip(j.o, d, j.v).op = "remove"
      BY DEF Put, Strip, Command
    <3>2. /\ Enter(j.o).op = "enter" /\ Add(j.o, j.v).op = "add" /\ Add(j.o, j.w).op = "add"
          /\ Strip(j.o, 0, j.v).op = "remove" /\ Strip(j.o, 0, j.w).op = "remove"
          /\ Strip(j.o, j.k, "").op = "remove"
      BY DEF Enter, Add, Strip, Command
    <3>3. l \notin AddedLines(j) /\ l \notin EditedLines(j)
      BY <1>5, <3>2 DEF AddedLines, EditedLines
    <3>4. l \notin BindingLines(j)
      BY <1>5, <3>1, <3>2 DEF BindingLines
    <3> QED BY <3>3, <3>4 DEF StepsOf, Certain
  <2> QED BY <1>2, <2>1, AlikeUncertain
<1> QED BY <1>4, <1>5

Parts(set, e, t, a) ==
    /\ Head(set) = e /\ Head(Tail(set)) = t /\ Tail(Tail(set)) = <<a>>
    /\ Tail(set) # <<>>

LEMMA Triple ==
  ASSUME NEW S, NEW e \in S, NEW t \in S, NEW a \in S
  PROVE  Parts(<<e, t, a>>, e, t, a)
  BY DEF Parts

\* The set of an edit, and its undo.
LEMMA EditSet ==
  ASSUME NEW j, Accepted(j), NEW s, Configuration(s), NEW nx, PlanFor(nx, j, s).answer = "",
         j.op = "editMember", NEW set, set = PlanFor(nx, j, s).set
  PROVE  /\ Head(set) = Enter(j.o) /\ Head(Tail(set)) = DeleteTarget(nx, j)
         /\ Tail(Tail(set)) = <<Add(j.o, j.w)>> /\ Tail(set) # <<>>
         /\ PlanFor(nx, j, s).undo \in Seq(StepsOf(j) \ {Strip(j.o, j.k, "")})
         /\ j.k # 0
<1>1. /\ At(s, j.o, j.k, j.v)
      /\ PlanFor(nx, j, s) = Send(<<Enter(j.o), DeleteTarget(nx, j), Add(j.o, j.w)>>,
                                  <<Enter(j.o), Strip(j.o, 0, j.w), Add(j.o, j.v)>>)
  BY EditMemberSends
<1>2. /\ set = <<Enter(j.o), DeleteTarget(nx, j), Add(j.o, j.w)>>
      /\ PlanFor(nx, j, s).undo = <<Enter(j.o), Strip(j.o, 0, j.w), Add(j.o, j.v)>>
  BY <1>1, SendsIs, Zenon
<1>3. j.k # 0
  <2>1. j.k \in DOMAIN Contents(s, j.o) /\ Entries(Contents(s, j.o))
    BY <1>1, ContentsEntries DEF At
  <2> QED BY <2>1 DEF Entries
<1>4. PlanFor(nx, j, s).undo \in Seq(StepsOf(j) \ {Strip(j.o, j.k, "")})
  <2> DEFINE e == Enter(j.o)
             U == StepsOf(j) \ {Strip(j.o, j.k, "")}
  <2>1. e \in StepsOf(j) /\ Strip(j.o, 0, j.w) \in StepsOf(j) /\ Add(j.o, j.v) \in StepsOf(j)
    BY EditedSteps
  <2>2. /\ e.op = "enter" /\ Strip(j.o, 0, j.w).k = 0 /\ Add(j.o, j.v).op = "add"
        /\ Strip(j.o, j.k, "").op = "remove" /\ Strip(j.o, j.k, "").k = j.k
    BY DEF Enter, Strip, Add, Command
  <2> HIDE DEF e
  <2>3. e \in U /\ Strip(j.o, 0, j.w) \in U /\ Add(j.o, j.v) \in U
    BY <1>3, <2>1, <2>2
  <2> HIDE DEF U
  <2>4. <<e, Strip(j.o, 0, j.w), Add(j.o, j.v)>> \in Seq(U)
    BY <2>3, ShortSets
  <2> QED BY <1>2, <2>4 DEF e, U
<1>5. /\ Head(set) = Enter(j.o) /\ Head(Tail(set)) = DeleteTarget(nx, j)
      /\ Tail(Tail(set)) = <<Add(j.o, j.w)>> /\ Tail(set) # <<>>
  <2> DEFINE e == Enter(j.o)
             t == DeleteTarget(nx, j)
             a == Add(j.o, j.w)
  <2>1. set = <<e, t, a>>
    BY <1>2
  <2>2. e \in StepsOf(j) /\ t \in StepsOf(j) /\ a \in StepsOf(j)
    BY EditedSteps DEF DeleteTarget
  <2> HIDE DEF e, t, a
  <2>3. Parts(<<e, t, a>>, e, t, a)
    BY <2>2, Triple
  <2>4. Parts(set, e, t, a)
    BY <2>1, <2>3
  <2> QED BY <2>4 DEF e, t, a, Parts
<1> QED BY <1>3, <1>4, <1>5

\* In the set of an edit the other members keep their numbers.
LEMMA EditKeeps ==
  ASSUME NEW j, Accepted(j), j.op = "editMember", NEW nx, NEW c, Configuration(c), NEW g,
         Kept(nx, j, g, Contents(c, j.o)),
         NEW l \in {Enter(j.o), DeleteTarget(nx, j), Add(j.o, j.w)}, j.k # 0,
         l = DeleteTarget(nx, j) => Contents(c, j.o) = g
  PROVE  /\ Kept(nx, j, g, Contents(Obey(c, l), j.o))
         /\ l = Enter(j.o) => Contents(Obey(c, l), j.o) = Contents(c, j.o)
<1> DEFINE o == j.o
           f == Contents(c, o)
           h == Contents(Obey(c, l), o)
<1>1. o \in Objects /\ Entries(f) /\ j.w \in Text
  BY AcceptedIs, ContentsEntries
<1>2. l \in StepsOf(j)
  BY EditedSteps DEF DeleteTarget
<1>3. l \in LineAt(o) /\ l \in Line
  BY <1>2 DEF StepsOf, LineAt
<1>4. CASE l = Enter(o)
  BY <1>1, <1>4, ObeyEnter
<1>5. CASE l = Add(o, j.w)
  <2>1. l.op = "add"
    BY <1>5 DEF Add, Command
  <2>2. l # Enter(o)
    <3>1. Enter(o).op = "enter"
      BY DEF Enter, Command
    <3> QED BY <2>1, <3>1
  <2>3. h = Obeyed(l, f)
    BY <1>1, <1>3, <2>1, ObeyAt
  <2>4. \A n \in DOMAIN f : n \in DOMAIN Obeyed(l, f) /\ Obeyed(l, f)[n] = f[n]
    BY <1>1, <1>3, <2>1, AddRange
  <2> HIDE DEF h, f
  <2>5. Kept(nx, j, g, h)
    BY <2>3, <2>4 DEF Kept, f
  <2> QED BY <2>2, <2>5 DEF h
<1>6. CASE l = DeleteTarget(nx, j)
  <2>1. l.op = "remove" /\ (nx => l.k = j.k /\ l.v = "")
    BY <1>6 DEF DeleteTarget, Strip, Command
  <2>2. l # Enter(o)
    <3>1. Enter(o).op = "enter"
      BY DEF Enter, Command
    <3> QED BY <2>1, <3>1
  <2>3. h = Obeyed(l, f) /\ f = g
    BY <1>1, <1>3, <1>6, <2>1, ObeyAt
  <2> DEFINE N == Named(l, f)
  <2>4. DOMAIN Obeyed(l, f) = DOMAIN f \ N /\ \A n \in DOMAIN f \ N : Obeyed(l, f)[n] = f[n]
    BY <1>1, <1>3, <2>1, StripIs
  <2>5. nx => N = {n \in DOMAIN f : n = j.k}
    BY <2>1 DEF Named
  <2> HIDE DEF h, f, N
  <2>6. Kept(nx, j, g, h)
    BY <2>3, <2>4, <2>5 DEF Kept
  <2> QED BY <2>2, <2>6 DEF h
<1> QED BY <1>4, <1>5, <1>6

-------------------------------------------------------------------------------
(* The invariant *)

LEMMA InitInv == Init => IInv
<1> SUFFICES ASSUME Init PROVE IInv
  OBVIOUS
<1>1. Configuration(conf)
  BY OutsetAssumption DEF Init
<1>2. \A r \in Requests : pc[r] = "idle" /\ err[r] = FALSE
  BY DEF Init
<1>3. \A r \in Requests : Holds(r)
  BY <1>2 DEF Holds, Working, Done
<1>4. TypeInv
  <2>1. \A r \in Requests :
          plan[r] = [answer |-> plan[r].answer, set |-> plan[r].set, undo |-> plan[r].undo]
    BY DEF Init, Answer
  <2> QED BY <1>1, <1>2, <2>1 DEF TypeInv, Init, Sending
<1> QED BY <1>3, <1>4 DEF IInv

\* What another request's step leaves of a request: all of it, or everything but
\* the configuration, if it changed that.
LEMMA Passive ==
  ASSUME NEW r \in Requests, Holds(r), nexus' = nexus,
         pc'[r] = pc[r], job'[r] = job[r], was'[r] = was[r], plan'[r] = plan[r],
         todo'[r] = todo[r], err'[r] = err[r], reply'[r] = reply[r],
         r \in blind' <=> r \in blind, r \in silent' <=> r \in silent,
         r \in disturbed => r \in disturbed',
         pc[r] # "idle" /\ conf' # conf => r \in disturbed'
  PROVE  Holds(r)'
<1> SUFFICES ASSUME Working(r)'
             PROVE  Founded(r)' /\ (Alone(r)' => Placed(r)' /\ Bounded(r)' /\ Seen(r)')
  BY DEF Holds
<1>1. Working(r) /\ pc[r] # "idle"
  BY DEF Working, Done
<1>2. Founded(r) /\ (Alone(r) => Placed(r) /\ Bounded(r) /\ Seen(r))
  BY <1>1 DEF Holds
<1>3. Founded(r)'
  BY <1>2, Zenon DEF Founded
<1>4. ASSUME Alone(r)' PROVE Placed(r)' /\ Bounded(r)' /\ Seen(r)'
  <2>1. conf' = conf /\ Alone(r)
    BY <1>1, <1>4 DEF Alone
  <2>2. Placed(r) /\ Bounded(r) /\ Seen(r)
    BY <1>2, <2>1
  <2>3. Placed(r)'
    BY <2>1, <2>2, Zenon DEF Placed, Done
  <2>4. Bounded(r)'
    BY <2>1, <2>2, Zenon DEF Bounded, Done
  <2>5. Seen(r)'
    BY <2>1, <2>2, Zenon DEF Seen, Done
  <2> QED BY <2>3, <2>4, <2>5
<1> QED BY <1>3, <1>4

\* How a request goes on after a line.
LEMMA SentOutcome ==
  ASSUME TypeInv, NEW r \in Requests, pc[r] \in Sending, NEW rest, NEW seen \in BOOLEAN,
         Sent(r, rest, seen)
  PROVE  /\ todo'[r] = rest /\ err'[r] = seen
         /\ \A q \in Requests \ {r} : /\ todo'[q] = todo[q] /\ err'[q] = err[q]
                                      /\ pc'[q] = pc[q] /\ reply'[q] = reply[q]
         /\ pc' = [q \in Requests |-> pc'[q]] /\ reply' = [q \in Requests |-> reply'[q]]
         /\ todo' = [q \in Requests |-> todo'[q]] /\ err' = [q \in Requests |-> err'[q]]
         /\ rest # <<>> => pc'[r] = pc[r] /\ reply'[r] = reply[r]
         /\ rest = <<>> /\ pc[r] = "config" =>
              \/ ~seen /\ ReadsBack(job[r]) /\ pc'[r] = "verify"
              \/ ~seen /\ ~ReadsBack(job[r]) /\ pc'[r] = "done" /\ reply'[r] = "success"
              \/ pc'[r] = "undoing"
              \/ pc'[r] = "done" /\ reply'[r] = "failed"
         /\ rest = <<>> /\ pc[r] = "rollback" =>
              \/ pc'[r] = "restoreVerify" /\ job[r].op \in {"attach", "detach", "editMember"}
              \/ /\ pc'[r] = "done" /\ reply'[r] # "success"
                 /\ reply'[r] = "restored" => ~seen /\ job[r].op = "flip"
<1>1. /\ todo'[r] = rest /\ err'[r] = seen
      /\ \A q \in Requests \ {r} : todo'[q] = todo[q] /\ err'[q] = err[q]
      /\ todo' = [q \in Requests |-> todo'[q]] /\ err' = [q \in Requests |-> err'[q]]
  BY DEF Sent, TypeInv
<1>2. ASSUME NEW answer, Finish(r, answer)
      PROVE  /\ pc'[r] = "done" /\ reply'[r] = answer
             /\ \A q \in Requests \ {r} : pc'[q] = pc[q] /\ reply'[q] = reply[q]
             /\ pc' = [q \in Requests |-> pc'[q]] /\ reply' = [q \in Requests |-> reply'[q]]
  BY <1>2 DEF Finish, TypeInv
<1>3. CASE rest # <<>>
  BY <1>1, <1>3 DEF Sent, TypeInv
<1>4. CASE rest = <<>> /\ pc[r] = "config"
  <2>1. AfterConfig(r, ~seen)
    <3>1. After(r, ~seen)
      BY <1>4 DEF Sent
    <3> QED BY <1>4, <3>1, Zenon DEF After
  <2>2. CASE ~seen /\ ReadsBack(job[r])
    <3>1. pc' = [pc EXCEPT ![r] = "verify"] /\ reply' = reply
      BY <2>1, <2>2, Zenon DEF AfterConfig
    <3> QED BY <1>1, <1>4, <2>2, <3>1 DEF TypeInv
  <2>3. CASE ~seen /\ ~ReadsBack(job[r])
    <3>1. Finish(r, "success")
      BY <2>1, <2>3, Zenon DEF AfterConfig
    <3> QED BY <1>1, <1>2, <1>4, <2>3, <3>1
  <2>4. CASE seen /\ UndoesErrors(job[r])
    <3>1. pc' = [pc EXCEPT ![r] = "undoing"] /\ reply' = [reply EXCEPT ![r] = "rejected"]
      BY <2>1, <2>4, Zenon DEF AfterConfig
    <3> QED BY <1>1, <1>4, <3>1 DEF TypeInv
  <2>5. CASE seen /\ ~UndoesErrors(job[r])
    <3>1. Finish(r, "failed")
      BY <2>1, <2>5, Zenon DEF AfterConfig
    <3> QED BY <1>1, <1>2, <1>4, <3>1
  <2> QED BY <2>2, <2>3, <2>4, <2>5
<1>5. CASE rest = <<>> /\ pc[r] = "rollback"
  <2>1. AfterRollback(r, ~seen)
    <3>1. After(r, ~seen) /\ pc[r] # "config"
      BY <1>5 DEF Sent
    <3> QED BY <1>5, <3>1, Zenon DEF After
  <2>2. CASE LooksAgain(job[r], reply[r])
    <3>1. pc' = [pc EXCEPT ![r] = "restoreVerify"] /\ reply' = reply
      BY <2>1, <2>2 DEF AfterRollback
    <3>2. job[r].op \in {"attach", "detach", "editMember"}
      BY <2>2 DEF LooksAgain
    <3> QED BY <1>1, <1>5, <3>1, <3>2 DEF TypeInv
  <2>3. CASE ~LooksAgain(job[r], reply[r])
    <3>1. Finish(r, RolledBack(job[r], ~seen))
      BY <2>1, <2>3 DEF AfterRollback
    <3>2. /\ job[r].op = "flip" /\ ~seen => RolledBack(job[r], ~seen) = "restored"
          /\ job[r].op = "flip" /\ seen => RolledBack(job[r], ~seen) = "failed"
          /\ job[r].op = "createGroup" => RolledBack(job[r], ~seen) = "rolledback"
          /\ job[r].op \notin {"flip", "createGroup"} => RolledBack(job[r], ~seen) = "failed"
      BY Zenon DEF RolledBack
    <3>3. /\ RolledBack(job[r], ~seen) # "success"
          /\ RolledBack(job[r], ~seen) = "restored" => ~seen /\ job[r].op = "flip"
      BY <3>2
    <3> QED BY <1>1, <1>2, <1>5, <3>1, <3>3
  <2> QED BY <2>2, <2>3
<1> QED BY <1>3, <1>4, <1>5 DEF Sending

\* A request that sends has a line of its job to send.
LEMMA SendingIs ==
  ASSUME IInv, NEW r \in Requests, pc[r] \in Sending
  PROVE  /\ Founded(r) /\ Accepted(job[r]) /\ Configuration(was[r])
         /\ todo[r] \in Seq(StepsOf(job[r])) /\ todo[r] # <<>>
         /\ Head(todo[r]) \in StepsOf(job[r]) /\ Tail(todo[r]) \in Seq(StepsOf(job[r]))
         /\ Alone(r) => Placed(r) /\ Bounded(r)
<1>1. Holds(r) /\ Working(r)
  BY DEF IInv, Sending, Working
<1>2. Founded(r) /\ (Alone(r) => Placed(r) /\ Bounded(r))
  BY <1>1 DEF Holds
<1>3. /\ job[r] \in Asks[r] /\ Configuration(was[r])
      /\ todo[r] \in Seq(StepsOf(job[r])) /\ todo[r] # <<>>
  BY <1>2 DEF Founded, IInv, TypeInv
<1>4. Accepted(job[r])
  BY <1>3, AsksAssumption
<1> QED BY <1>2, <1>3, <1>4, HeadTailProperties

\* The plan of an edit in progress.
EditOf(nx, j, s, set) ==
    /\ Head(set) = Enter(j.o) /\ Head(Tail(set)) = DeleteTarget(nx, j)
    /\ Tail(Tail(set)) = <<Add(j.o, j.w)>> /\ Tail(set) # <<>>
    /\ j.k # 0 /\ j.k \in DOMAIN Contents(s, j.o) /\ Contents(s, j.o)[j.k] = j.v

LEMMA EditPlan ==
  ASSUME NEW j, Accepted(j), NEW s, Configuration(s), NEW nx, PlanFor(nx, j, s).answer = "",
         j.op = "editMember"
  PROVE  EditOf(nx, j, s, PlanFor(nx, j, s).set)
<1> DEFINE set == PlanFor(nx, j, s).set
<1>1. /\ Head(set) = Enter(j.o) /\ Head(Tail(set)) = DeleteTarget(nx, j)
      /\ Tail(Tail(set)) = <<Add(j.o, j.w)>> /\ Tail(set) # <<>>
      /\ j.k # 0
  BY EditSet
<1>2. j.k \in DOMAIN Contents(s, j.o) /\ Contents(s, j.o)[j.k] = j.v
  BY StartsAlike
<1> QED BY <1>1, <1>2 DEF EditOf

LEMMA EditIs ==
  ASSUME NEW r \in Requests, Founded(r), Accepted(job[r]), job[r].op = "editMember"
  PROVE  EditOf(nexus, job[r], was[r], plan[r].set)
<1>1. Certain(job[r])
  BY CertainIs
<1>2. /\ Configuration(was[r]) /\ PlanFor(nexus, job[r], was[r]).answer = ""
      /\ plan[r].set = PlanFor(nexus, job[r], was[r]).set
  BY <1>1 DEF Founded
<1>3. EditOf(nexus, job[r], was[r], PlanFor(nexus, job[r], was[r]).set)
  BY <1>2, EditPlan
<1> QED BY <1>2, <1>3

\* What a line does, whether it is obeyed or not.
LEMMA LineBounded ==
  ASSUME IInv, NEW r \in Requests, pc[r] \in Sending, Alone(r), NEW d,
         d = conf \/ d = Obey(conf, Head(todo[r]))
  PROVE  LET j == job[r]
             g == Contents(was[r], j.o)
             f == Contents(d, j.o)
         IN  /\ \A o : o # j.o => Contents(d, o) = Contents(was[r], o)
             /\ Alike(j, g, f)
             /\ pc[r] = "config" => Kept(nexus, j, g, f)
             /\ pc[r] = "config" /\ j.op = "editMember" /\ Tail(todo[r]) # <<>> =>
                   \/ f = g /\ Tail(todo[r]) = Tail(plan[r].set)
                   \/ Tail(todo[r]) = <<Add(j.o, j.w)>>
             /\ pc[r] = "rollback" /\ j.op = "editMember" =>
                   Tail(todo[r]) \in Seq(StepsOf(j) \ {Strip(j.o, j.k, "")})
<1> DEFINE j == job[r]
           g == Contents(was[r], j.o)
           f == Contents(d, j.o)
           e == Contents(conf, j.o)
           l == Head(todo[r])
           S == StepsOf(j) \ {Strip(j.o, j.k, "")}
<1>1. /\ Founded(r) /\ Accepted(j) /\ Configuration(was[r]) /\ Configuration(conf)
      /\ l \in StepsOf(j) /\ todo[r] # <<>>
  BY SendingIs DEF IInv, TypeInv
<1>2. /\ \A o : o # j.o => Contents(conf, o) = Contents(was[r], o)
      /\ Alike(j, g, e)
      /\ pc[r] = "config" => Kept(nexus, j, g, e)
      /\ pc[r] = "config" /\ j.op = "editMember" =>
            \/ e = g /\ todo[r] \in {plan[r].set, Tail(plan[r].set)}
            \/ todo[r] = <<Add(j.o, j.w)>>
      /\ pc[r] = "rollback" /\ j.op = "editMember" => todo[r] \in Seq(S)
  <2>1. Bounded(r)
    BY SendingIs
  <2> QED BY <2>1 DEF Bounded
<1>3. j.op = "editMember" =>
        /\ Head(plan[r].set) = Enter(j.o) /\ Head(Tail(plan[r].set)) = DeleteTarget(nexus, j)
        /\ Tail(Tail(plan[r].set)) = <<Add(j.o, j.w)>> /\ Tail(plan[r].set) # <<>>
        /\ j.k # 0 /\ j.k \in DOMAIN g /\ g[j.k] = j.v
  BY <1>1, EditIs DEF EditOf
<1> HIDE DEF j, g, f, e, l
<1>4. ASSUME NEW o, NEW w
      PROVE  Head(<<Add(o, w)>>) = Add(o, w) /\ Tail(<<Add(o, w)>>) = <<>>
  <2> DEFINE a == Add(o, w)
  <2> HIDE DEF a
  <2>1. Head(<<a>>) = a /\ Tail(<<a>>) = <<>>
    OBVIOUS
  <2> QED BY <2>1 DEF a
<1>5. pc[r] = "config" /\ j.op = "editMember" =>
        \/ e = g /\ l = Enter(j.o) /\ Tail(todo[r]) = Tail(plan[r].set)
        \/ e = g /\ l = DeleteTarget(nexus, j) /\ Tail(todo[r]) = <<Add(j.o, j.w)>>
        \/ l = Add(j.o, j.w) /\ Tail(todo[r]) = <<>>
  BY <1>2, <1>3, <1>4, Zenon DEF l
<1>6. pc[r] = "rollback" /\ j.op = "editMember" => l \in S /\ Tail(todo[r]) \in Seq(S)
  BY <1>1, <1>2, HeadTailProperties DEF l
<1>7. /\ Enter(j.o).op = "enter" /\ Add(j.o, j.w).op = "add"
      /\ DeleteTarget(nexus, j).op = "remove" /\ Strip(j.o, j.k, "").op = "remove"
  BY DEF Enter, Add, Strip, Command, DeleteTarget
<1>8. j.op = "editMember" /\ l = Strip(j.o, j.k, "") =>
        j.k # 0 /\ (j.k \in DOMAIN e => e[j.k] = j.v)
  <2> SUFFICES ASSUME j.op = "editMember", l = Strip(j.o, j.k, "")
               PROVE  j.k # 0 /\ e = g
    BY <1>3
  <2>1. pc[r] = "config"
    BY <1>6 DEF Sending
  <2>2. e = g
    BY <1>5, <1>7, <2>1
  <2> QED BY <1>3, <2>2
<1>9. /\ \A o : o # j.o => Contents(d, o) = Contents(was[r], o)
      /\ Alike(j, g, f)
  <2>1. CASE d = conf
    BY <1>2, <2>1 DEF e, f
  <2>2. CASE d = Obey(conf, l)
    <3>1. Elsewhere(j.o, conf, was[r]) /\ Strippable(j, conf, l)
      BY <1>2, <1>8 DEF Elsewhere, Strippable, e
    <3>2. Elsewhere(j.o, Obey(conf, l), was[r]) /\ Alike(j, g, Contents(Obey(conf, l), j.o))
      BY <1>1, <1>2, <3>1, ObeyAlike DEF e
    <3> QED BY <2>2, <3>2 DEF f, Elsewhere
  <2> QED BY <2>1, <2>2 DEF l
<1>10. pc[r] = "config" /\ j.op # "editMember" => Kept(nexus, j, g, f)
  BY DEF Kept
<1>11. ASSUME pc[r] = "config", j.op = "editMember"
       PROVE  /\ Kept(nexus, j, g, f)
              /\ l = Enter(j.o) /\ e = g => f = g
  <2>1. CASE d = conf
    BY <1>2, <1>11, <2>1 DEF e, f
  <2>2. CASE d = Obey(conf, l)
    <3>1. l = DeleteTarget(nexus, j) => e = g
      BY <1>5, <1>7, <1>11
    <3>2. /\ Kept(nexus, j, g, Contents(Obey(conf, l), j.o))
          /\ l = Enter(j.o) => Contents(Obey(conf, l), j.o) = e
      <4>1. l \in {Enter(j.o), DeleteTarget(nexus, j), Add(j.o, j.w)}
        BY <1>5, <1>11
      <4>2. Kept(nexus, j, g, Contents(conf, j.o)) /\ j.k # 0
        BY <1>2, <1>3, <1>11 DEF e
      <4> QED BY <1>1, <1>11, <3>1, <4>1, <4>2, EditKeeps DEF e
    <3> QED BY <2>2, <3>2 DEF f
  <2> QED BY <2>1, <2>2 DEF l
<1>12. pc[r] = "config" /\ j.op = "editMember" /\ Tail(todo[r]) # <<>> =>
         \/ f = g /\ Tail(todo[r]) = Tail(plan[r].set)
         \/ Tail(todo[r]) = <<Add(j.o, j.w)>>
  BY <1>5, <1>11
<1> QED BY <1>6, <1>9, <1>10, <1>11, <1>12 DEF j, g, f

\* The ways a line can go: obeyed, refused, or lost with the session.
Went(r, rest, seen) ==
    \/ /\ rest = Tail(todo[r]) /\ seen = err[r]
       /\ conf' = Obey(conf, Head(todo[r]))
    \/ /\ rest = Skipped(todo[r]) /\ (~seen => r \in silent')
       /\ conf' = conf
    \/ /\ rest = <<>> /\ seen
       /\ conf' = conf \/ conf' = Obey(conf, Head(todo[r]))

\* A line of its own leaves a request what it is.
LEMMA SentHolds ==
  ASSUME IInv, NEW r \in Requests, pc[r] \in Sending, NEW rest, NEW seen \in BOOLEAN,
         Sent(r, rest, seen), Went(r, rest, seen),
         r \in silent => r \in silent', Alone(r)' => Alone(r)
  PROVE  Configuration(conf') /\ Holds(r)'
<1>1. /\ Founded(r) /\ Accepted(job[r]) /\ Configuration(was[r])
      /\ todo[r] \in Seq(StepsOf(job[r])) /\ todo[r] # <<>>
      /\ Head(todo[r]) \in StepsOf(job[r]) /\ Tail(todo[r]) \in Seq(StepsOf(job[r]))
      /\ Alone(r) => Placed(r) /\ Bounded(r)
  BY SendingIs
<1>2. nexus' = nexus /\ job' = job /\ was' = was /\ plan' = plan /\ blind' = blind
  BY DEF Sent
<1>3. /\ rest = <<>> \/ rest = Tail(todo[r])
      /\ conf' = conf \/ conf' = Obey(conf, Head(todo[r]))
  BY DEF Went, Skipped
<1>4. /\ todo'[r] = rest /\ err'[r] = seen
      /\ rest # <<>> => pc'[r] = pc[r] /\ reply'[r] = reply[r]
      /\ rest = <<>> /\ pc[r] = "config" =>
           \/ ~seen /\ ReadsBack(job[r]) /\ pc'[r] = "verify"
           \/ ~seen /\ ~ReadsBack(job[r]) /\ pc'[r] = "done" /\ reply'[r] = "success"
           \/ pc'[r] = "undoing"
           \/ pc'[r] = "done" /\ reply'[r] = "failed"
      /\ rest = <<>> /\ pc[r] = "rollback" =>
           \/ pc'[r] = "restoreVerify" /\ job[r].op \in {"attach", "detach", "editMember"}
           \/ /\ pc'[r] = "done" /\ reply'[r] # "success"
              /\ reply'[r] = "restored" => ~seen /\ job[r].op = "flip"
  BY SentOutcome DEF IInv
<1>5. pc[r] = "config" \/ pc[r] = "rollback"
  BY DEF Sending
<1>6. Configuration(conf')
  <2>1. Head(todo[r]) \in Line
    BY <1>1 DEF StepsOf, LineAt
  <2>2. Configuration(conf) /\ Configuration(Obey(conf, Head(todo[r])))
    BY <2>1, ObeyConfiguration DEF IInv, TypeInv
  <2> QED BY <1>3, <2>2
<1>7. Founded(r)'
  <2>1. pc[r] # "done"
    BY <1>5
  <2>2. pc'[r] \in Sending => todo'[r] \in Seq(StepsOf(job[r]))
    BY <1>1, <1>3, <1>4, <1>5 DEF Sending
  <2> QED BY <1>1, <1>2, <2>1, <2>2, Zenon DEF Founded
<1>8. ASSUME Alone(r)' PROVE Bounded(r)'
  <2>1. /\ \A o : o # job[r].o => Contents(conf', o) = Contents(was[r], o)
        /\ Alike(job[r], Contents(was[r], job[r].o), Contents(conf', job[r].o))
        /\ pc[r] = "config" =>
             Kept(nexus, job[r], Contents(was[r], job[r].o), Contents(conf', job[r].o))
        /\ pc[r] = "config" /\ job[r].op = "editMember" /\ Tail(todo[r]) # <<>> =>
             \/ /\ Contents(conf', job[r].o) = Contents(was[r], job[r].o)
                /\ Tail(todo[r]) = Tail(plan[r].set)
             \/ Tail(todo[r]) = <<Add(job[r].o, job[r].w)>>
        /\ pc[r] = "rollback" /\ job[r].op = "editMember" =>
             Tail(todo[r]) \in Seq(StepsOf(job[r]) \ {Strip(job[r].o, job[r].k, "")})
    BY <1>3, <1>8, LineBounded
  <2>2. pc'[r] \in {"config", "verify"} \/ Done(r, "success")' => pc[r] = "config"
    BY <1>3, <1>4, <1>5 DEF Done
  <2>3. pc'[r] \in {"config", "rollback"} =>
          pc'[r] = pc[r] /\ rest # <<>> /\ todo'[r] = Tail(todo[r])
    BY <1>3, <1>4, <1>5
  <2>4. pc'[r] = "config" /\ job[r].op = "editMember" =>
          \/ /\ Contents(conf', job[r].o) = Contents(was[r], job[r].o)
             /\ todo'[r] \in {plan[r].set, Tail(plan[r].set)}
          \/ todo'[r] = <<Add(job[r].o, job[r].w)>>
    BY <1>4, <2>1, <2>3
  <2>5. pc'[r] = "rollback" /\ job[r].op = "editMember" =>
          todo'[r] \in Seq(StepsOf(job[r]) \ {Strip(job[r].o, job[r].k, "")})
    BY <2>1, <2>3
  <2> QED BY <1>2, <2>1, <2>2, <2>4, <2>5, Zenon DEF Bounded
<1>9. ASSUME Alone(r)', ~seen, r \notin silent'
      PROVE  /\ rest = Tail(todo[r]) /\ conf' = Obey(conf, Head(todo[r])) /\ ~err[r]
             /\ r \notin silent
  BY <1>9 DEF Went
<1>10. ObeyAll(conf, todo[r]) = ObeyAll(Obey(conf, Head(todo[r])), Tail(todo[r]))
  <2>1. todo[r] \in Seq(Line)
    <3>1. StepsOf(job[r]) \subseteq Line
      BY DEF StepsOf, LineAt
    <3>2. /\ Len(todo[r]) \in Nat /\ todo[r] = [i \in 1..Len(todo[r]) |-> todo[r][i]]
          /\ \A i \in 1..Len(todo[r]) : todo[r][i] \in StepsOf(job[r])
      BY <1>1
    <3> QED BY <3>1, <3>2
  <2> QED BY <1>1, <2>1, ObeyRest
<1>11. ASSUME Alone(r)' PROVE Placed(r)'
  <2>1. Placed(r)
    BY <1>1, <1>11
  <2>2. pc[r] = "config" /\ ~seen /\ r \notin silent' =>
          ObeyAll(conf', rest) = ObeyAll(was[r], plan[r].set)
    BY <1>9, <1>10, <1>11, <2>1 DEF Placed
  <2>3. pc[r] = "rollback" /\ ~seen /\ r \notin silent' =>
          Reverted(job[r], Contents(ObeyAll(conf', rest), job[r].o))
    BY <1>9, <1>10, <1>11, <2>1 DEF Placed
  <2>4. rest = <<>> => ObeyAll(conf', rest) = conf'
    BY ObeyNone
  <2>5. pc'[r] = "config" /\ ~err'[r] /\ r \notin silent' =>
          ObeyAll(conf', todo'[r]) = ObeyAll(was[r], plan[r].set)
    BY <1>4, <1>5, <2>2
  <2>6. (pc'[r] = "verify" \/ (pc'[r] = "done" /\ reply'[r] = "success")) /\ r \notin silent' =>
          conf' = ObeyAll(was[r], plan[r].set)
    BY <1>4, <1>5, <2>2, <2>4
  <2>7. pc'[r] = "rollback" /\ ~err'[r] /\ r \notin silent' =>
          Reverted(job[r], Contents(ObeyAll(conf', todo'[r]), job[r].o))
    BY <1>4, <1>5, <2>3
  <2>8. pc'[r] = "restoreVerify" /\ ~err'[r] /\ r \notin silent' =>
          Reverted(job[r], Contents(conf', job[r].o))
    BY <1>4, <1>5, <2>3, <2>4
  <2>9. pc'[r] = "done" /\ reply'[r] = "restored" /\ r \notin silent' =>
          Reverted(job[r], Contents(conf', job[r].o))
    BY <1>4, <1>5, <2>3, <2>4
  <2> QED BY <1>2, <2>5, <2>6, <2>7, <2>8, <2>9, Zenon DEF Placed, Done
<1>12. Seen(r)'
  <2>1. Done(r, "success")' => ~ReadsBack(job[r]) /\ pc[r] = "config"
    BY <1>4, <1>5 DEF Done
  <2>2. r \notin blind => plan[r].undo = PlanFor(nexus, job[r], was[r]).undo
    BY <1>1, <1>5 DEF Founded
  <2>3. ~ReadsBack(job[r]) =>
          \A u : UndoOf(nexus, job[r], conf', u) = u
    BY DEF UndoOf, ReadsBack
  <2>4. Done(r, "restored")' => job[r].op = "flip"
    BY <1>4, <1>5 DEF Done
  <2>5. /\ Done(r, "success")' => ~ReadsBack(job'[r])
        /\ Done(r, "success")' /\ r \notin blind' =>
             plan'[r].undo = UndoOf(nexus', job'[r], conf', PlanFor(nexus', job'[r], was'[r]).undo)
        /\ Done(r, "restored")' => job'[r].op = "flip"
        /\ pc'[r] = "restoreVerify" => job'[r].op \in {"attach", "detach", "editMember"}
    BY <1>2, <1>4, <1>5, <2>1, <2>2, <2>3, <2>4
  <2> QED BY <2>5, Zenon DEF Seen
<1> QED BY <1>6, <1>7, <1>8, <1>11, <1>12 DEF Holds

-------------------------------------------------------------------------------
(* The other steps *)

Planning(p) ==
    /\ p = [answer |-> p.answer, set |-> p.set, undo |-> p.undo]
    /\ p.answer \in {"", "unchanged", "refused"}

\* A plan goes on, finds nothing to do, or refuses.
LEMMA PlanForm ==
  ASSUME NEW j, Accepted(j), NEW s, NEW nx
  PROVE  Planning(PlanFor(nx, j, s))
<1>1. ASSUME NEW set, NEW undo PROVE Planning(Send(set, undo))
  BY DEF Planning, Send
<1>2. Planning(Answer("unchanged")) /\ Planning(Answer("refused"))
  BY DEF Planning, Answer
<1>3. ASSUME NEW condition, NEW set, NEW undo
      PROVE  Planning(If(condition, Send(set, undo)))
  BY <1>1, <1>2 DEF If
<1>4. ASSUME NEW o PROVE Planning(Deletion(o, s))
  BY <1>1, <1>2 DEF Deletion, If
<1>5. CASE j.op = "attach"
  BY <1>1, <1>2, <1>5, PlanIs DEF AttachPlan, If
<1>6. CASE j.op = "detach"
  BY <1>1, <1>2, <1>6, PlanIs DEF DetachPlan, If
<1>7. CASE j.op = "flip"
  BY <1>1, <1>2, <1>7, PlanIs DEF FlipPlan, If
<1>8. CASE j.op = "template"
  <2>1. PlanFor(nx, j, s) = TemplatePlan(j, s)
    BY <1>8, PlanIs
  <2>2. Planning(TemplatePlan(j, s))
    BY <1>3, Zenon DEF TemplatePlan
  <2> QED BY <2>1, <2>2
<1>9. CASE j.op = "createList"
  BY <1>1, <1>2, <1>9, PlanIs DEF CreateListPlan, If
<1>10. CASE j.op \in {"deleteList", "deleteRange", "deleteGroup"}
  BY <1>4, <1>10, PlanIs DEF DeleteListPlan, DeleteRangePlan, DeleteGroupPlan
<1>11. CASE j.op = "range"
  <2>1. PlanFor(nx, j, s) = RangePlan(j, s)
    BY <1>11, PlanIs
  <2>2. Planning(RangePlan(j, s))
    BY <1>1, Zenon DEF RangePlan
  <2> QED BY <2>1, <2>2
<1>12. CASE j.op = "createGroup"
  BY <1>1, <1>2, <1>12, PlanIs DEF CreateGroupPlan, If
<1>13. CASE j.op = "addMember"
  <2>1. PlanFor(nx, j, s) = AddMemberPlan(j, s)
    BY <1>13, PlanIs
  <2>2. Planning(AddMemberPlan(j, s))
    BY <1>3, Zenon DEF AddMemberPlan
  <2> QED BY <2>1, <2>2
<1>14. CASE j.op = "deleteMember"
  BY <1>1, <1>2, <1>14, PlanIs DEF DeleteMemberPlan, If
<1>15. CASE j.op = "editMember"
  BY <1>1, <1>2, <1>15, PlanIs DEF EditMemberPlan, If
<1> QED BY <1>5, <1>6, <1>7, <1>8, <1>9, <1>10, <1>11, <1>12, <1>13, <1>14, <1>15
        DEF Accepted, Endpoints, BindingOps, ListOps, RangeOps, GroupOps

\* A request that was planned is at the first line of its set.
LEMMA PlannedHolds ==
  ASSUME IInv, NEW r \in Requests, NEW j \in Asks[r], NEW s \in Reads(j),
         NEW p, p = PlanFor(nexus, j, s), p.answer = "",
         Planned(r, j, s, p)
  PROVE  Holds(r)'
<1>1. Accepted(j) /\ Configuration(conf) /\ Configuration(s)
  BY AsksAssumption, ReadIs DEF IInv, TypeInv
<1>2. /\ job'[r] = j /\ was'[r] = conf /\ plan'[r] = p /\ todo'[r] = p.set
      /\ pc'[r] = "config" /\ err'[r] = FALSE /\ conf' = conf /\ nexus' = nexus
      /\ r \notin blind' => s = conf
  BY DEF Planned, StartSet, IInv, TypeInv
<1>3. TypedPlan(p, StepsOf(j))
  BY <1>1, PlanTyped
<1>4. s = conf \/ Certain(j) => p = PlanFor(nexus, j, conf)
  BY <1>1, CertainPlan
<1> DEFINE g == Contents(conf, j.o)
<1>5. Alike(j, g, g) /\ Kept(nexus, j, g, g)
  <2>1. CASE Certain(j)
    <3>1. PlanFor(nexus, j, conf).answer = ""
      BY <1>4, <2>1
    <3> QED BY <1>1, <3>1, StartsAlike
  <2>2. CASE ~Certain(j)
    <3>1. j.op # "editMember"
      BY <2>2, CertainIs
    <3> QED BY <2>2, <3>1, AlikeUncertain DEF Kept
  <2> QED BY <2>1, <2>2
<1>6. Founded(r)'
  <2>1. p.set \in Seq(StepsOf(j)) /\ p.set # <<>> /\ p.undo \in Seq(StepsOf(j)) /\ p.undo # <<>>
    BY <1>3 DEF TypedPlan
  <2>2. r \notin blind' \/ Certain(j) => p = PlanFor(nexus, j, conf)
    BY <1>2, <1>4
  <2> QED BY <1>1, <1>2, <2>1, <2>2, Zenon DEF Founded
<1>7. Placed(r)'
  BY <1>2 DEF Placed, Done
<1>8. Bounded(r)'
  <2>1. todo'[r] \in {plan'[r].set, Tail(plan'[r].set)}
    BY <1>2
  <2>2. pc'[r] # "rollback"
    BY <1>2
  <2> QED BY <1>2, <1>5, <2>1, <2>2, Zenon DEF Bounded
<1>9. Seen(r)'
  BY <1>2 DEF Seen, Done
<1> QED BY <1>6, <1>7, <1>8, <1>9 DEF Holds

LEMMA ReadHolds ==
  ASSUME IInv, NEW r \in Requests, Read(r) \/ Unreachable(r)
  PROVE  Holds(r)'
<1>1. ASSUME NEW answer, answer # "success", answer # "restored", Finish(r, answer)
      PROVE  Holds(r)'
  <2>1. pc'[r] = "done" /\ reply'[r] = answer
    BY <1>1 DEF Finish, IInv, TypeInv
  <2> QED BY <1>1, <2>1 DEF Holds, Working, Done
<1>2. CASE Unreachable(r)
  BY <1>1, <1>2 DEF Unreachable
<1>3. CASE Read(r)
  <2>0. PICK j \in Asks[r] : \E s \in Reads(j) : Planned(r, j, s, PlanFor(nexus, j, s))
    BY <1>3 DEF Read
  <2>1. PICK s \in Reads(j) : Planned(r, j, s, PlanFor(nexus, j, s))
    BY <2>0
  <2> DEFINE p == PlanFor(nexus, j, s)
  <2>2. Planning(p)
    BY PlanForm, AsksAssumption
  <2> HIDE DEF p
  <2>3. CASE p.answer = ""
    BY <2>1, <2>3, PlannedHolds DEF p
  <2>4. CASE p.answer # ""
    <3>1. Finish(r, p.answer)
      BY <2>1, <2>4 DEF Planned, p
    <3> QED BY <1>1, <2>2, <2>4, <3>1 DEF Planning
  <2> QED BY <2>3, <2>4
<1> QED BY <1>2, <1>3

\* The rollback that is started takes out and puts back what it must.
RollsBack(nx, j, s, c) ==
    /\ Reverted(j, Contents(ObeyAll(c, PlanFor(nx, j, s).undo), j.o))
    /\ j.op = "editMember" =>
         PlanFor(nx, j, s).undo \in Seq(StepsOf(j) \ {Strip(j.o, j.k, "")})

LEMMA UndoRollsBack ==
  ASSUME NEW j, Accepted(j), NEW s, Configuration(s), NEW nx, PlanFor(nx, j, s).answer = "",
         NEW c, Configuration(c), Alike(j, Contents(s, j.o), Contents(c, j.o))
  PROVE  RollsBack(nx, j, s, c)
<1>1. Reverted(j, Contents(ObeyAll(c, PlanFor(nx, j, s).undo), j.o))
  BY UndoReverts
<1>2. j.op = "editMember" =>
        PlanFor(nx, j, s).undo \in Seq(StepsOf(j) \ {Strip(j.o, j.k, "")})
  BY EditSet
<1> QED BY <1>1, <1>2 DEF RollsBack

LEMMA StartRollbackHolds ==
  ASSUME IInv, NEW r \in Requests, StartRollback(r)
  PROVE  Holds(r)' /\ todo'[r] # <<>>
<1>1. /\ pc[r] = "undoing" /\ pc'[r] = "rollback" /\ todo'[r] = plan[r].undo /\ err'[r] = FALSE
      /\ nexus' = nexus /\ conf' = conf /\ job' = job /\ was' = was /\ plan' = plan
      /\ blind' = blind /\ silent' = silent /\ disturbed' = disturbed
  BY DEF StartRollback, StartSet, IInv, TypeInv
<1>2. Founded(r) /\ (Alone(r) => Bounded(r)) /\ Configuration(conf)
  BY <1>1 DEF IInv, TypeInv, Holds, Working
<1>3. /\ job[r] \in Asks[r] /\ Configuration(was[r])
      /\ plan[r].undo \in Seq(StepsOf(job[r])) /\ plan[r].undo # <<>>
      /\ Certain(job[r]) => /\ PlanFor(nexus, job[r], was[r]).answer = ""
                            /\ plan[r].undo = PlanFor(nexus, job[r], was[r]).undo
  BY <1>1, <1>2 DEF Founded
<1>4. Accepted(job[r])
  BY <1>3, AsksAssumption
<1>5. Founded(r)'
  <2>1. pc[r] # "done" /\ todo'[r] \in Seq(StepsOf(job[r]))
    BY <1>1, <1>3
  <2> QED BY <1>1, <1>2, <2>1, Zenon DEF Founded
<1>6. ASSUME Alone(r)' PROVE Placed(r)' /\ Bounded(r)' /\ Seen(r)'
  <2>1. Bounded(r)
    BY <1>1, <1>2, <1>6 DEF Alone
  <2>2. /\ \A o : o # job[r].o => Contents(conf, o) = Contents(was[r], o)
        /\ Alike(job[r], Contents(was[r], job[r].o), Contents(conf, job[r].o))
    BY <2>1 DEF Bounded
  <2>3. /\ Reverted(job[r], Contents(ObeyAll(conf, plan[r].undo), job[r].o))
        /\ job[r].op = "editMember" =>
             plan[r].undo \in Seq(StepsOf(job[r]) \ {Strip(job[r].o, job[r].k, "")})
    <3>1. CASE Certain(job[r])
      <4>1. RollsBack(nexus, job[r], was[r], conf)
        BY <1>2, <1>3, <1>4, <2>2, <3>1, UndoRollsBack
      <4> QED BY <1>3, <3>1, <4>1 DEF RollsBack
    <3>2. CASE ~Certain(job[r])
      BY <3>2, CertainIs DEF Reverted
    <3> QED BY <3>1, <3>2
  <2>4. Placed(r)'
    BY <1>1, <2>3 DEF Placed, Done
  <2>5. Bounded(r)'
    <3>1. /\ pc'[r] # "config" /\ pc'[r] # "verify" /\ ~Done(r, "success")'
          /\ job[r].op = "editMember" =>
               todo'[r] \in Seq(StepsOf(job[r]) \ {Strip(job[r].o, job[r].k, "")})
      BY <1>1, <2>3 DEF Done
    <3> QED BY <1>1, <2>2, <3>1 DEF Bounded
  <2>6. Seen(r)'
    BY <1>1 DEF Seen, Done
  <2> QED BY <2>4, <2>5, <2>6
<1> QED BY <1>1, <1>3, <1>5, <1>6 DEF Holds

\* A read that fails confirms nothing but a detached list.
LEMMA NothingConfirms ==
  ASSUME NEW j, ReadsBack(j), Confirms(j, <<>>)
  PROVE  j.op = "detach"
<1>1. ASSUME NEW o
      PROVE  o \notin DOMAIN <<>> /\ (\A k, v : ~At(<<>>, o, k, v)) /\ Texts(<<>>, o) = {}
  <2>1. o \notin DOMAIN <<>> /\ DOMAIN <<>> = {}
    BY NoEntries
  <2>2. Contents(<<>>, o) = <<>>
    BY <2>1 DEF Contents
  <2> QED BY <2>1, <2>2 DEF At, Texts, Range
<1>2. Shows(j, <<>>)
  BY DEF Confirms
<1>3. j.op = "attach" => At(<<>>, j.o, j.k, j.v)
  BY <1>2, Zenon DEF Shows
<1>4. j.op = "flip" => At(<<>>, j.o, Opposite(j.k), j.v)
  BY <1>2, Zenon DEF Shows
<1>5. j.op = "createGroup" => j.o \in DOMAIN <<>>
  BY <1>2, Zenon DEF Shows
<1>6. j.op = "addMember" => j.v \in Texts(<<>>, j.o)
  BY <1>2, Zenon DEF Shows
<1>7. j.op = "editMember" => j.w \in Texts(<<>>, j.o)
  BY <1>2, Zenon DEF Shows
<1> QED BY <1>1, <1>3, <1>4, <1>5, <1>6, <1>7, Zenon DEF ReadsBack

LEMMA VerifyHolds ==
  ASSUME IInv, NEW r \in Requests, Verify(r)
  PROVE  Holds(r)'
<1>1. /\ pc[r] = "verify"
      /\ nexus' = nexus /\ conf' = conf /\ job' = job /\ was' = was
      /\ silent' = silent /\ disturbed' = disturbed
  BY DEF Verify
<1>2. Founded(r) /\ (Alone(r) => Placed(r) /\ Bounded(r)) /\ Configuration(conf)
  BY <1>1 DEF IInv, TypeInv, Holds, Working
<1>3. PICK s \in ShownBack :
        /\ blind' = IF s = conf THEN blind ELSE blind \cup {r}
        /\ IF Confirms(job[r], s)
           THEN /\ Finish(r, "success")
                /\ plan' = [plan EXCEPT ![r].undo = UndoOf(nexus, job[r], s, @)]
           ELSE /\ pc' = [pc EXCEPT ![r] = "undoing"]
                /\ reply' = [reply EXCEPT ![r] = "unconfirmed"]
                /\ UNCHANGED plan
  BY DEF Verify
<1>4. r \notin blind' => s = conf /\ r \notin blind
  BY <1>3
<1>5. ASSUME Alone(r)'
      PROVE  /\ Placed(r) /\ Bounded(r)
             /\ \A o : o # job[r].o => Contents(conf, o) = Contents(was[r], o)
             /\ Alike(job[r], Contents(was[r], job[r].o), Contents(conf, job[r].o))
             /\ Kept(nexus, job[r], Contents(was[r], job[r].o), Contents(conf, job[r].o))
  BY <1>1, <1>2, <1>5 DEF Alone, Bounded
<1>6. CASE ~Confirms(job[r], s)
  <2>1. pc'[r] = "undoing" /\ plan' = plan
    BY <1>3, <1>6 DEF IInv, TypeInv
  <2>2. Founded(r)'
    <3>1. pc[r] # "done" /\ pc'[r] \notin Sending
      BY <1>1, <2>1 DEF Sending
    <3> QED BY <1>1, <1>2, <1>4, <2>1, <3>1, Zenon DEF Founded
  <2>3. ASSUME Alone(r)' PROVE Placed(r)' /\ Bounded(r)' /\ Seen(r)'
    BY <1>1, <1>5, <2>1, <2>3 DEF Placed, Bounded, Seen, Done
  <2> QED BY <2>2, <2>3 DEF Holds
<1>7. CASE Confirms(job[r], s)
  <2>1. /\ pc'[r] = "done" /\ reply'[r] = "success"
        /\ plan'[r].set = plan[r].set
        /\ plan'[r].undo = UndoOf(nexus, job[r], s, plan[r].undo)
    <3>1. /\ Finish(r, "success")
          /\ plan' = [plan EXCEPT ![r].undo = UndoOf(nexus, job[r], s, @)]
      BY <1>3, <1>7
    <3>2. plan[r] = [answer |-> plan[r].answer, set |-> plan[r].set, undo |-> plan[r].undo]
      BY DEF IInv, TypeInv
    <3>3. plan'[r] = [plan[r] EXCEPT !.undo = UndoOf(nexus, job[r], s, plan[r].undo)]
      BY <3>1 DEF IInv, TypeInv
    <3> QED BY <3>1, <3>2, <3>3 DEF Finish, IInv, TypeInv
  <2>2. Founded(r)'
    <3>1. pc'[r] = "done" /\ pc'[r] \notin Sending
      BY <2>1 DEF Sending
    <3> QED BY <1>1, <1>2, <1>4, <2>1, <3>1, Zenon DEF Founded
  <2>3. ASSUME Alone(r)' PROVE Placed(r)' /\ Bounded(r)'
    BY <1>1, <1>5, <2>1, <2>3 DEF Placed, Bounded, Done
  <2>4. Seen(r)'
    <3>1. ReadsBack(job[r]) /\ (job[r].op = "detach" => r \notin blind') => Confirms(job[r], conf)
      <4>1. CASE s = conf
        BY <1>7, <4>1
      <4>2. CASE s # conf
        <5>1. s = <<>> /\ r \in blind'
          BY <1>4, <4>2 DEF ShownBack
        <5> QED BY <1>7, <5>1, NothingConfirms
      <4> QED BY <4>1, <4>2
    <3>2. r \notin blind' =>
            plan'[r].undo = UndoOf(nexus, job[r], conf, PlanFor(nexus, job[r], was[r]).undo)
      <4>1. r \notin blind => plan[r].undo = PlanFor(nexus, job[r], was[r]).undo
        BY <1>1, <1>2 DEF Founded
      <4> QED BY <1>4, <2>1, <4>1
    <3>3. ~Done(r, "restored")' /\ pc'[r] # "restoreVerify"
      BY <2>1 DEF Done
    <3> QED BY <1>1, <3>1, <3>2, <3>3 DEF Seen
  <2> QED BY <2>2, <2>3, <2>4 DEF Holds
<1> QED BY <1>6, <1>7

LEMMA RestoreVerifyHolds ==
  ASSUME IInv, NEW r \in Requests, RestoreVerify(r)
  PROVE  Holds(r)'
<1>1. /\ pc[r] = "restoreVerify" /\ pc'[r] = "done"
      /\ \/ reply'[r] = "failed"
         \/ reply'[r] = "restored" /\ Restored(job[r], conf, ~err[r])
      /\ nexus' = nexus /\ conf' = conf /\ job' = job /\ was' = was /\ plan' = plan
      /\ todo' = todo /\ err' = err
      /\ blind' = blind /\ silent' = silent /\ disturbed' = disturbed
  BY DEF RestoreVerify, Finish, IInv, TypeInv
<1>2. Founded(r) /\ (Alone(r) => Placed(r) /\ Bounded(r) /\ Seen(r))
  BY <1>1 DEF IInv, Holds, Working
<1>3. CASE reply'[r] = "failed"
  BY <1>1, <1>3 DEF Holds, Working, Done
<1>4. CASE reply'[r] = "restored" /\ Restored(job[r], conf, ~err[r])
  <2>1. ~err[r] /\ Restored(job[r], conf, TRUE)
    BY <1>4 DEF Restored, IInv, TypeInv
  <2>2. Founded(r)'
    <3>1. pc[r] # "done" /\ pc'[r] = "done" /\ pc'[r] \notin Sending
      BY <1>1 DEF Sending
    <3> QED BY <1>1, <1>2, <3>1, Zenon DEF Founded
  <2>3. ASSUME Alone(r)' PROVE Placed(r)' /\ Bounded(r)' /\ Seen(r)'
    <3>1. Placed(r) /\ Bounded(r) /\ Seen(r)
      BY <1>1, <1>2, <2>3 DEF Alone
    <3>2. Placed(r)'
      BY <1>1, <1>4, <2>1, <3>1 DEF Placed, Done
    <3>3. Bounded(r)'
      BY <1>1, <1>4, <3>1 DEF Bounded, Done
    <3>4. Seen(r)'
      BY <1>1, <1>4, <2>1, <3>1 DEF Seen, Done
    <3> QED BY <3>2, <3>3, <3>4
  <2> QED BY <2>2, <2>3 DEF Holds
<1> QED BY <1>1, <1>3, <1>4

\* What a step leaves alone of a request that does not take it.
Aside(q) ==
    /\ nexus' = nexus
    /\ pc'[q] = pc[q] /\ job'[q] = job[q] /\ was'[q] = was[q] /\ plan'[q] = plan[q]
    /\ todo'[q] = todo[q] /\ err'[q] = err[q] /\ reply'[q] = reply[q]
    /\ q \in blind' <=> q \in blind
    /\ q \in silent' <=> q \in silent
    /\ q \in disturbed => q \in disturbed'
    /\ pc[q] # "idle" /\ conf' # conf => q \in disturbed'

\* What a step does that is no step of sending: the requests and their state are
\* functions, and the configuration stays.
LEMMA LocalStep ==
  ASSUME IInv, NEW r \in Requests,
         Read(r) \/ Unreachable(r) \/ StartRollback(r) \/ Verify(r) \/ RestoreVerify(r)
  PROVE  /\ \A q \in Requests \ {r} : Aside(q)
         /\ nexus' = nexus /\ conf' = conf
         /\ pc' \in [Requests -> {"idle", "config", "verify", "undoing", "rollback",
                                  "restoreVerify", "done"}]
         /\ err'[r] \in BOOLEAN
         /\ plan'[r] = [answer |-> plan'[r].answer, set |-> plan'[r].set, undo |-> plan'[r].undo]
         /\ job' = [q \in Requests |-> job'[q]] /\ was' = [q \in Requests |-> was'[q]]
         /\ plan' = [q \in Requests |-> plan'[q]] /\ todo' = [q \in Requests |-> todo'[q]]
         /\ err' = [q \in Requests |-> err'[q]] /\ reply' = [q \in Requests |-> reply'[q]]
<1> USE DEF IInv, TypeInv
<1>1. CASE Unreachable(r)
  BY <1>1 DEF Unreachable, Finish, Aside
<1>2. CASE Read(r)
  <2>0. PICK j \in Asks[r] : \E s \in Reads(j) : Planned(r, j, s, PlanFor(nexus, j, s))
    BY <1>2 DEF Read
  <2>1. PICK s \in Reads(j) : Planned(r, j, s, PlanFor(nexus, j, s))
    BY <2>0
  <2> DEFINE p == PlanFor(nexus, j, s)
  <2>2. Planning(p)
    BY PlanForm, AsksAssumption
  <2> HIDE DEF p
  <2>3. Planned(r, j, s, p)
    BY <2>1 DEF p
  <2>4. CASE p.answer = ""
    BY <2>2, <2>3, <2>4 DEF Planning, Planned, StartSet, Aside
  <2>5. CASE p.answer # ""
    BY <2>2, <2>3, <2>5 DEF Planning, Planned, Finish, Aside
  <2> QED BY <2>4, <2>5
<1>3. CASE StartRollback(r)
  BY <1>3 DEF StartRollback, StartSet, Aside
<1>4. CASE Verify(r)
  <2>1. PICK s \in ShownBack :
        /\ blind' = IF s = conf THEN blind ELSE blind \cup {r}
        /\ IF Confirms(job[r], s)
           THEN /\ Finish(r, "success")
                /\ plan' = [plan EXCEPT ![r].undo = UndoOf(nexus, job[r], s, @)]
           ELSE /\ pc' = [pc EXCEPT ![r] = "undoing"]
                /\ reply' = [reply EXCEPT ![r] = "unconfirmed"]
                /\ UNCHANGED plan
    BY <1>4 DEF Verify
  <2>2. CASE ~Confirms(job[r], s)
    BY <1>4, <2>1, <2>2 DEF Verify, Aside
  <2>3. CASE Confirms(job[r], s)
    <3> DEFINE u == UndoOf(nexus, job[r], s, plan[r].undo)
    <3>1. plan' = [plan EXCEPT ![r] = [plan[r] EXCEPT !.undo = u]]
      BY <2>1, <2>3
    <3> HIDE DEF u
    <3>2. plan'[r] = [plan[r] EXCEPT !.undo = u]
      BY <3>1
    <3>3. plan'[r] = [answer |-> plan'[r].answer, set |-> plan'[r].set, undo |-> plan'[r].undo]
      BY <3>2
    <3>4. /\ plan' = [q \in Requests |-> plan'[q]]
          /\ \A q \in Requests \ {r} : plan'[q] = plan[q]
      BY <3>1
    <3> QED BY <1>4, <2>1, <2>3, <3>3, <3>4 DEF Verify, Finish, Aside
  <2> QED BY <2>2, <2>3
<1>5. CASE RestoreVerify(r)
  BY <1>5 DEF RestoreVerify, Finish, Aside
<1> QED BY <1>1, <1>2, <1>3, <1>4, <1>5

\* A line, whatever becomes of it.
LEMMA LineStep ==
  ASSUME IInv, NEW r \in Requests,
         \/ SendLine(r)
         \/ \E heard \in Heard : RefuseLine(r, heard)
         \/ \E arrived \in BOOLEAN : LinkLost(r, arrived)
  PROVE  /\ pc[r] \in Sending
         /\ \E rest, seen : seen \in BOOLEAN /\ Sent(r, rest, seen) /\ Went(r, rest, seen)
         /\ r \in silent => r \in silent'
         /\ r \in disturbed' <=> r \in disturbed
         /\ \A q \in Requests \ {r} :
              /\ q \in silent' <=> q \in silent
              /\ q \in disturbed => q \in disturbed'
              /\ pc[q] # "idle" /\ conf' # conf => q \in disturbed'
<1>1. err[r] \in BOOLEAN /\ Heard \subseteq BOOLEAN
  BY AsksAssumption DEF IInv, TypeInv
<1>2. ASSUME disturbed' = IF conf' = conf THEN disturbed ELSE disturbed \cup Others(r)
      PROVE  /\ r \in disturbed' <=> r \in disturbed
             /\ \A q \in Requests \ {r} :
                  /\ q \in disturbed => q \in disturbed'
                  /\ pc[q] # "idle" /\ conf' # conf => q \in disturbed'
  BY <1>2 DEF Others
<1>3. CASE SendLine(r)
  <2>1. Sent(r, Tail(todo[r]), err[r]) /\ Went(r, Tail(todo[r]), err[r])
    BY <1>3 DEF SendLine, Went
  <2> QED BY <1>1, <1>2, <1>3, <2>1 DEF SendLine
<1>4. ASSUME NEW heard \in Heard, RefuseLine(r, heard)
      PROVE  /\ pc[r] \in Sending
             /\ \E rest, seen : seen \in BOOLEAN /\ Sent(r, rest, seen) /\ Went(r, rest, seen)
             /\ r \in silent => r \in silent'
             /\ conf' = conf /\ disturbed' = disturbed
             /\ \A q \in Requests \ {r} : q \in silent' <=> q \in silent
  <2>1. /\ Sent(r, Skipped(todo[r]), err[r] \/ heard)
        /\ Went(r, Skipped(todo[r]), err[r] \/ heard)
    BY <1>4 DEF RefuseLine, Went
  <2>2. (err[r] \/ heard) \in BOOLEAN
    BY <1>1
  <2> QED BY <1>4, <2>1, <2>2 DEF RefuseLine
<1>5. ASSUME NEW arrived \in BOOLEAN, LinkLost(r, arrived)
      PROVE  /\ pc[r] \in Sending /\ Sent(r, <<>>, TRUE) /\ Went(r, <<>>, TRUE)
             /\ silent' = silent
             /\ disturbed' = IF conf' = conf THEN disturbed ELSE disturbed \cup Others(r)
  BY <1>5 DEF LinkLost, Went
<1>6. CASE \E heard \in Heard : RefuseLine(r, heard)
  BY <1>4, <1>6
<1>7. CASE \E arrived \in BOOLEAN : LinkLost(r, arrived)
  BY <1>2, <1>5, <1>7
<1> QED BY <1>3, <1>6, <1>7

LEMMA AsideHolds ==
  ASSUME IInv, NEW r \in Requests, \A q \in Requests \ {r} : Aside(q), Holds(r)'
  PROVE  \A q \in Requests : Holds(q)'
<1>1. ASSUME NEW q \in Requests, q # r PROVE Holds(q)'
  <2>1. Aside(q) /\ Holds(q)
    BY <1>1 DEF IInv
  <2> QED BY <2>1, Passive DEF Aside
<1> QED BY <1>1

LEMMA StepInv ==
  ASSUME IInv, NEW r \in Requests,
         \/ Read(r) \/ Unreachable(r) \/ SendLine(r)
         \/ \E heard \in Heard : RefuseLine(r, heard)
         \/ \E arrived \in BOOLEAN : LinkLost(r, arrived)
         \/ StartRollback(r) \/ Verify(r) \/ RestoreVerify(r)
  PROVE  IInv'
<1>1. CASE \/ Read(r) \/ Unreachable(r) \/ StartRollback(r) \/ Verify(r) \/ RestoreVerify(r)
  <2>1. /\ \A q \in Requests \ {r} : Aside(q)
        /\ nexus' = nexus /\ conf' = conf
        /\ pc' \in [Requests -> {"idle", "config", "verify", "undoing", "rollback",
                                 "restoreVerify", "done"}]
        /\ err'[r] \in BOOLEAN
        /\ plan'[r] = [answer |-> plan'[r].answer, set |-> plan'[r].set, undo |-> plan'[r].undo]
        /\ job' = [q \in Requests |-> job'[q]] /\ was' = [q \in Requests |-> was'[q]]
        /\ plan' = [q \in Requests |-> plan'[q]] /\ todo' = [q \in Requests |-> todo'[q]]
        /\ err' = [q \in Requests |-> err'[q]] /\ reply' = [q \in Requests |-> reply'[q]]
    BY <1>1, LocalStep
  <2>2. Holds(r)'
    BY <1>1, ReadHolds, StartRollbackHolds, VerifyHolds, RestoreVerifyHolds
  <2>3. pc'[r] \in Sending => todo'[r] # <<>>
    <3>1. ASSUME pc'[r] \in Sending PROVE Founded(r)'
      BY <2>2, <3>1 DEF Holds, Working, Sending
    <3>2. CASE StartRollback(r)
      BY <3>2, StartRollbackHolds
    <3>3. CASE Unreachable(r)
      BY <3>3 DEF Unreachable, Finish, IInv, TypeInv, Sending
    <3>4. CASE Verify(r)
      BY <3>4 DEF Verify, Finish, IInv, TypeInv, Sending
    <3>5. CASE RestoreVerify(r)
      BY <3>5 DEF RestoreVerify, Finish, IInv, TypeInv, Sending
    <3>6. CASE Read(r)
      <4>0. PICK j \in Asks[r] : \E s \in Reads(j) : Planned(r, j, s, PlanFor(nexus, j, s))
        BY <3>6 DEF Read
      <4>1. PICK s \in Reads(j) : Planned(r, j, s, PlanFor(nexus, j, s))
        BY <4>0
      <4> DEFINE p == PlanFor(nexus, j, s)
      <4>2. CASE p.answer # ""
        BY <4>1, <4>2 DEF Planned, Finish, IInv, TypeInv, Sending
      <4>3. CASE p.answer = ""
        <5>1. pc'[r] = "config" /\ todo'[r] = p.set /\ plan'[r] = p
          BY <4>1, <4>3 DEF Planned, StartSet, IInv, TypeInv
        <5> HIDE DEF p
        <5>2. plan'[r].set # <<>>
          BY <3>1, <5>1 DEF Sending, Founded
        <5> QED BY <5>1, <5>2
      <4> QED BY <4>2, <4>3
    <3> QED BY <1>1, <3>2, <3>3, <3>4, <3>5, <3>6
  <2>4. TypeInv'
    <3>1. \A q \in Requests :
            /\ err'[q] \in BOOLEAN /\ (pc'[q] \in Sending => todo'[q] # <<>>)
            /\ plan'[q] = [answer |-> plan'[q].answer, set |-> plan'[q].set,
                           undo |-> plan'[q].undo]
      BY <2>1, <2>3 DEF IInv, TypeInv, Aside
    <3> QED BY <2>1, <3>1 DEF IInv, TypeInv
  <2>5. \A q \in Requests : Holds(q)'
    BY <2>1, <2>2, AsideHolds
  <2> QED BY <2>4, <2>5 DEF IInv
<1>2. CASE \/ SendLine(r)
           \/ \E heard \in Heard : RefuseLine(r, heard)
           \/ \E arrived \in BOOLEAN : LinkLost(r, arrived)
  <2>1. /\ pc[r] \in Sending
        /\ \E rest, seen : seen \in BOOLEAN /\ Sent(r, rest, seen) /\ Went(r, rest, seen)
        /\ r \in silent => r \in silent'
        /\ r \in disturbed' <=> r \in disturbed
        /\ \A q \in Requests \ {r} :
             /\ q \in silent' <=> q \in silent
             /\ q \in disturbed => q \in disturbed'
             /\ pc[q] # "idle" /\ conf' # conf => q \in disturbed'
    BY <1>2, LineStep
  <2>2. PICK rest, seen : seen \in BOOLEAN /\ Sent(r, rest, seen) /\ Went(r, rest, seen)
    BY <2>1
  <2>3. Configuration(conf') /\ Holds(r)'
    BY <2>1, <2>2, SentHolds DEF Alone
  <2>4. nexus' = nexus /\ job' = job /\ was' = was /\ plan' = plan /\ blind' = blind
    BY <2>2 DEF Sent
  <2>5. /\ todo'[r] = rest /\ err'[r] = seen
        /\ \A q \in Requests \ {r} : /\ todo'[q] = todo[q] /\ err'[q] = err[q]
                                     /\ pc'[q] = pc[q] /\ reply'[q] = reply[q]
        /\ pc' = [q \in Requests |-> pc'[q]] /\ reply' = [q \in Requests |-> reply'[q]]
        /\ todo' = [q \in Requests |-> todo'[q]] /\ err' = [q \in Requests |-> err'[q]]
        /\ pc'[r] \in {"config", "verify", "undoing", "rollback", "restoreVerify", "done"}
        /\ pc'[r] \in Sending => rest # <<>>
    BY <2>1, <2>2, SentOutcome DEF IInv, Sending
  <2>6. \A q \in Requests \ {r} : Aside(q)
    BY <2>1, <2>4, <2>5 DEF Aside
  <2>7. TypeInv'
    <3>1. pc' \in [Requests -> {"idle", "config", "verify", "undoing", "rollback",
                                "restoreVerify", "done"}]
      BY <2>5 DEF IInv, TypeInv
    <3>2. \A q \in Requests : err'[q] \in BOOLEAN /\ (pc'[q] \in Sending => todo'[q] # <<>>)
      BY <2>2, <2>5 DEF IInv, TypeInv
    <3> QED BY <2>3, <2>4, <2>5, <3>1, <3>2 DEF IInv, TypeInv
  <2>8. \A q \in Requests : Holds(q)'
    BY <2>3, <2>6, AsideHolds
  <2> QED BY <2>7, <2>8 DEF IInv
<1> QED BY <1>1, <1>2

LEMMA NextInv == IInv /\ [Next]_vars => IInv'
<1> SUFFICES ASSUME IInv, [Next]_vars PROVE IInv'
  OBVIOUS
<1>1. CASE Next
  BY <1>1, StepInv DEF Next
<1>2. CASE UNCHANGED vars
  <2>1. \A r \in Requests : Holds(r)'
    BY <1>2, Passive DEF IInv, vars
  <2>2. TypeInv'
    BY <1>2 DEF IInv, TypeInv, vars
  <2> QED BY <2>1, <2>2 DEF IInv
<1> QED BY <1>1, <1>2

\* In every reachable state every request is where its handler's steps put it, its
\* object differs from what it read in what its job is about only, and what the
\* reads after the set and the rollback saw is there.
THEOREM Invariance == Spec => []IInv
  BY InitInv, NextInv, PTL DEF Spec

-------------------------------------------------------------------------------
(* What an answer means *)

\* A request whose plan depends on nothing that could not be read.
LEMMA CertainFounded ==
  ASSUME IInv, NEW r \in Requests, Working(r), Certain(job[r])
  PROVE  /\ Accepted(job[r]) /\ Configuration(was[r]) /\ Configuration(conf)
         /\ PlanFor(nexus, job[r], was[r]).answer = ""
         /\ plan[r].set = PlanFor(nexus, job[r], was[r]).set
<1>1. Founded(r) /\ Configuration(conf)
  BY DEF IInv, TypeInv, Holds
<1>2. job[r] \in Asks[r]
  BY <1>1 DEF Founded
<1> QED BY <1>1, <1>2, AsksAssumption DEF Founded

\* A success means exactly the change asked for, and for the changes that are
\* read back entry by entry even when the switch refused a line unnoticed
\* (attach, detach, flip and the handlers of lists, ranges and groups in
\* main.py: the set, and the check of what is read back after it).
THEOREM SuccessMeansTheChange == Spec => []SuccessIsExact
<1>1. IInv => SuccessIsExact
  <2> SUFFICES ASSUME IInv, NEW r \in Requests, Done(r, "success"), Alone(r),
                      \/ r \notin silent
                      \/ job[r].op \in {"attach", "detach", "addMember", "editMember"},
                      job[r].op = "detach" => r \notin blind
               PROVE  Same(conf, ObeyAll(was[r], plan[r].set))
    BY DEF SuccessIsExact
  <2>1. Working(r) /\ Placed(r) /\ Bounded(r) /\ Seen(r)
    BY DEF IInv, Holds, Working
  <2>2. CASE r \notin silent
    <3>1. conf = ObeyAll(was[r], plan[r].set)
      BY <2>1, <2>2 DEF Placed
    <3> QED BY <3>1 DEF Same
  <2>3. CASE job[r].op \in {"attach", "detach", "addMember", "editMember"}
    <3>1. Certain(job[r]) /\ ReadsBack(job[r])
      BY <2>3, CertainIs DEF ReadsBack
    <3>2. /\ Accepted(job[r]) /\ Configuration(was[r]) /\ Configuration(conf)
          /\ PlanFor(nexus, job[r], was[r]).answer = ""
          /\ plan[r].set = PlanFor(nexus, job[r], was[r]).set
      BY <2>1, <3>1, CertainFounded
    <3>3. Confirms(job[r], conf)
      BY <2>1, <3>1 DEF Seen
    <3>4. /\ Elsewhere(job[r].o, conf, was[r])
          /\ Alike(job[r], Contents(was[r], job[r].o), Contents(conf, job[r].o))
          /\ Kept(nexus, job[r], Contents(was[r], job[r].o), Contents(conf, job[r].o))
      BY <2>1 DEF Bounded, Elsewhere
    <3>5. Same(conf, ObeyAll(was[r], PlanFor(nexus, job[r], was[r]).set))
      <4>1. CASE job[r].op \in {"attach", "detach"}
        BY <3>2, <3>3, <3>4, <4>1, ConfirmedBinding
      <4>2. CASE job[r].op \in {"addMember", "editMember"}
        BY <3>2, <3>3, <3>4, <4>2, ConfirmedMember
      <4> QED BY <2>3, <4>1, <4>2
    <3> QED BY <3>2, <3>5
  <2> QED BY <2>2, <2>3
<1> QED BY <1>1, Invariance, PTL

\* What a flip and an edit write.
LEMMA ThirdIsSent ==
  ASSUME NEW S, NEW e \in S, NEW t \in S, NEW a \in S
  PROVE  a \in ToSet(<<e, t, a>>)
<1>1. 3 \in DOMAIN <<e, t, a>> /\ <<e, t, a>>[3] = a
  OBVIOUS
<1> QED BY <1>1, Zenon DEF ToSet

LEMMA WritesAre ==
  ASSUME NEW j, Accepted(j), NEW s, Configuration(s), NEW nx, PlanFor(nx, j, s).answer = ""
  PROVE  /\ j.op = "flip" =>
              Put(j.o, Opposite(j.k), j.v) \in ToSet(PlanFor(nx, j, s).set)
         /\ j.op = "editMember" => Add(j.o, j.w) \in ToSet(PlanFor(nx, j, s).set)
<1>1. ASSUME j.op = "flip" PROVE Put(j.o, Opposite(j.k), j.v) \in ToSet(PlanFor(nx, j, s).set)
  <2> DEFINE e == Enter(j.o)
             t == Strip(j.o, j.k, j.v)
             a == Put(j.o, Opposite(j.k), j.v)
  <2>1. PlanFor(nx, j, s).set = <<e, t, a>>
    <3>1. PlanFor(nx, j, s) =
            Send(<<e, t, a>>, <<e, Strip(j.o, Opposite(j.k), j.v), Put(j.o, j.k, j.v)>>)
      BY <1>1, FlipSends
    <3> QED BY <3>1, SendsIs, Zenon
  <2> HIDE DEF e, t, a
  <2>2. a \in ToSet(<<e, t, a>>)
    <3>1. e \in {e, t, a} /\ t \in {e, t, a} /\ a \in {e, t, a}
      OBVIOUS
    <3> QED BY <3>1, ThirdIsSent
  <2> QED BY <2>1, <2>2 DEF a
<1>2. ASSUME j.op = "editMember" PROVE Add(j.o, j.w) \in ToSet(PlanFor(nx, j, s).set)
  <2>0. PlanFor(nx, j, s) = Send(<<Enter(j.o), DeleteTarget(nx, j), Add(j.o, j.w)>>,
                                 <<Enter(j.o), Strip(j.o, 0, j.w), Add(j.o, j.v)>>)
    BY <1>2, EditMemberSends
  <2> DEFINE e == Enter(j.o)
             t == DeleteTarget(nx, j)
             a == Add(j.o, j.w)
             undo == <<Enter(j.o), Strip(j.o, 0, j.w), Add(j.o, j.v)>>
  <2>1. PlanFor(nx, j, s).set = <<e, t, a>>
    <3>1. PlanFor(nx, j, s) = Send(<<e, t, a>>, undo)
      BY <2>0
    <3> HIDE DEF e, t, a, undo
    <3>2. Send(<<e, t, a>>, undo).set = <<e, t, a>>
      BY DEF Send
    <3> QED BY <3>1, <3>2, Zenon
  <2> HIDE DEF e, t, a
  <2>2. a \in ToSet(<<e, t, a>>)
    <3>1. e \in {e, t, a} /\ t \in {e, t, a} /\ a \in {e, t, a}
      OBVIOUS
    <3> QED BY <3>1, ThirdIsSent
  <2> QED BY <2>1, <2>2 DEF a
<1> QED BY <1>1, <1>2

\* An answer that says the original was restored is true, unless the set wrote
\* what was there already; for attach and detach, which look at the interface
\* after the rollback, even when refusals went unnoticed (main.py: the rollbacks
\* of attach, detach, flip and the edit of a member).
THEOREM RestoredMeansBack == Spec => []RestoredIsBack
<1>1. IInv => RestoredIsBack
  <2> SUFFICES ASSUME IInv, NEW r \in Requests, Done(r, "restored"), Alone(r), ~Rewrites(r),
                      Aware(r) \/ job[r].op \in {"attach", "detach"}
               PROVE  Same(conf, was[r])
    BY DEF RestoredIsBack
  <2>1. Working(r) /\ Placed(r) /\ Bounded(r) /\ Seen(r)
    BY DEF IInv, Holds, Working
  <2>2. \/ job[r].op = "flip"
        \/ job[r].op \in {"attach", "detach", "editMember"} /\ Restored(job[r], conf, TRUE)
    BY <2>1 DEF Seen
  <2>3. Certain(job[r])
    BY <2>2, CertainIs
  <2>4. /\ Accepted(job[r]) /\ Configuration(was[r]) /\ Configuration(conf)
        /\ PlanFor(nexus, job[r], was[r]).answer = ""
        /\ plan[r].set = PlanFor(nexus, job[r], was[r]).set
    BY <2>1, <2>3, CertainFounded
  <2>5. /\ Elsewhere(job[r].o, conf, was[r])
        /\ Alike(job[r], Contents(was[r], job[r].o), Contents(conf, job[r].o))
    BY <2>1 DEF Bounded, Elsewhere
  <2>6. job[r].op \in {"flip", "editMember"} => Reverted(job[r], Contents(conf, job[r].o))
    BY <2>1 DEF Placed, Aware
  <2>7. /\ job[r].op = "flip" =>
             Put(job[r].o, Opposite(job[r].k), job[r].v) \in ToSet(plan[r].set)
        /\ job[r].op = "editMember" => Add(job[r].o, job[r].w) \in ToSet(plan[r].set)
    BY <2>4, WritesAre
  <2>8. CASE job[r].op \in BindingOps
    <3>1. job[r].op # "flip" => Restored(job[r], conf, TRUE)
      BY <2>2
    <3>2. job[r].op = "flip" => Opposite(job[r].k) \notin DOMAIN Contents(was[r], job[r].o)
      <4> DEFINE c == Put(job[r].o, Opposite(job[r].k), job[r].v)
      <4>1. c.op = "put" /\ c.k = Opposite(job[r].k) /\ c.o = job[r].o
        BY DEF Put, Command
      <4> HIDE DEF c
      <4>2. job[r].op = "flip" => c \in ToSet(plan[r].set)
        BY <2>7 DEF c
      <4> QED BY <4>1, <4>2 DEF Rewrites
    <3>3. job[r].op = "flip" => Reverted(job[r], Contents(conf, job[r].o))
      BY <2>6
    <3> QED BY <2>4, <2>5, <2>8, <3>1, <3>2, <3>3, RestoredBinding
  <2>9. CASE job[r].op = "editMember"
    <3>1. job[r].w \notin Texts(was[r], job[r].o)
      <4> DEFINE c == Add(job[r].o, job[r].w)
      <4>1. c.op = "add" /\ c.v = job[r].w /\ c.o = job[r].o
        BY DEF Add, Command
      <4> HIDE DEF c
      <4>2. c \in ToSet(plan[r].set)
        BY <2>7, <2>9 DEF c
      <4> QED BY <4>1, <4>2 DEF Rewrites
    <3> QED BY <2>4, <2>5, <2>6, <2>9, <3>1, RestoredMember
  <2> QED BY <2>2, <2>8, <2>9 DEF BindingOps
<1> QED BY <1>1, Invariance, PTL

-------------------------------------------------------------------------------
(* An undo brings back what its set changed *)

\* A set whose lines all name one object leaves the others alone.
LEMMA SetElsewhere ==
  ASSUME NEW c, Configuration(c), NEW o \in Objects, NEW set \in Seq(LineAt(o)), set # <<>>
  PROVE  Configuration(ObeyAll(c, set)) /\ Elsewhere(o, ObeyAll(c, set), c)
<1> DEFINE n == Len(set)
           g == Stages(c, set)
           S == {i \in 1..n : Configuration(g[i]) /\ Elsewhere(o, g[i], c)}
<1>0. set \in Seq(Line) /\ \A i \in 1..n : set[i] \in LineAt(o)
  <2>1. set \in Seq(Line)
    BY LineAtSeq
  <2> QED BY <2>1
<1>1. /\ n \in Nat \ {0} /\ n \in 1..n /\ 1 \in 1..n /\ \A i \in 1..n : set[i] \in Line
      /\ ObeyAll(c, set) = g[n] /\ g[1] = Obey(c, set[1])
      /\ \A i \in 1..n : i # 1 => i - 1 \in 1..n /\ g[i] = Obey(g[i - 1], set[i])
  BY <1>0, StagesAre
<1> HIDE DEF g, n
<1>2. ASSUME NEW d, Configuration(d), Elsewhere(o, d, c), NEW l \in LineAt(o)
      PROVE  Configuration(Obey(d, l)) /\ Elsewhere(o, Obey(d, l), c)
  <2>1. l \in Line /\ l.o = o
    BY DEF LineAt
  <2>2. Configuration(Obey(d, l)) /\ \A p : p # o => Contents(Obey(d, l), p) = Contents(d, p)
    BY <1>2, <2>1, ObeyConfiguration
  <2> QED BY <1>2, <2>2 DEF Elsewhere
<1>3. 1 \in S
  <2>1. Elsewhere(o, c, c)
    BY DEF Elsewhere
  <2>2. set[1] \in LineAt(o)
    BY <1>0, <1>1
  <2>3. Configuration(Obey(c, set[1])) /\ Elsewhere(o, Obey(c, set[1]), c)
    BY <1>2, <2>1, <2>2
  <2> QED BY <1>1, <2>3
<1>4. ASSUME NEW i \in 1..n, i \in S, i # n PROVE i + 1 \in S
  <2>1. i + 1 \in 1..n /\ i + 1 # 1 /\ (i + 1) - 1 = i
    BY <1>1, <1>4
  <2>2. g[i + 1] = Obey(g[i], set[i + 1])
    BY <1>1, <2>1
  <2>3. Configuration(g[i]) /\ Elsewhere(o, g[i], c) /\ set[i + 1] \in LineAt(o)
    BY <1>0, <1>4, <2>1
  <2>4. Configuration(Obey(g[i], set[i + 1])) /\ Elsewhere(o, Obey(g[i], set[i + 1]), c)
    BY <1>2, <2>3
  <2> QED BY <2>1, <2>2, <2>4
<1> HIDE DEF S
<1>5. n \in S
  <2>1. \A i \in 1..n : i \in S /\ i # n => i + 1 \in S
    BY <1>4
  <2>2. \A i \in 1..n : i \in S
    BY <1>1, <1>3, <2>1, UpTo
  <2> QED BY <1>1, <2>2
<1> QED BY <1>1, <1>5 DEF S

\* The entries of the object after the header and after each line behind it.
Passes(body, f, e) ==
    /\ e[1] = f /\ \A i \in 1..(Len(body) + 1) : Entries(e[i])
    /\ \A i \in 1..Len(body) : e[i + 1] = Obeyed(body[i], e[i])

LEMMA HeadedPasses ==
  ASSUME NEW c, Configuration(c), NEW o \in Objects, NEW body \in Seq(LineAt(o)),
         \A i \in 1..Len(body) : body[i].op # "delete"
  PROVE  \E e : /\ Passes(body, Contents(c, o), e)
                /\ e[Len(body) + 1] = Contents(ObeyAll(c, <<Enter(o)>> \o body), o)
<1> DEFINE set == <<Enter(o)>> \o body
           m == Len(body)
           n == Len(set)
           g == Stages(c, set)
           e == [i \in 1..n |-> Contents(g[i], o)]
           S == {i \in 1..n : Configuration(g[i])}
<1>1. m \in Nat
  OBVIOUS
<1>2. /\ set \in Seq(LineAt(o)) /\ set # <<>> /\ n = m + 1 /\ set[1] = Enter(o)
      /\ \A i \in 1..m : set[i + 1] = body[i]
  BY Headed
<1> HIDE DEF set
<1>3. set \in Seq(Line)
  BY <1>2, LineAtSeq
<1>4. /\ n \in Nat \ {0} /\ n \in 1..n /\ 1 \in 1..n
      /\ ObeyAll(c, set) = g[n] /\ g[1] = Obey(c, set[1])
      /\ \A i \in 1..n : i # 1 => i - 1 \in 1..n /\ g[i] = Obey(g[i - 1], set[i])
  BY <1>2, <1>3, StagesAre
<1> HIDE DEF g, n
<1>5. Configuration(g[1]) /\ Contents(g[1], o) = Contents(c, o)
  BY <1>2, <1>4, ObeyEnter
<1>6. ASSUME NEW i \in 1..m
      PROVE  i \in 1..n /\ i + 1 \in 1..n /\ g[i + 1] = Obey(g[i], body[i]) /\ body[i] \in LineAt(o)
  <2>1. i \in 1..n /\ i + 1 \in 1..n /\ i + 1 # 1 /\ (i + 1) - 1 = i
    BY <1>1, <1>2
  <2>2. body[i] \in LineAt(o)
    BY ElementOfSeq
  <2> QED BY <1>2, <1>4, <2>1, <2>2
<1>7. ASSUME NEW i \in 1..m, Configuration(g[i])
      PROVE  /\ Configuration(g[i + 1])
             /\ Contents(g[i + 1], o) = Obeyed(body[i], Contents(g[i], o))
  BY <1>6, <1>7, ObeyAt
<1>8. \A i \in 1..n : i \in S
  <2>1. 1 \in S
    BY <1>4, <1>5
  <2>2. ASSUME NEW i \in 1..n, i \in S, i # n PROVE i + 1 \in S
    <3>1. i \in 1..m
      BY <1>1, <1>2, <2>2
    <3>2. Configuration(g[i]) /\ i + 1 \in 1..n
      BY <1>6, <2>2, <3>1
    <3> QED BY <1>7, <3>1, <3>2
  <2> HIDE DEF S
  <2>3. \A i \in 1..n : i \in S /\ i # n => i + 1 \in S
    BY <2>2
  <2> QED BY <1>4, <2>1, <2>3, UpTo
<1>9. \A i \in 1..n : Configuration(g[i])
  BY <1>8
<1>10. \A i \in 1..n : e[i] = Contents(g[i], o)
  OBVIOUS
<1> HIDE DEF e, S
<1>11. \A i \in 1..(m + 1) : Entries(e[i])
  BY <1>2, <1>9, <1>10, ContentsEntries
<1>12. Passes(body, Contents(c, o), e)
  <2>1. e[1] = Contents(c, o)
    BY <1>4, <1>5, <1>10
  <2>2. ASSUME NEW i \in 1..m PROVE e[i + 1] = Obeyed(body[i], e[i])
    BY <1>6, <1>7, <1>9, <1>10
  <2> QED BY <1>11, <2>1, <2>2 DEF Passes
<1>13. e[m + 1] = Contents(ObeyAll(c, set), o)
  BY <1>2, <1>4, <1>10
<1> QED BY <1>12, <1>13 DEF set
\* Entering what was captured of an object where nothing is: a list gets its
\* lines back under their numbers, a group and a range their texts.
LEMMA PutsBack ==
  ASSUME NEW o \in Objects, NEW g, Entries(g), NEW f, Entries(f), DOMAIN f = {}, NEW e,
         Passes(Puts(o, Sorted(DOMAIN g), Lines(g)), f, e)
  PROVE  e[Len(Puts(o, Sorted(DOMAIN g), Lines(g))) + 1] = g
<1> DEFINE s == Sorted(DOMAIN g)
           x == Lines(g)
           body == Puts(o, s, x)
           m == Len(body)
           S == {i \in 1..(m + 1) :
                   /\ DOMAIN e[i] \subseteq DOMAIN g
                   /\ \A n \in DOMAIN e[i] : e[i][n] = g[n]
                   /\ \A h \in 1..m : h < i => s[h] \in DOMAIN e[i]}
<1>1. /\ s \in Seq(Nat \ {0}) /\ x \in Seq(Text) /\ Len(x) = Len(s) /\ Len(x) \in Nat
      /\ \A i \in 1..Len(x) : s[i] \in DOMAIN g /\ x[i] = g[s[i]]
      /\ \A k \in DOMAIN g : \E i \in 1..Len(x) : s[i] = k
  BY Listed
<1> HIDE DEF s, x
<1>2. /\ m = Len(x)
      /\ \A i \in 1..m : body[i] = Put(o, s[i], x[i]) /\ s[i] \in Nat \ {0} /\ x[i] \in Text
  BY <1>1, PutsLines
<1>3. Passes(body, f, e)
  BY DEF s, x
<1> HIDE DEF body, m
<1>4. /\ e[1] = f /\ \A i \in 1..(m + 1) : Entries(e[i])
      /\ \A i \in 1..m : e[i + 1] = Obeyed(body[i], e[i])
  BY <1>3 DEF Passes, m
<1>5. m \in Nat
  BY <1>1, <1>2
<1>6. ASSUME NEW i \in 1..m
      PROVE  /\ i \in 1..(m + 1) /\ i + 1 \in 1..(m + 1)
             /\ DOMAIN e[i + 1] = DOMAIN e[i] \cup {s[i]} /\ e[i + 1][s[i]] = x[i]
             /\ \A n \in DOMAIN e[i] : n # s[i] => e[i + 1][n] = e[i][n]
  <2>1. i \in 1..(m + 1) /\ i + 1 \in 1..(m + 1)
    BY <1>5
  <2>2. body[i].op = "put" /\ body[i].k = s[i] /\ body[i].v = x[i]
    <3>1. /\ Put(o, s[i], x[i]).op = "put" /\ Put(o, s[i], x[i]).k = s[i]
          /\ Put(o, s[i], x[i]).v = x[i]
      BY DEF Put, Command
    <3> QED BY <1>2, <3>1
  <2>3. e[i + 1] = WithEntry(e[i], s[i], x[i])
    BY <1>4, <2>2, ObeyedIs
  <2>4. /\ DOMAIN WithEntry(e[i], s[i], x[i]) = DOMAIN e[i] \cup {s[i]}
        /\ WithEntry(e[i], s[i], x[i])[s[i]] = x[i]
        /\ \A n \in DOMAIN e[i] : n # s[i] => WithEntry(e[i], s[i], x[i])[n] = e[i][n]
    BY DEF WithEntry
  <2> QED BY <2>1, <2>3, <2>4
<1>7. 1 \in S
  <2>1. \A h \in 1..m : ~(h < 1)
    BY <1>5
  <2> QED BY <1>4, <1>5, <2>1
<1>8. ASSUME NEW i \in 1..(m + 1), i \in S, i # m + 1 PROVE i + 1 \in S
  <2>1. i \in 1..m
    BY <1>5, <1>8
  <2>2. DOMAIN e[i + 1] \subseteq DOMAIN g
    BY <1>1, <1>2, <1>6, <1>8, <2>1
  <2>3. \A n \in DOMAIN e[i + 1] : e[i + 1][n] = g[n]
    <3>1. x[i] = g[s[i]] /\ \A n \in DOMAIN e[i] : e[i][n] = g[n]
      BY <1>1, <1>2, <1>8, <2>1
    <3>2. /\ DOMAIN e[i + 1] = DOMAIN e[i] \cup {s[i]} /\ e[i + 1][s[i]] = x[i]
          /\ \A n \in DOMAIN e[i] : n # s[i] => e[i + 1][n] = e[i][n]
      BY <1>6, <2>1
    <3> HIDE DEF S
    <3> QED BY <3>1, <3>2
  <2>4. \A h \in 1..m : h < i + 1 => s[h] \in DOMAIN e[i + 1]
    <3>1. \A h \in 1..m : h < i + 1 => h < i \/ h = i
      BY <1>5, <2>1
    <3> QED BY <1>6, <1>8, <2>1, <3>1
  <2> QED BY <1>6, <2>1, <2>2, <2>3, <2>4
<1>9. m + 1 \in S
  <2> HIDE DEF S
  <2>1. m + 1 \in Nat /\ m + 1 >= 1 /\ m + 1 \in 1..(m + 1)
    BY <1>5
  <2>2. \A i \in 1..(m + 1) : i \in S /\ i # m + 1 => i + 1 \in S
    BY <1>8
  <2>3. \A i \in 1..(m + 1) : i \in S
    BY <1>7, <2>1, <2>2, UpTo
  <2> QED BY <2>1, <2>3
<1>10. Entries(e[m + 1])
  BY <1>4, <1>9
<1>11. DOMAIN g \subseteq DOMAIN e[m + 1]
  <2>1. \A h \in 1..m : h < m + 1
    BY <1>5
  <2> QED BY <1>1, <1>2, <1>9, <2>1
<1>12. DOMAIN e[m + 1] = DOMAIN g /\ \A n \in DOMAIN e[m + 1] : e[m + 1][n] = g[n]
  BY <1>9, <1>11
<1>13. e[m + 1] = g
  BY <1>10, <1>12, SameEntries
<1> QED BY <1>13 DEF m, body, s, x

LEMMA AddsBack ==
  ASSUME NEW o \in Objects, NEW g, Entries(g), NEW f, Entries(f), DOMAIN f = {}, NEW e,
         Passes(Adds(o, Lines(g)), f, e)
  PROVE  Range(e[Len(Adds(o, Lines(g))) + 1]) = Range(g)
<1> DEFINE s == Sorted(DOMAIN g)
           x == Lines(g)
           body == Adds(o, x)
           m == Len(body)
           S == {i \in 1..(m + 1) :
                   /\ Range(e[i]) \subseteq Range(g)
                   /\ \A h \in 1..m : h < i => x[h] \in Range(e[i])}
<1>1. /\ s \in Seq(Nat \ {0}) /\ x \in Seq(Text) /\ Len(x) = Len(s) /\ Len(x) \in Nat
      /\ \A i \in 1..Len(x) : s[i] \in DOMAIN g /\ x[i] = g[s[i]]
      /\ \A k \in DOMAIN g : \E i \in 1..Len(x) : s[i] = k
  BY Listed
<1> HIDE DEF s, x
<1>2. /\ m = Len(x) /\ \A i \in 1..m : body[i] = Add(o, x[i]) /\ x[i] \in Text
      /\ \A i \in 1..m : body[i] \in Line
  <2>1. /\ m = Len(x) /\ \A i \in 1..m : body[i] = Add(o, x[i]) /\ x[i] \in Text
    BY <1>1, AddsLines
  <2>2. \A i \in 1..m : Add(o, x[i]) \in Line
    BY <2>1, AddForm DEF LineAt
  <2> QED BY <2>1, <2>2
<1>3. Passes(body, f, e)
  BY DEF x
<1> HIDE DEF body, m
<1>4. /\ e[1] = f /\ \A i \in 1..(m + 1) : Entries(e[i])
      /\ \A i \in 1..m : e[i + 1] = Obeyed(body[i], e[i])
  BY <1>3 DEF Passes, m
<1>5. m \in Nat
  BY <1>1, <1>2
<1>6. ASSUME NEW i \in 1..m
      PROVE  /\ i \in 1..(m + 1) /\ i + 1 \in 1..(m + 1)
             /\ Range(e[i + 1]) = Range(e[i]) \cup {x[i]}
  <2>1. i \in 1..(m + 1) /\ i + 1 \in 1..(m + 1)
    BY <1>5
  <2>2. body[i].op = "add" /\ body[i].v = x[i]
    <3>1. Add(o, x[i]).op = "add" /\ Add(o, x[i]).v = x[i]
      BY DEF Add, Command
    <3> QED BY <1>2, <3>1
  <2>3. Range(Obeyed(body[i], e[i])) = Range(e[i]) \cup {body[i].v}
    BY <1>2, <1>4, <2>1, <2>2, AddRange
  <2> QED BY <1>4, <2>1, <2>2, <2>3
<1>7. 1 \in S
  <2>1. \A h \in 1..m : ~(h < 1)
    BY <1>5
  <2>2. Range(e[1]) = {}
    BY <1>4 DEF Range
  <2> QED BY <1>5, <2>1, <2>2
<1>8. \A i \in 1..m : x[i] \in Range(g)
  BY <1>1, <1>2, RangeIs
<1>9. ASSUME NEW i \in 1..(m + 1), i \in S, i # m + 1 PROVE i + 1 \in S
  <2>1. i \in 1..m
    BY <1>5, <1>9
  <2>2. Range(e[i + 1]) \subseteq Range(g)
    BY <1>6, <1>8, <1>9, <2>1
  <2>3. \A h \in 1..m : h < i + 1 => x[h] \in Range(e[i + 1])
    <3>1. \A h \in 1..m : h < i + 1 => h < i \/ h = i
      BY <1>5, <2>1
    <3> QED BY <1>6, <1>9, <2>1, <3>1
  <2> QED BY <1>6, <2>1, <2>2, <2>3
<1>10. m + 1 \in S
  <2> HIDE DEF S
  <2>1. m + 1 \in Nat /\ m + 1 >= 1 /\ m + 1 \in 1..(m + 1)
    BY <1>5
  <2>2. \A i \in 1..(m + 1) : i \in S /\ i # m + 1 => i + 1 \in S
    BY <1>9
  <2>3. \A i \in 1..(m + 1) : i \in S
    BY <1>7, <2>1, <2>2, UpTo
  <2> QED BY <2>1, <2>3
<1>11. Range(g) \subseteq Range(e[m + 1])
  <2> SUFFICES ASSUME NEW k \in DOMAIN g PROVE g[k] \in Range(e[m + 1])
    BY RangeIs
  <2>1. PICK i \in 1..m : s[i] = k
    BY <1>1, <1>2
  <2>2. i < m + 1 /\ x[i] = g[k]
    BY <1>1, <1>2, <1>5, <2>1
  <2> QED BY <1>10, <2>2
<1>12. Range(e[m + 1]) = Range(g)
  BY <1>10, <1>11
<1> QED BY <1>12 DEF m, body, x

\* Entries that agree outside of the numbers of a set.
Numbered(numbers) == {numbers[i] : i \in 1..Len(numbers)}
Outside(N, f, g) ==
    \A n : n \notin N => /\ n \in DOMAIN f <=> n \in DOMAIN g
                         /\ n \in DOMAIN g => f[n] = g[n]

LEMMA OutsideSame ==
  ASSUME NEW N, NEW f, Entries(f), NEW g, Entries(g), NEW d, Outside(N, d, f), Outside(N, g, d),
         N \cap DOMAIN f = {}, N \cap DOMAIN g = {}
  PROVE  g = f
<1>1. DOMAIN g = DOMAIN f
  BY DEF Outside
<1>2. \A n \in DOMAIN g : g[n] = f[n]
  BY <1>1 DEF Outside
<1> QED BY <1>1, <1>2, SameEntries

LEMMA PutsOutside ==
  ASSUME NEW o \in Objects, NEW numbers \in Seq(Nat \ {0}), NEW lines \in Seq(Text),
         Len(numbers) = Len(lines), NEW f, Entries(f), NEW e,
         Passes(Puts(o, numbers, lines), f, e)
  PROVE  Outside(Numbered(numbers), e[Len(Puts(o, numbers, lines)) + 1], f)
<1> DEFINE N == Numbered(numbers)
           body == Puts(o, numbers, lines)
           m == Len(body)
           S == {i \in 1..(m + 1) : Outside(N, e[i], f)}
<1>1. /\ m = Len(lines) /\ m \in Nat
      /\ \A i \in 1..m : body[i] = Put(o, numbers[i], lines[i]) /\ numbers[i] \in N
  <2>1. /\ m = Len(lines)
        /\ \A i \in 1..m : body[i] = Put(o, numbers[i], lines[i])
    BY PutsLines
  <2>2. m \in Nat
    BY <2>1
  <2> HIDE DEF body, m
  <2>3. \A i \in 1..m : numbers[i] \in N
    BY <2>1 DEF Numbered
  <2> QED BY <2>1, <2>2, <2>3
<1>2. Passes(body, f, e)
  OBVIOUS
<1> HIDE DEF body, m, N
<1>3. e[1] = f /\ \A i \in 1..m : e[i + 1] = Obeyed(body[i], e[i])
  BY <1>2 DEF Passes, m
<1>4. ASSUME NEW i \in 1..m, Outside(N, e[i], f) PROVE Outside(N, e[i + 1], f)
  <2>1. body[i].op = "put" /\ body[i].k = numbers[i] /\ body[i].v = lines[i]
    <3>1. /\ Put(o, numbers[i], lines[i]).op = "put" /\ Put(o, numbers[i], lines[i]).k = numbers[i]
          /\ Put(o, numbers[i], lines[i]).v = lines[i]
      BY DEF Put, Command
    <3> QED BY <1>1, <3>1
  <2>2. e[i + 1] = WithEntry(e[i], numbers[i], lines[i])
    BY <1>3, <2>1, ObeyedIs
  <2>3. \A n : n # numbers[i] => /\ n \in DOMAIN e[i + 1] <=> n \in DOMAIN e[i]
                                 /\ n \in DOMAIN e[i] => e[i + 1][n] = e[i][n]
    BY <2>2 DEF WithEntry
  <2>4. \A n : n \notin N => n # numbers[i]
    BY <1>1
  <2> QED BY <1>4, <2>3, <2>4 DEF Outside
<1>5. 1 \in S
  BY <1>1, <1>3 DEF Outside
<1>6. ASSUME NEW i \in 1..(m + 1), i \in S, i # m + 1 PROVE i + 1 \in S
  <2>1. i \in 1..m /\ i + 1 \in 1..(m + 1)
    BY <1>1, <1>6
  <2> QED BY <1>4, <1>6, <2>1
<1>7. m + 1 \in S
  <2> HIDE DEF S
  <2>1. m + 1 \in Nat /\ m + 1 >= 1 /\ m + 1 \in 1..(m + 1)
    BY <1>1
  <2>2. \A i \in 1..(m + 1) : i \in S /\ i # m + 1 => i + 1 \in S
    BY <1>6
  <2>3. \A i \in 1..(m + 1) : i \in S
    BY <1>5, <2>1, <2>2, UpTo
  <2> QED BY <2>1, <2>3
<1> QED BY <1>7 DEF m, body, N

LEMMA RemovesOutside ==
  ASSUME NEW o \in Objects, NEW numbers \in Seq(Nat \ {0}), NEW f, Entries(f), NEW e,
         Passes(Removes(o, numbers), f, e)
  PROVE  /\ Outside(Numbered(numbers), e[Len(Removes(o, numbers)) + 1], f)
         /\ Numbered(numbers) \cap DOMAIN e[Len(Removes(o, numbers)) + 1] = {}
<1> DEFINE N == Numbered(numbers)
           body == Removes(o, numbers)
           m == Len(body)
           S == {i \in 1..(m + 1) : /\ Outside(N, e[i], f)
                                    /\ \A h \in 1..m : h < i => numbers[h] \notin DOMAIN e[i]}
<1>0. m \in Nat
  <2>1. m = Len(numbers) /\ Len(numbers) \in Nat
    BY RemovesLines, LenProperties
  <2> HIDE DEF body, m
  <2> QED BY <2>1
<1>1. /\ m = Len(numbers)
      /\ \A i \in 1..m : /\ body[i] = Strip(o, numbers[i], "") /\ numbers[i] \in N
                         /\ numbers[i] \in Nat \ {0} /\ body[i] \in Line
  <2>1. /\ m = Len(numbers)
        /\ \A i \in 1..m : body[i] = Strip(o, numbers[i], "") /\ numbers[i] \in Nat \ {0}
    BY RemovesLines
  <2> HIDE DEF body, m
  <2>2. \A i \in 1..m : numbers[i] \in N
    BY <2>1 DEF Numbered
  <2>3. \A i \in 1..m : Strip(o, numbers[i], "") \in Line
    BY <2>1, StripForm DEF LineAt
  <2> QED BY <2>1, <2>2, <2>3
<1>2. Passes(body, f, e)
  OBVIOUS
<1> HIDE DEF body, m, N
<1>3. /\ e[1] = f /\ \A i \in 1..(m + 1) : Entries(e[i])
      /\ \A i \in 1..m : e[i + 1] = Obeyed(body[i], e[i])
  BY <1>2 DEF Passes, m
<1>4. ASSUME NEW i \in 1..m
      PROVE  /\ i \in 1..(m + 1) /\ i + 1 \in 1..(m + 1)
             /\ DOMAIN e[i + 1] = DOMAIN e[i] \ {numbers[i]}
             /\ \A n \in DOMAIN e[i + 1] : e[i + 1][n] = e[i][n]
  <2>1. i \in 1..(m + 1) /\ i + 1 \in 1..(m + 1)
    BY <1>0
  <2>2. body[i].op = "remove" /\ body[i].k = numbers[i] /\ body[i].v = ""
    <3>1. /\ Strip(o, numbers[i], "").op = "remove" /\ Strip(o, numbers[i], "").k = numbers[i]
          /\ Strip(o, numbers[i], "").v = ""
      BY DEF Strip, Command
    <3> QED BY <1>1, <3>1
  <2> DEFINE l == body[i]
             d == e[i]
             h == Obeyed(l, d)
  <2>3. l \in Line /\ Entries(d) /\ l.op = "remove" /\ l.k # 0 /\ l.v = ""
    BY <1>1, <1>3, <2>1, <2>2
  <2>4. h = e[i + 1] /\ l.k = numbers[i]
    BY <1>3, <2>2
  <2> HIDE DEF l, d, h
  <2>5. /\ DOMAIN Obeyed(l, d) = DOMAIN d \ Named(l, d)
        /\ \A n \in DOMAIN d \ Named(l, d) : Obeyed(l, d)[n] = d[n]
        /\ Named(l, d) = {n \in DOMAIN d : n = l.k}
    BY <2>3, StripIs
  <2>6. DOMAIN h = DOMAIN d \ {l.k} /\ \A n \in DOMAIN h : h[n] = d[n]
    BY <2>5 DEF h
  <2> QED BY <2>1, <2>4, <2>6 DEF d
<1>5. 1 \in S
  <2>1. \A h \in 1..m : ~(h < 1)
    BY <1>0
  <2>2. 1 \in 1..(m + 1) /\ Outside(N, e[1], f)
    BY <1>0, <1>3 DEF Outside
  <2> QED BY <2>1, <2>2
<1>6. ASSUME NEW i \in 1..(m + 1), i \in S, i # m + 1 PROVE i + 1 \in S
  <2>1. i \in 1..m
    BY <1>0, <1>6
  <2>2. Outside(N, e[i + 1], f)
    <3>1. Outside(N, e[i], f) /\ numbers[i] \in N
      BY <1>1, <1>6, <2>1
    <3>2. /\ DOMAIN e[i + 1] = DOMAIN e[i] \ {numbers[i]}
          /\ \A n \in DOMAIN e[i + 1] : e[i + 1][n] = e[i][n]
      BY <1>4, <2>1
    <3> HIDE DEF S
    <3> QED BY <3>1, <3>2 DEF Outside
  <2>3. \A h \in 1..m : h < i + 1 => numbers[h] \notin DOMAIN e[i + 1]
    <3>1. \A h \in 1..m : h < i + 1 => h < i \/ h = i
      BY <1>0, <2>1
    <3> QED BY <1>4, <1>6, <2>1, <3>1
  <2> QED BY <1>4, <2>1, <2>2, <2>3
<1>7. m + 1 \in S
  <2> HIDE DEF S
  <2>1. m + 1 \in Nat /\ m + 1 >= 1 /\ m + 1 \in 1..(m + 1)
    BY <1>0
  <2>2. \A i \in 1..(m + 1) : i \in S /\ i # m + 1 => i + 1 \in S
    BY <1>6
  <2>3. \A i \in 1..(m + 1) : i \in S
    BY <1>5, <2>1, <2>2, UpTo
  <2> QED BY <2>1, <2>3
<1>8. \A h \in 1..m : numbers[h] \notin DOMAIN e[m + 1]
  <2>1. \A h \in 1..m : h < m + 1
    BY <1>0
  <2> QED BY <1>7, <2>1
<1>9. N \cap DOMAIN e[m + 1] = {}
  BY <1>1, <1>8 DEF N, Numbered
<1>10. Outside(N, e[m + 1], f)
  BY <1>7
<1> QED BY <1>9, <1>10 DEF m, body, N

\* What is made where nothing was is taken away whole.
LEMMA CreationUndone ==
  ASSUME NEW s, Configuration(s), NEW o \in Objects, o \notin DOMAIN s,
         NEW set \in Seq(LineAt(o)), set # <<>>
  PROVE  Same(ObeyAll(ObeyAll(s, set), <<Delete(o)>>), s)
<1> DEFINE c == ObeyAll(s, set)
           l == Delete(o)
           d == Obey(c, l)
<1>1. Configuration(c) /\ Elsewhere(o, c, s)
  BY SetElsewhere
<1>2. l \in Line /\ l.op = "delete" /\ l.o = o
  BY DeleteForm DEF LineAt
<1> HIDE DEF c, l
<1>3. ObeyAll(c, <<l>>) = d
  BY <1>2, ObeyTwo
<1>4. /\ Configuration(d) /\ o \notin DOMAIN d
      /\ \A p : p # o => Contents(d, p) = Contents(c, p)
  BY <1>1, <1>2, ObeyConfiguration
<1> HIDE DEF d
<1>5. Contents(d, o) = Contents(s, o)
  BY <1>4 DEF Contents
<1>6. \A p : p # o => Contents(d, p) = Contents(s, p)
  BY <1>1, <1>4 DEF Elsewhere
<1>7. View(d, o) = View(s, o)
  BY <1>5 DEF View, Texts
<1> QED BY <1>3, <1>6, <1>7, SameIf DEF c, l

\* What was deleted whole is entered again from what was captured of it.
LEMMA DeletionUndone ==
  ASSUME NEW s, Configuration(s), NEW o \in DOMAIN s, o \in Lists \cup Groups \cup Ranges
  PROVE  Same(ObeyAll(ObeyAll(s, <<Delete(o)>>), Captured(s, o)), s)
<1> DEFINE l == Delete(o)
           c == Obey(s, l)
           g == s[o]
           u == Captured(s, o)
           d == ObeyAll(c, u)
<1>1. o \in Objects /\ Entries(g) /\ Contents(s, o) = g
  BY DEF Configuration, Contents
<1>2. l \in Line /\ l.op = "delete" /\ l.o = o
  BY <1>1, DeleteForm DEF LineAt
<1>3. u \in Seq(LineAt(o)) /\ u # <<>>
  BY CapturedLines
<1> HIDE DEF l, u
<1>4. ObeyAll(s, <<l>>) = c
  BY <1>2, ObeyTwo
<1>5. /\ Configuration(c) /\ o \notin DOMAIN c
      /\ \A p : p # o => Contents(c, p) = Contents(s, p)
  BY <1>2, ObeyConfiguration
<1> HIDE DEF c
<1>6. Entries(Contents(c, o)) /\ DOMAIN Contents(c, o) = {}
  BY <1>5, NoEntries DEF Contents
<1>7. Elsewhere(o, d, c)
  BY <1>1, <1>3, <1>5, SetElsewhere
<1> DEFINE numbers == Sorted(DOMAIN g)
           lines == Lines(g)
<1>8. numbers \in Seq(Nat \ {0}) /\ lines \in Seq(Text) /\ Len(numbers) = Len(lines)
  BY <1>1, Listed
<1>9. View(d, o) = View(s, o)
  <2>1. CASE o \in Lists
    <3> DEFINE body == Puts(o, numbers, lines)
    <3>1. u = <<Enter(o)>> \o body
      BY <2>1 DEF u, Captured
    <3>2. body \in Seq(LineAt(o)) /\ \A i \in 1..Len(body) : body[i].op # "delete"
      <4> HIDE DEF numbers, lines
      <4>1. /\ body \in Seq(LineAt(o)) /\ Len(body) = Len(lines)
            /\ \A i \in 1..Len(lines) : body[i] = Put(o, numbers[i], lines[i])
        BY <1>1, <1>8, PutsLines
      <4> HIDE DEF body
      <4>2. \A i \in 1..Len(lines) : Put(o, numbers[i], lines[i]).op = "put"
        BY DEF Put, Command
      <4> QED BY <4>1, <4>2
    <3> HIDE DEF body
    <3>3. PICK e : /\ Passes(body, Contents(c, o), e)
                   /\ e[Len(body) + 1] = Contents(ObeyAll(c, <<Enter(o)>> \o body), o)
      BY <1>1, <1>5, <3>2, HeadedPasses
    <3> HIDE DEF g
    <3>4. e[Len(body) + 1] = g
      BY <1>1, <1>6, <3>3, PutsBack DEF body
    <3>5. Contents(d, o) = Contents(s, o)
      BY <1>1, <3>1, <3>3, <3>4
    <3> QED BY <3>5 DEF View, Texts
  <2>2. CASE o \notin Lists
    <3> DEFINE body == Adds(o, lines)
    <3>1. u = <<Enter(o)>> \o body
      BY <2>2 DEF u, Captured
    <3>2. body \in Seq(LineAt(o)) /\ \A i \in 1..Len(body) : body[i].op # "delete"
      <4> HIDE DEF numbers, lines
      <4>1. /\ body \in Seq(LineAt(o)) /\ Len(body) = Len(lines)
            /\ \A i \in 1..Len(lines) : body[i] = Add(o, lines[i])
        BY <1>1, <1>8, AddsLines
      <4> HIDE DEF body
      <4>2. \A i \in 1..Len(lines) : Add(o, lines[i]).op = "add"
        BY DEF Add, Command
      <4> QED BY <4>1, <4>2
    <3> HIDE DEF body
    <3>3. PICK e : /\ Passes(body, Contents(c, o), e)
                   /\ e[Len(body) + 1] = Contents(ObeyAll(c, <<Enter(o)>> \o body), o)
      BY <1>1, <1>5, <3>2, HeadedPasses
    <3> HIDE DEF g
    <3>4. Range(e[Len(body) + 1]) = Range(g)
      BY <1>1, <1>6, <3>3, AddsBack DEF body
    <3>5. Range(Contents(d, o)) = Range(Contents(s, o))
      BY <1>1, <3>1, <3>3, <3>4
    <3>6. o \in Groups \cup Ranges
      BY <2>2
    <3> QED BY <3>5, <3>6, ViewIs
  <2> QED BY <2>1, <2>2
<1> HIDE DEF d
<1>10. \A p : p # o => Contents(d, p) = Contents(s, p)
  BY <1>5, <1>7 DEF Elsewhere
<1>11. Same(d, s)
  BY <1>9, <1>10, SameIf
<1> QED BY <1>4, <1>11 DEF d, u, l

\* The lines of a template are taken out by their numbers, which nothing had.
LEMMA TemplateUndone ==
  ASSUME NEW s, Configuration(s), NEW o \in Lists, NEW numbers \in Seq(Nat \ {0}),
         NEW lines \in Seq(Text), Len(numbers) = Len(lines),
         Numbered(numbers) \cap DOMAIN Contents(s, o) = {}
  PROVE  Same(ObeyAll(ObeyAll(s, <<Enter(o)>> \o Puts(o, numbers, lines)),
                      <<Enter(o)>> \o Removes(o, numbers)), s)
<1> DEFINE N == Numbered(numbers)
           a == Puts(o, numbers, lines)
           b == Removes(o, numbers)
           c == ObeyAll(s, <<Enter(o)>> \o a)
           d == ObeyAll(c, <<Enter(o)>> \o b)
           f == Contents(s, o)
<1>1. o \in Objects /\ Entries(f)
  BY ContentsEntries DEF Objects
<1>2. a \in Seq(LineAt(o)) /\ \A i \in 1..Len(a) : a[i].op # "delete"
  <2>1. /\ a \in Seq(LineAt(o)) /\ Len(a) = Len(lines)
        /\ \A i \in 1..Len(lines) : a[i] = Put(o, numbers[i], lines[i])
    BY <1>1, PutsLines
  <2> HIDE DEF a
  <2>2. \A i \in 1..Len(lines) : Put(o, numbers[i], lines[i]).op = "put"
    BY DEF Put, Command
  <2> QED BY <2>1, <2>2
<1>3. b \in Seq(LineAt(o)) /\ \A i \in 1..Len(b) : b[i].op # "delete"
  <2>1. /\ b \in Seq(LineAt(o)) /\ Len(b) = Len(numbers)
        /\ \A i \in 1..Len(numbers) : b[i] = Strip(o, numbers[i], "")
    BY <1>1, RemovesLines
  <2> HIDE DEF b
  <2>2. \A i \in 1..Len(numbers) : Strip(o, numbers[i], "").op = "remove"
    BY DEF Strip, Command
  <2> QED BY <2>1, <2>2
<1> HIDE DEF a, b
<1>4. Configuration(c) /\ Elsewhere(o, c, s)
  <2>1. <<Enter(o)>> \o a \in Seq(LineAt(o)) /\ <<Enter(o)>> \o a # <<>>
    BY <1>1, <1>2, Headed
  <2> QED BY <1>1, <2>1, SetElsewhere
<1>5. PICK e : /\ Passes(a, f, e)
               /\ e[Len(a) + 1] = Contents(c, o)
  BY <1>1, <1>2, HeadedPasses
<1>6. Outside(N, Contents(c, o), f)
  BY <1>1, <1>5, PutsOutside DEF a
<1> HIDE DEF c
<1>7. Entries(Contents(c, o))
  BY <1>4, ContentsEntries
<1>8. Configuration(d) /\ Elsewhere(o, d, c)
  <2>1. <<Enter(o)>> \o b \in Seq(LineAt(o)) /\ <<Enter(o)>> \o b # <<>>
    BY <1>1, <1>3, Headed
  <2> QED BY <1>1, <1>4, <2>1, SetElsewhere
<1>9. PICK h : /\ Passes(b, Contents(c, o), h)
               /\ h[Len(b) + 1] = Contents(d, o)
  BY <1>1, <1>3, <1>4, HeadedPasses
<1>10. Outside(N, Contents(d, o), Contents(c, o)) /\ N \cap DOMAIN Contents(d, o) = {}
  BY <1>1, <1>7, <1>9, RemovesOutside DEF b
<1> HIDE DEF d, N
<1>11. Contents(d, o) = f
  <2>1. Entries(Contents(d, o)) /\ N \cap DOMAIN f = {}
    BY <1>8, ContentsEntries DEF N
  <2> QED BY <1>1, <1>6, <1>10, <2>1, OutsideSame
<1>12. View(d, o) = View(s, o)
  BY <1>11 DEF View, Texts
<1>13. \A p : p # o => Contents(d, p) = Contents(s, p)
  BY <1>4, <1>8 DEF Elsewhere
<1>14. Same(d, s)
  BY <1>12, <1>13, SameIf
<1> QED BY <1>14 DEF d, c, a, b

\* A set and an undo of one line, or of two, behind their headers.
LEMMA OneAndOne ==
  ASSUME NEW s, Configuration(s), NEW o \in Objects, NEW a \in LineAt(o), a.op # "delete",
         NEW b \in LineAt(o), b.op # "delete"
  PROVE  /\ Contents(ObeyAll(ObeyAll(s, <<Enter(o), a>>), <<Enter(o), b>>), o)
              = Obeyed(b, Obeyed(a, Contents(s, o)))
         /\ Elsewhere(o, ObeyAll(ObeyAll(s, <<Enter(o), a>>), <<Enter(o), b>>), s)
<1> DEFINE c == ObeyAll(s, <<Enter(o), a>>)
           d == ObeyAll(c, <<Enter(o), b>>)
<1>1. /\ Configuration(c) /\ Contents(c, o) = Obeyed(a, Contents(s, o))
      /\ \A p : p # o => Contents(c, p) = Contents(s, p)
  BY EnterAnd
<1> HIDE DEF c
<1>2. /\ Contents(d, o) = Obeyed(b, Contents(c, o))
      /\ \A p : p # o => Contents(d, p) = Contents(c, p)
  BY <1>1, EnterAnd
<1> HIDE DEF d
<1>3. Contents(d, o) = Obeyed(b, Obeyed(a, Contents(s, o))) /\ Elsewhere(o, d, s)
  BY <1>1, <1>2 DEF Elsewhere
<1> QED BY <1>3 DEF c, d

LEMMA TwoAndTwo ==
  ASSUME NEW s, Configuration(s), NEW o \in Objects,
         NEW a \in LineAt(o), a.op # "delete", NEW b \in LineAt(o), b.op # "delete",
         NEW x \in LineAt(o), x.op # "delete", NEW y \in LineAt(o), y.op # "delete"
  PROVE  /\ Contents(ObeyAll(ObeyAll(s, <<Enter(o), a, b>>), <<Enter(o), x, y>>), o)
              = Obeyed(y, Obeyed(x, Obeyed(b, Obeyed(a, Contents(s, o)))))
         /\ Elsewhere(o, ObeyAll(ObeyAll(s, <<Enter(o), a, b>>), <<Enter(o), x, y>>), s)
<1> DEFINE c == ObeyAll(s, <<Enter(o), a, b>>)
           d == ObeyAll(c, <<Enter(o), x, y>>)
<1>1. /\ Configuration(c) /\ Contents(c, o) = Obeyed(b, Obeyed(a, Contents(s, o)))
      /\ \A p : p # o => Contents(c, p) = Contents(s, p)
  BY EnterAndThen
<1> HIDE DEF c
<1>2. /\ Contents(d, o) = Obeyed(y, Obeyed(x, Contents(c, o)))
      /\ \A p : p # o => Contents(d, p) = Contents(c, p)
  BY <1>1, EnterAndThen
<1> HIDE DEF d
<1>3. /\ Contents(d, o) = Obeyed(y, Obeyed(x, Obeyed(b, Obeyed(a, Contents(s, o)))))
      /\ Elsewhere(o, d, s)
  BY <1>1, <1>2 DEF Elsewhere
<1> QED BY <1>3 DEF c, d

\* Writing an entry and taking it away.
LEMMA PutEntry ==
  ASSUME NEW o \in Objects, NEW k \in Nat \ {0}, NEW v \in Text, NEW f, Entries(f)
  PROVE  /\ Obeyed(Put(o, k, v), f) = WithEntry(f, k, v)
         /\ Entries(WithEntry(f, k, v))
<1>1. Put(o, k, v).op = "put" /\ Put(o, k, v).k = k /\ Put(o, k, v).v = v
  BY DEF Put, Command
<1>2. Obeyed(Put(o, k, v), f) = WithEntry(f, k, v)
  BY <1>1, ObeyedIs
<1>3. Entries(WithEntry(f, k, v))
  BY WithEntryEntries
<1> QED BY <1>2, <1>3

Without(f, k) == Restrict(f, DOMAIN f \ {k})

LEMMA StripEntry ==
  ASSUME NEW o \in Objects, NEW k \in Nat \ {0}, NEW v \in Text, NEW f, Entries(f),
         k \in DOMAIN f, f[k] = v
  PROVE  /\ Obeyed(Strip(o, k, v), f) = Without(f, k)
         /\ Obeyed(Strip(o, k, ""), f) = Without(f, k)
         /\ Entries(Without(f, k))
<1>1. /\ Strip(o, k, v).op = "remove" /\ Strip(o, k, v).k = k /\ Strip(o, k, v).v = v
      /\ Strip(o, k, "").op = "remove" /\ Strip(o, k, "").k = k /\ Strip(o, k, "").v = ""
  BY DEF Strip, Command
<1>2. Named(Strip(o, k, v), f) = {k} /\ Named(Strip(o, k, ""), f) = {k}
  <2>1. v # "" /\ k # 0
    BY NamesAssumption
  <2> QED BY <1>1, <2>1 DEF Named
<1>3. /\ Obeyed(Strip(o, k, v), f) = Without(f, k)
      /\ Obeyed(Strip(o, k, ""), f) = Without(f, k)
  <2>1. ASSUME NEW l, l.op = "remove", Named(l, f) = {k} PROVE Obeyed(l, f) = Without(f, k)
    BY <2>1, ObeyedIs DEF Without
  <2> QED BY <1>1, <1>2, <2>1
<1>4. Entries(Without(f, k))
  BY RestrictEntries DEF Without
<1> QED BY <1>3, <1>4

LEMMA WithoutWith ==
  ASSUME NEW f, Entries(f), NEW k \in Nat \ {0}, NEW v \in Text
  PROVE  /\ k \notin DOMAIN f => Without(WithEntry(f, k, v), k) = f
         /\ k \in DOMAIN f /\ f[k] = v => WithEntry(Without(f, k), k, v) = f
<1> DEFINE h == WithEntry(f, k, v)
           g == Without(f, k)
<1>1. /\ Entries(h) /\ DOMAIN h = DOMAIN f \cup {k} /\ h[k] = v
      /\ \A n \in DOMAIN f : n # k => h[n] = f[n]
  <2>1. Entries(h)
    BY WithEntryEntries
  <2> QED BY <2>1 DEF WithEntry
<1>2. /\ Entries(g) /\ DOMAIN g = DOMAIN f \ {k} /\ \A n \in DOMAIN g : g[n] = f[n]
  BY RestrictEntries DEF Without
<1> HIDE DEF h, g
<1>3. /\ Entries(Without(h, k)) /\ DOMAIN Without(h, k) = DOMAIN h \ {k}
      /\ \A n \in DOMAIN h \ {k} : Without(h, k)[n] = h[n]
  BY <1>1, RestrictEntries DEF Without
<1>4. /\ Entries(WithEntry(g, k, v)) /\ DOMAIN WithEntry(g, k, v) = DOMAIN g \cup {k}
      /\ WithEntry(g, k, v)[k] = v
      /\ \A n \in DOMAIN g : n # k => WithEntry(g, k, v)[n] = g[n]
  <2>1. Entries(WithEntry(g, k, v))
    BY <1>2, WithEntryEntries
  <2> QED BY <2>1 DEF WithEntry
<1>5. ASSUME k \notin DOMAIN f PROVE Without(h, k) = f
  <2> DEFINE d == Without(h, k)
  <2>1. Entries(d) /\ DOMAIN d = DOMAIN f /\ \A n \in DOMAIN d : d[n] = f[n]
    BY <1>1, <1>3, <1>5
  <2> HIDE DEF d
  <2>2. d = f
    BY <2>1, SameEntries
  <2> QED BY <2>2 DEF d
<1>6. ASSUME k \in DOMAIN f, f[k] = v PROVE WithEntry(g, k, v) = f
  <2> DEFINE d == WithEntry(g, k, v)
  <2>1. Entries(d) /\ DOMAIN d = DOMAIN f /\ \A n \in DOMAIN d : d[n] = f[n]
    BY <1>2, <1>4, <1>6
  <2> HIDE DEF d
  <2>2. d = f
    BY <2>1, SameEntries
  <2> QED BY <2>2 DEF d
<1> QED BY <1>5, <1>6 DEF h, g

LEMMA EntriesSame ==
  ASSUME NEW d, NEW s, NEW o, Elsewhere(o, d, s), Contents(d, o) = Contents(s, o)
  PROVE  Same(d, s)
<1>1. View(d, o) = View(s, o)
  BY DEF View, Texts
<1> QED BY <1>1, SameIf DEF Elsewhere

LEMMA BindingUndone ==
  ASSUME NEW j, Accepted(j), NEW s, Configuration(s), NEW nx, PlanFor(nx, j, s).answer = "",
         j.op \in BindingOps, NEW p, p = PlanFor(nx, j, s),
         j.op = "flip" => Opposite(j.k) \notin DOMAIN Contents(s, j.o)
  PROVE  Same(ObeyAll(ObeyAll(s, p.set), p.undo), s)
<1> DEFINE o == j.o
           k == j.k
           m == Opposite(k)
           v == j.v
           g == Contents(s, o)
           d == ObeyAll(ObeyAll(s, p.set), p.undo)
<1>1. /\ o \in Objects /\ o \in Interfaces /\ k \in Nat \ {0} /\ m \in Nat \ {0} /\ m # k
      /\ v \in Text /\ Entries(g)
  BY AcceptedIs, DirsAre, ContentsEntries DEF BindingOps
<1>2. /\ Put(o, k, v) \in LineAt(o) /\ Put(o, k, v).op # "delete"
      /\ Put(o, m, v) \in LineAt(o) /\ Put(o, m, v).op # "delete"
      /\ Strip(o, k, v) \in LineAt(o) /\ Strip(o, k, v).op # "delete"
      /\ Strip(o, m, v) \in LineAt(o) /\ Strip(o, m, v).op # "delete"
  <2>1. /\ Put(o, k, v).op = "put" /\ Put(o, m, v).op = "put"
        /\ Strip(o, k, v).op = "remove" /\ Strip(o, m, v).op = "remove"
    BY DEF Put, Strip, Command
  <2>2. /\ Put(o, k, v) \in LineAt(o) /\ Put(o, m, v) \in LineAt(o)
    BY <1>1, PutForm
  <2>3. /\ Strip(o, k, v) \in LineAt(o) /\ Strip(o, m, v) \in LineAt(o)
    BY <1>1, StripForm
  <2> QED BY <2>1, <2>2, <2>3
<1>3. /\ j.op \in {"detach", "flip"} => k \in DOMAIN g /\ g[k] = v
      /\ j.op = "attach" => k \notin DOMAIN g
  BY StartsAlike
<1>4. CASE j.op = "attach"
  <2>1. p.set = <<Enter(o), Put(o, k, v)>> /\ p.undo = <<Enter(o), Strip(o, k, v)>>
    <3>1. p = Send(<<Enter(o), Put(o, k, v)>>, <<Enter(o), Strip(o, k, v)>>)
      BY <1>4, AttachSends
    <3> QED BY <3>1, SendsIs, Zenon
  <2> HIDE DEF o, k, v, m, g
  <2> DEFINE h == WithEntry(g, k, v)
  <2>2. Obeyed(Put(o, k, v), g) = h /\ Entries(h) /\ k \in DOMAIN h /\ h[k] = v
    <3>1. Obeyed(Put(o, k, v), g) = h /\ Entries(h)
      BY <1>1, PutEntry
    <3> QED BY <3>1 DEF WithEntry
  <2>3. Without(h, k) = g
    BY <1>1, <1>3, <1>4, WithoutWith
  <2> HIDE DEF h
  <2>4. Obeyed(Strip(o, k, v), h) = Without(h, k)
    BY <1>1, <2>2, StripEntry
  <2>5. Contents(d, o) = g /\ Elsewhere(o, d, s)
    <3> DEFINE a == Put(o, k, v)
               b == Strip(o, k, v)
    <3>1. Obeyed(b, Obeyed(a, Contents(s, o))) = g
      BY <2>2, <2>3, <2>4 DEF g
    <3>2. a \in LineAt(o) /\ a.op # "delete" /\ b \in LineAt(o) /\ b.op # "delete"
      BY <1>2
    <3>3. d = ObeyAll(ObeyAll(s, <<Enter(o), a>>), <<Enter(o), b>>)
      BY <2>1
    <3> HIDE DEF a, b, d
    <3> QED BY <1>1, <3>1, <3>2, <3>3, OneAndOne
  <2> HIDE DEF d
  <2>6. Same(d, s)
    BY <2>5, EntriesSame DEF g
  <2> QED BY <2>6 DEF d
<1>5. CASE j.op = "detach"
  <2>1. p.set = <<Enter(o), Strip(o, k, v)>> /\ p.undo = <<Enter(o), Put(o, k, v)>>
    <3>1. p = Send(<<Enter(o), Strip(o, k, v)>>, <<Enter(o), Put(o, k, v)>>)
      BY <1>5, DetachSends
    <3> QED BY <3>1, SendsIs, Zenon
  <2> HIDE DEF o, k, v, m, g
  <2> DEFINE h == Without(g, k)
  <2>2. Obeyed(Strip(o, k, v), g) = h /\ Entries(h)
    BY <1>1, <1>3, <1>5, StripEntry
  <2>3. WithEntry(h, k, v) = g
    BY <1>1, <1>3, <1>5, WithoutWith
  <2> HIDE DEF h
  <2>4. Obeyed(Put(o, k, v), h) = WithEntry(h, k, v)
    BY <1>1, <2>2, PutEntry
  <2>5. Contents(d, o) = g /\ Elsewhere(o, d, s)
    <3> DEFINE a == Strip(o, k, v)
               b == Put(o, k, v)
    <3>1. Obeyed(b, Obeyed(a, Contents(s, o))) = g
      BY <2>2, <2>3, <2>4 DEF g
    <3>2. a \in LineAt(o) /\ a.op # "delete" /\ b \in LineAt(o) /\ b.op # "delete"
      BY <1>2
    <3>3. d = ObeyAll(ObeyAll(s, <<Enter(o), a>>), <<Enter(o), b>>)
      BY <2>1
    <3> HIDE DEF a, b, d
    <3> QED BY <1>1, <3>1, <3>2, <3>3, OneAndOne
  <2> HIDE DEF d
  <2>6. Same(d, s)
    BY <2>5, EntriesSame DEF g
  <2> QED BY <2>6 DEF d
<1>6. CASE j.op = "flip"
  <2>1. /\ p.set = <<Enter(o), Strip(o, k, v), Put(o, m, v)>>
        /\ p.undo = <<Enter(o), Strip(o, m, v), Put(o, k, v)>>
    <3>1. p = Send(<<Enter(o), Strip(o, k, v), Put(o, m, v)>>,
                   <<Enter(o), Strip(o, m, v), Put(o, k, v)>>)
      BY <1>6, FlipSends
    <3> QED BY <3>1, SendsIs, Zenon
  <2>2. m \notin DOMAIN g
    BY <1>6
  <2> HIDE DEF o, k, v, m, g
  <2> DEFINE h == Without(g, k)
             i == WithEntry(h, m, v)
  <2>3. Obeyed(Strip(o, k, v), g) = h /\ Entries(h) /\ m \notin DOMAIN h
    <3>1. Obeyed(Strip(o, k, v), g) = h /\ Entries(h)
      BY <1>1, <1>3, <1>6, StripEntry
    <3> QED BY <2>2, <3>1, RestrictEntries, <1>1 DEF Without
  <2>4. WithEntry(h, k, v) = g
    BY <1>1, <1>3, <1>6, WithoutWith
  <2> HIDE DEF h
  <2>5. Obeyed(Put(o, m, v), h) = i /\ Entries(i) /\ m \in DOMAIN i /\ i[m] = v
    <3>1. Obeyed(Put(o, m, v), h) = i /\ Entries(i)
      BY <1>1, <2>3, PutEntry
    <3> QED BY <3>1 DEF WithEntry
  <2>6. Without(i, m) = h
    BY <1>1, <2>3, WithoutWith
  <2> HIDE DEF i
  <2>7. Obeyed(Strip(o, m, v), i) = h
    BY <1>1, <2>5, <2>6, StripEntry
  <2>8. Obeyed(Put(o, k, v), h) = g
    BY <1>1, <2>3, <2>4, PutEntry
  <2>9. Contents(d, o) = g /\ Elsewhere(o, d, s)
    <3> DEFINE a == Strip(o, k, v)
               b == Put(o, m, v)
               x == Strip(o, m, v)
               y == Put(o, k, v)
    <3>1. Obeyed(y, Obeyed(x, Obeyed(b, Obeyed(a, Contents(s, o))))) = g
      BY <2>3, <2>5, <2>7, <2>8 DEF g
    <3>2. /\ a \in LineAt(o) /\ a.op # "delete" /\ b \in LineAt(o) /\ b.op # "delete"
          /\ x \in LineAt(o) /\ x.op # "delete" /\ y \in LineAt(o) /\ y.op # "delete"
      BY <1>2
    <3>3. d = ObeyAll(ObeyAll(s, <<Enter(o), a, b>>), <<Enter(o), x, y>>)
      BY <2>1
    <3> HIDE DEF a, b, x, y, d
    <3>4. /\ Contents(ObeyAll(ObeyAll(s, <<Enter(o), a, b>>), <<Enter(o), x, y>>), o)
               = Obeyed(y, Obeyed(x, Obeyed(b, Obeyed(a, Contents(s, o)))))
          /\ Elsewhere(o, ObeyAll(ObeyAll(s, <<Enter(o), a, b>>), <<Enter(o), x, y>>), s)
      BY <1>1, <3>2, TwoAndTwo
    <3> QED BY <3>1, <3>3, <3>4, Zenon
  <2> HIDE DEF d
  <2>10. Same(d, s)
    BY <2>9, EntriesSame DEF g
  <2> QED BY <2>10 DEF d
<1> QED BY <1>4, <1>5, <1>6 DEF BindingOps

LEMMA TextsSame ==
  ASSUME NEW d, NEW s, NEW o \in Groups, Elsewhere(o, d, s),
         Range(Contents(d, o)) = Range(Contents(s, o))
  PROVE  Same(d, s)
<1>1. View(d, o) = View(s, o)
  BY ViewIs
<1> QED BY <1>1, SameIf DEF Elsewhere

\* Texts that are added and removed, in a line.
LEMMA AddTexts ==
  ASSUME NEW o \in Objects, NEW v \in Text, NEW f, Entries(f)
  PROVE  /\ Range(Obeyed(Add(o, v), f)) = Range(f) \cup {v}
         /\ Entries(Obeyed(Add(o, v), f))
         /\ Add(o, v) \in LineAt(o) /\ Add(o, v).op # "delete"
<1> DEFINE l == Add(o, v)
<1>1. l.op = "add" /\ l.v = v /\ l \in LineAt(o)
  BY AddForm
<1> HIDE DEF l
<1>2. l \in Line
  BY <1>1 DEF LineAt
<1>3. Range(Obeyed(l, f)) = Range(f) \cup {v} /\ Entries(Obeyed(l, f))
  BY <1>1, <1>2, AddRange, ObeyedEntries
<1> QED BY <1>1, <1>3 DEF l

LEMMA StripTexts ==
  ASSUME NEW o \in Objects, NEW v \in Text, NEW f, Entries(f)
  PROVE  /\ Range(Obeyed(Strip(o, 0, v), f)) = Range(f) \ {v}
         /\ Entries(Obeyed(Strip(o, 0, v), f))
         /\ Strip(o, 0, v) \in LineAt(o) /\ Strip(o, 0, v).op # "delete"
<1> DEFINE l == Strip(o, 0, v)
<1>1. l.op = "remove" /\ l.k = 0 /\ l.v = v /\ l \in LineAt(o)
  <2>1. l.op = "remove" /\ l.k = 0 /\ l.v = v
    BY DEF Strip, Command
  <2>2. l \in LineAt(o)
    BY StripForm
  <2> QED BY <2>1, <2>2
<1> HIDE DEF l
<1>2. l \in Line
  BY <1>1 DEF LineAt
<1>3. Range(Obeyed(l, f)) = Range(f) \ {v} /\ Entries(Obeyed(l, f))
  BY <1>1, <1>2, StripRange, ObeyedEntries
<1> QED BY <1>1, <1>3 DEF l

\* A member is taken out by its text, or by its number and may be there twice.
LEMMA TargetTexts ==
  ASSUME NEW j, j.o \in Objects, j.k \in Nat \ {0}, j.v \in Text, NEW nx,
         NEW f, Entries(f), j.k \in DOMAIN f, f[j.k] = j.v
  PROVE  /\ Range(Obeyed(DeleteTarget(nx, j), f)) \ {j.v} = Range(f) \ {j.v}
         /\ Range(Obeyed(DeleteTarget(nx, j), f)) \subseteq Range(f)
         /\ Entries(Obeyed(DeleteTarget(nx, j), f))
         /\ DeleteTarget(nx, j) \in LineAt(j.o) /\ DeleteTarget(nx, j).op # "delete"
<1> DEFINE l == DeleteTarget(nx, j)
           h == Obeyed(l, f)
<1>1. CASE nx
  <2>1. l = Strip(j.o, j.k, "")
    BY <1>1 DEF DeleteTarget
  <2>2. l \in LineAt(j.o) /\ l.op = "remove"
    <3>1. Strip(j.o, j.k, "") \in LineAt(j.o)
      BY StripForm
    <3>2. Strip(j.o, j.k, "").op = "remove"
      BY DEF Strip, Command
    <3> QED BY <2>1, <3>1, <3>2
  <2>3. h = Without(f, j.k) /\ Entries(h)
    <3>1. Obeyed(Strip(j.o, j.k, ""), f) = Without(f, j.k) /\ Entries(Without(f, j.k))
      <4> DEFINE o == j.o
                 k == j.k
                 v == j.v
      <4>1. o \in Objects /\ k \in Nat \ {0} /\ v \in Text /\ k \in DOMAIN f /\ f[k] = v
        OBVIOUS
      <4> HIDE DEF o, k, v
      <4>2. Obeyed(Strip(o, k, ""), f) = Without(f, k) /\ Entries(Without(f, k))
        BY <4>1, StripEntry
      <4> QED BY <4>2 DEF o, k, v
    <3> QED BY <2>1, <3>1
  <2>4. DOMAIN h = DOMAIN f \ {j.k} /\ \A n \in DOMAIN h : h[n] = f[n]
    BY <2>3, RestrictEntries DEF Without
  <2> HIDE DEF h, l
  <2>5. ASSUME NEW x PROVE x \in Range(h) => x \in Range(f)
    BY <2>4, RangeIs
  <2>6. ASSUME NEW x, x # j.v PROVE x \in Range(f) => x \in Range(h)
    <3> SUFFICES ASSUME x \in Range(f) PROVE x \in Range(h)
      OBVIOUS
    <3>1. PICK n \in DOMAIN f : f[n] = x
      BY RangeIs
    <3>2. n \in DOMAIN h /\ h[n] = x
      BY <2>4, <2>6, <3>1
    <3> QED BY <3>2, RangeIs
  <2>7. Range(h) \ {j.v} = Range(f) \ {j.v} /\ Range(h) \subseteq Range(f)
    BY <2>5, <2>6
  <2> QED BY <2>2, <2>3, <2>7 DEF h, l
<1>2. CASE ~nx
  <2>1. l = Strip(j.o, 0, j.v)
    BY <1>2 DEF DeleteTarget
  <2>2. /\ Range(h) = Range(f) \ {j.v} /\ Entries(h)
        /\ l \in LineAt(j.o) /\ l.op # "delete"
    BY <2>1, StripTexts
  <2> HIDE DEF h, l
  <2>3. Range(h) \ {j.v} = Range(f) \ {j.v} /\ Range(h) \subseteq Range(f)
    BY <2>2
  <2> QED BY <2>2, <2>3 DEF h, l
<1> QED BY <1>1, <1>2

\* The number a new member is read back with is its own.
More(f, v) == WithEntry(f, NextNumber(f), v)
NumberOf(f, v) == CHOOSE k \in DOMAIN f : f[k] = v

LEMMA OwnNumber ==
  ASSUME NEW f, Entries(f), NEW v \in Text, v \notin Range(f)
  PROVE  /\ NumberOf(More(f, v), v) \in DOMAIN More(f, v)
         /\ NumberOf(More(f, v), v) \in Nat \ {0}
         /\ More(f, v)[NumberOf(More(f, v), v)] = v
         /\ Without(More(f, v), NumberOf(More(f, v), v)) = f
<1> DEFINE n == NextNumber(f)
           h == More(f, v)
           m == NumberOf(h, v)
<1>1. n \in Nat \ {0} /\ n \notin DOMAIN f
  BY NextIsNew
<1>2. DOMAIN h = DOMAIN f \cup {n} /\ h[n] = v /\ \A k \in DOMAIN f : k # n => h[k] = f[k]
  BY DEF WithEntry, More
<1>3. Without(h, n) = f
  BY <1>1, WithoutWith DEF More
<1> HIDE DEF n, h
<1>4. m \in DOMAIN h /\ h[m] = v
  BY <1>2 DEF NumberOf
<1> HIDE DEF m
<1>5. m = n
  BY <1>1, <1>2, <1>4, RangeIs
<1> QED BY <1>1, <1>3, <1>4, <1>5 DEF m, h

\* A member is undone as planned, but for one added on NX-OS.
LEMMA MemberUndone ==
  ASSUME NEW j, Accepted(j), NEW s, Configuration(s), NEW nx, PlanFor(nx, j, s).answer = "",
         j.op \in {"addMember", "deleteMember", "editMember"}, NEW p, p = PlanFor(nx, j, s),
         j.op = "addMember" => j.v \notin Texts(s, j.o),
         j.op = "editMember" => j.w \notin Texts(s, j.o)
  PROVE  Same(ObeyAll(ObeyAll(s, p.set), UndoOf(nx, j, ObeyAll(s, p.set), p.undo)), s)
<1> DEFINE o == j.o
           v == j.v
           w == j.w
           g == Contents(s, o)
           c == ObeyAll(s, p.set)
           d == ObeyAll(c, UndoOf(nx, j, c, p.undo))
<1> HIDE DEF c, d
<1>1. /\ o \in Objects /\ o \in Groups /\ v \in Text /\ Entries(g)
      /\ j.op = "editMember" => w \in Text
  BY AcceptedIs, ContentsEntries DEF GroupOps
<1>2. /\ Add(o, v) \in LineAt(o) /\ Add(o, v).op # "delete"
      /\ Strip(o, 0, v) \in LineAt(o) /\ Strip(o, 0, v).op # "delete"
  BY <1>1, AddTexts, StripTexts
<1>3. ASSUME j.op \in {"deleteMember", "editMember"}
      PROVE  j.k \in DOMAIN g /\ g[j.k] = v /\ j.k \in Nat \ {0}
  <2>1. At(s, o, j.k, v)
    BY <1>3, DeleteMemberSends, EditMemberSends
  <2>2. j.k \in DOMAIN g /\ g[j.k] = v
    BY <2>1, NoEntries DEF At, Contents
  <2> QED BY <1>1, <2>2 DEF Entries
<1>4. CASE j.op = "addMember" /\ ~nx
  <2> DEFINE a == Add(o, v)
             b == Strip(o, 0, v)
  <2>1. p.set = <<Enter(o), a>> /\ p.undo = <<Enter(o), b>>
    <3>1. p = Send(<<Enter(o), a>>, <<Enter(o), b>>)
      BY <1>4, AddMemberSends
    <3> QED BY <3>1, SendsIs, Zenon
  <2>2. UndoOf(nx, j, c, p.undo) = p.undo
    BY <1>4 DEF UndoOf
  <2>3. v \notin Range(g)
    BY <1>4 DEF Texts
  <2> HIDE DEF o, v, g
  <2>4. Range(Obeyed(a, g)) = Range(g) \cup {v} /\ Entries(Obeyed(a, g))
    BY <1>1, AddTexts
  <2> DEFINE h == Obeyed(a, g)
  <2> HIDE DEF h
  <2>5. Range(Obeyed(b, h)) = Range(h) \ {v}
    BY <1>1, <2>4, StripTexts DEF h
  <2>6. Range(Obeyed(b, h)) = Range(g)
    BY <2>3, <2>4, <2>5 DEF h
  <2>7. d = ObeyAll(ObeyAll(s, <<Enter(o), a>>), <<Enter(o), b>>)
    BY <2>1, <2>2 DEF c, d
  <2>8. a \in LineAt(o) /\ a.op # "delete" /\ b \in LineAt(o) /\ b.op # "delete"
    BY <1>2
  <2> HIDE DEF a, b
  <2>9. Contents(d, o) = Obeyed(b, h) /\ Elsewhere(o, d, s)
    BY <1>1, <2>7, <2>8, OneAndOne DEF h, g
  <2>10. Same(d, s)
    BY <1>1, <2>6, <2>9, TextsSame DEF g
  <2> QED BY <2>10 DEF d, c
<1>5. CASE j.op = "addMember" /\ nx
  <2> DEFINE a == Add(o, v)
             h == More(g, v)
             k == NumberOf(h, v)
             b == Strip(o, k, "")
  <2>1. p.set = <<Enter(o), a>>
    <3>1. p = Send(<<Enter(o), a>>, <<Enter(o), Strip(o, 0, v)>>)
      BY <1>5, AddMemberSends
    <3> QED BY <3>1, SendsIs, Zenon
  <2>2. v \notin Range(g)
    BY <1>5 DEF Texts
  <2>3. UndoOf(nx, j, c, p.undo) = <<Enter(o), Strip(o, NumberOf(c[o], v), "")>>
    BY <1>5, Zenon DEF UndoOf, NumberOf
  <2> HIDE DEF o, v, g
  <2>4. Obeyed(a, g) = h
    <3>1. a.op = "add" /\ a.v = v
      BY DEF Add, Command
    <3> QED BY <2>2, <3>1, ObeyedIs DEF More
  <2>5. /\ k \in DOMAIN h /\ k \in Nat \ {0} /\ h[k] = v /\ Without(h, k) = g
    BY <1>1, <2>2, OwnNumber
  <2>6. Entries(h)
    <3>1. Entries(Obeyed(a, g))
      BY <1>1, AddTexts
    <3> QED BY <2>4, <3>1
  <2> HIDE DEF h
  <2>7. c[o] = h
    <3>1. c = ObeyAll(s, <<Enter(o), a>>)
      BY <2>1 DEF c
    <3> HIDE DEF a
    <3>2. Contents(c, o) = h
      BY <1>1, <1>2, <2>4, <3>1, EnterAnd DEF g, a
    <3>3. DOMAIN h # {}
      BY <2>5
    <3> QED BY <3>2, <3>3, NoEntries DEF Contents
  <2> HIDE DEF a
  <2>8. UndoOf(nx, j, c, p.undo) = <<Enter(o), b>>
    BY <2>3, <2>7
  <2> HIDE DEF k
  <2>9. Obeyed(b, h) = g
    BY <1>1, <2>5, <2>6, StripEntry
  <2>10. b \in LineAt(o) /\ b.op # "delete"
    <3>1. b \in LineAt(o)
      BY <1>1, <2>5, StripForm
    <3>2. b.op = "remove"
      BY DEF Strip, Command
    <3> QED BY <3>1, <3>2
  <2>11. d = ObeyAll(ObeyAll(s, <<Enter(o), a>>), <<Enter(o), b>>)
    BY <2>1, <2>8 DEF c, d
  <2> HIDE DEF b
  <2>12. Contents(d, o) = g /\ Elsewhere(o, d, s)
    BY <1>1, <1>2, <2>4, <2>9, <2>10, <2>11, OneAndOne DEF a, g
  <2>13. Same(d, s)
    BY <2>12, EntriesSame DEF g
  <2> QED BY <2>13 DEF d, c
<1>6. CASE j.op = "deleteMember"
  <2> DEFINE a == DeleteTarget(nx, j)
             b == Add(o, v)
  <2>1. p.set = <<Enter(o), a>> /\ p.undo = <<Enter(o), b>>
    <3>1. p = Send(<<Enter(o), a>>, <<Enter(o), b>>)
      BY <1>6, DeleteMemberSends
    <3> HIDE DEF a, b
    <3> QED BY <3>1, SendsIs, Zenon
  <2>2. UndoOf(nx, j, c, p.undo) = p.undo
    BY <1>6 DEF UndoOf
  <2>3. /\ Range(Obeyed(a, g)) \ {v} = Range(g) \ {v}
        /\ Range(Obeyed(a, g)) \subseteq Range(g) /\ Entries(Obeyed(a, g))
        /\ a \in LineAt(o) /\ a.op # "delete"
    BY <1>1, <1>3, <1>6, TargetTexts
  <2>4. v \in Range(g)
    BY <1>3, <1>6, RangeIs
  <2> HIDE DEF o, v, g, a
  <2> DEFINE h == Obeyed(a, g)
  <2> HIDE DEF h
  <2>5. Range(Obeyed(b, h)) = Range(h) \cup {v}
    BY <1>1, <2>3, AddTexts DEF h
  <2>6. Range(Obeyed(b, h)) = Range(g)
    BY <2>3, <2>4, <2>5 DEF h
  <2>7. d = ObeyAll(ObeyAll(s, <<Enter(o), a>>), <<Enter(o), b>>)
    BY <2>1, <2>2 DEF c, d
  <2>8. b \in LineAt(o) /\ b.op # "delete"
    BY <1>2
  <2> HIDE DEF b
  <2>9. Contents(d, o) = Obeyed(b, h) /\ Elsewhere(o, d, s)
    BY <1>1, <2>3, <2>7, <2>8, OneAndOne DEF h, g
  <2>10. Same(d, s)
    BY <1>1, <2>6, <2>9, TextsSame DEF g
  <2> QED BY <2>10 DEF d, c
<1>7. CASE j.op = "editMember"
  <2> DEFINE a == DeleteTarget(nx, j)
             b == Add(o, w)
             x == Strip(o, 0, w)
             y == Add(o, v)
  <2>1. p.set = <<Enter(o), a, b>> /\ p.undo = <<Enter(o), x, y>>
    <3>1. p = Send(<<Enter(o), a, b>>, <<Enter(o), x, y>>)
      BY <1>7, EditMemberSends
    <3> HIDE DEF a, b, x, y
    <3> QED BY <3>1, SendsIs, Zenon
  <2>2. UndoOf(nx, j, c, p.undo) = p.undo
    BY <1>7 DEF UndoOf
  <2>3. /\ Range(Obeyed(a, g)) \ {v} = Range(g) \ {v}
        /\ Range(Obeyed(a, g)) \subseteq Range(g) /\ Entries(Obeyed(a, g))
        /\ a \in LineAt(o) /\ a.op # "delete"
    BY <1>1, <1>3, <1>7, TargetTexts
  <2>4. v \in Range(g) /\ w \notin Range(g) /\ w \in Text
    BY <1>1, <1>3, <1>7, RangeIs DEF Texts
  <2> HIDE DEF o, v, w, g, a
  <2> DEFINE h == Obeyed(a, g)
             i == Obeyed(b, h)
             e == Obeyed(x, i)
  <2> HIDE DEF h
  <2>5. /\ Range(i) = Range(h) \cup {w} /\ Entries(i)
        /\ b \in LineAt(o) /\ b.op # "delete"
    BY <1>1, <2>3, <2>4, AddTexts DEF h
  <2> HIDE DEF i
  <2>6. /\ Range(e) = Range(i) \ {w} /\ Entries(e)
        /\ x \in LineAt(o) /\ x.op # "delete"
    BY <1>1, <2>4, <2>5, StripTexts
  <2> HIDE DEF e
  <2>7. /\ Range(Obeyed(y, e)) = Range(e) \cup {v}
        /\ y \in LineAt(o) /\ y.op # "delete"
    BY <1>1, <2>6, AddTexts
  <2>8. Range(Obeyed(y, e)) = Range(g)
    BY <2>3, <2>4, <2>5, <2>6, <2>7 DEF h
  <2>9. d = ObeyAll(ObeyAll(s, <<Enter(o), a, b>>), <<Enter(o), x, y>>)
    BY <2>1, <2>2 DEF c, d
  <2> HIDE DEF b, x, y
  <2>10. Contents(d, o) = Obeyed(y, e) /\ Elsewhere(o, d, s)
    <3>1. /\ Contents(ObeyAll(ObeyAll(s, <<Enter(o), a, b>>), <<Enter(o), x, y>>), o)
               = Obeyed(y, Obeyed(x, Obeyed(b, Obeyed(a, Contents(s, o)))))
          /\ Elsewhere(o, ObeyAll(ObeyAll(s, <<Enter(o), a, b>>), <<Enter(o), x, y>>), s)
      BY <1>1, <2>3, <2>5, <2>6, <2>7, TwoAndTwo
    <3>2. Obeyed(x, Obeyed(b, Obeyed(a, Contents(s, o)))) = e
      BY DEF e, i, h, g
    <3> QED BY <2>9, <3>1, <3>2, Zenon
  <2>11. Same(d, s)
    BY <1>1, <2>8, <2>10, TextsSame DEF g
  <2> QED BY <2>11 DEF d, c
<1> QED BY <1>4, <1>5, <1>6, <1>7

\* What a set writes was not there.
Fresh(set, s) ==
    \A c \in ToSet(set) : /\ c.op = "put" => c.k \notin DOMAIN Contents(s, c.o)
                          /\ c.op = "add" => c.v \notin Texts(s, c.o)

LEMMA TemplateFresh ==
  ASSUME NEW o \in Objects, NEW numbers \in Seq(Nat \ {0}), NEW lines \in Seq(Text),
         Len(numbers) = Len(lines), NEW s, Fresh(<<Enter(o)>> \o Puts(o, numbers, lines), s)
  PROVE  Numbered(numbers) \cap DOMAIN Contents(s, o) = {}
<1> DEFINE body == Puts(o, numbers, lines)
           set == <<Enter(o)>> \o body
<1>1. /\ body \in Seq(LineAt(o)) /\ Len(body) = Len(lines) /\ Len(lines) \in Nat
      /\ \A i \in 1..Len(lines) : body[i] = Put(o, numbers[i], lines[i])
  BY PutsLines
<1> HIDE DEF body
<1>2. /\ set \in Seq(LineAt(o)) /\ Len(set) = Len(body) + 1
      /\ \A i \in 1..Len(body) : set[i + 1] = body[i]
  BY <1>1, Headed
<1>3. Fresh(set, s)
  BY DEF body
<1> HIDE DEF set
<1>4. ASSUME NEW i \in 1..Len(numbers) PROVE numbers[i] \notin DOMAIN Contents(s, o)
  <2> DEFINE l == Put(o, numbers[i], lines[i])
  <2>1. l.op = "put" /\ l.k = numbers[i] /\ l.o = o
    BY DEF Put, Command
  <2> HIDE DEF l
  <2>2. i + 1 \in 1..Len(set) /\ set[i + 1] = l
    BY <1>1, <1>2 DEF l
  <2>3. l \in ToSet(set)
    <3>1. i + 1 \in DOMAIN set
      BY <1>2, <2>2
    <3> QED BY <2>2, <3>1, Zenon DEF ToSet
  <2> QED BY <1>3, <2>1, <2>3 DEF Fresh
<1> QED BY <1>4 DEF Numbered

LEMMA WiderSeq ==
  ASSUME NEW S, NEW T, S \subseteq T, NEW q \in Seq(S)
  PROVE  q \in Seq(T)
<1>1. /\ Len(q) \in Nat /\ q = [i \in 1..Len(q) |-> q[i]]
      /\ \A i \in 1..Len(q) : q[i] \in S
  OBVIOUS
<1> QED BY <1>1

LEMMA SecondIsSent ==
  ASSUME NEW S, NEW e \in S, NEW a \in S
  PROVE  a \in ToSet(<<e, a>>)
<1>1. 2 \in DOMAIN <<e, a>> /\ <<e, a>>[2] = a
  OBVIOUS
<1> QED BY <1>1, Zenon DEF ToSet

\* Every change is undone, that wrote nothing that was there, but for the edit
\* of a range.
LEMMA ChangeUndone ==
  ASSUME NEW j, Accepted(j), NEW s, Configuration(s), NEW nx, PlanFor(nx, j, s).answer = "",
         NEW p, p = PlanFor(nx, j, s), Fresh(p.set, s), ~(j.op = "range" /\ j.o \in DOMAIN s)
  PROVE  Same(ObeyAll(ObeyAll(s, p.set), UndoOf(nx, j, ObeyAll(s, p.set), p.undo)), s)
<1> DEFINE o == j.o
           c == ObeyAll(s, p.set)
           u == UndoOf(nx, j, c, p.undo)
<1> HIDE DEF c, u
<1>1. /\ o \in Objects /\ j.lines \in Seq(Text)
      /\ j.op \in BindingOps \cup ListOps \cup RangeOps \cup GroupOps
  BY AcceptedIs
<1>2. TypedPlan(p, LineAt(o))
  <2>1. TypedPlan(p, StepsOf(j))
    BY PlanTyped
  <2>2. StepsOf(j) \subseteq LineAt(o)
    BY DEF StepsOf
  <2> QED BY <2>1, <2>2, WiderSeq DEF TypedPlan
<1>3. j.op # "addMember" => u = p.undo
  BY DEF u, UndoOf
<1>4. CASE j.op \in BindingOps
  <2>1. j.op = "flip" => Opposite(j.k) \notin DOMAIN Contents(s, j.o)
    <3> DEFINE l == Put(j.o, Opposite(j.k), j.v)
    <3>1. l.op = "put" /\ l.k = Opposite(j.k) /\ l.o = j.o
      BY DEF Put, Command
    <3>2. j.op = "flip" => l \in ToSet(p.set)
      BY WritesAre
    <3> HIDE DEF l
    <3> QED BY <3>1, <3>2 DEF Fresh
  <2>2. Same(ObeyAll(ObeyAll(s, p.set), p.undo), s)
    BY <1>4, <2>1, BindingUndone
  <2>3. u = p.undo
    BY <1>3, <1>4 DEF BindingOps
  <2> QED BY <2>2, <2>3 DEF c, u
<1>5. CASE j.op \in {"addMember", "deleteMember", "editMember"}
  <2>1. j.op = "editMember" => j.w \notin Texts(s, j.o)
    <3> DEFINE l == Add(j.o, j.w)
    <3>1. l.op = "add" /\ l.v = j.w /\ l.o = j.o
      BY DEF Add, Command
    <3>2. j.op = "editMember" => l \in ToSet(p.set)
      BY WritesAre
    <3> HIDE DEF l
    <3> QED BY <3>1, <3>2 DEF Fresh
  <2>2. j.op = "addMember" => j.v \notin Texts(s, j.o)
    <3> SUFFICES ASSUME j.op = "addMember" PROVE j.v \notin Texts(s, j.o)
      OBVIOUS
    <3> DEFINE e == Enter(j.o)
               l == Add(j.o, j.v)
    <3>1. l.op = "add" /\ l.v = j.v /\ l.o = j.o
      BY DEF Add, Command
    <3>2. p.set = <<e, l>>
      <4>1. p = Send(<<e, l>>, <<Enter(j.o), Strip(j.o, 0, j.v)>>)
        BY AddMemberSends
      <4> QED BY <4>1, SendsIs, Zenon
    <3> HIDE DEF e, l
    <3>3. l \in ToSet(<<e, l>>)
      <4>1. e \in {e, l} /\ l \in {e, l}
        OBVIOUS
      <4> QED BY <4>1, SecondIsSent
    <3>4. l \in ToSet(p.set)
      BY <3>2, <3>3
    <3> QED BY <3>1, <3>4 DEF Fresh
  <2> QED BY <1>5, <2>1, <2>2, MemberUndone
<1>6. CASE j.op \in {"deleteList", "deleteRange", "deleteGroup"}
  <2>1. o \in DOMAIN s /\ p = Send(<<Delete(o)>>, Captured(s, o))
    BY <1>6, DeletionSends
  <2>2. p.set = <<Delete(o)>> /\ p.undo = Captured(s, o)
    BY <2>1, SendsIs, Zenon
  <2>3. o \in Lists \cup Groups \cup Ranges
    BY <1>6, AcceptedIs DEF GroupOps
  <2>4. Same(ObeyAll(ObeyAll(s, <<Delete(o)>>), Captured(s, o)), s)
    BY <2>1, <2>3, DeletionUndone
  <2>5. u = p.undo
    BY <1>3, <1>6
  <2> QED BY <2>2, <2>4, <2>5 DEF c, u
<1>7. CASE j.op \in {"createList", "createGroup", "range"}
  <2>1. o \notin DOMAIN s /\ p.undo = <<Delete(o)>>
    <3>1. ASSUME NEW set, p = Send(set, <<Delete(o)>>) PROVE p.undo = <<Delete(o)>>
      BY <3>1, SendsIs, Zenon
    <3>2. CASE j.op = "createList"
      <4>1. /\ o \notin DOMAIN s
            /\ p = Send(<<Enter(o)>> \o Puts(o, FirstEmpty({}, Len(j.lines)), j.lines)
                                     \o <<Put(o, LastNumber, j.v)>>,
                        <<Delete(o)>>)
        BY <3>2, CreateListSends
      <4> QED BY <3>1, <4>1
    <3>3. CASE j.op = "createGroup"
      <4>1. o \notin DOMAIN s /\ p = Send(<<Enter(o)>> \o Adds(o, j.lines), <<Delete(o)>>)
        BY <3>3, CreateGroupSends
      <4> QED BY <3>1, <4>1
    <3>4. CASE j.op = "range"
      <4>1. o \notin DOMAIN s
        BY <3>4
      <4>2. p = Send(<<Enter(o)>> \o Adds(o, j.lines), <<Delete(o)>>)
        BY <3>4, <4>1, RangeSends
      <4> QED BY <3>1, <4>1, <4>2
    <3> QED BY <1>7, <3>2, <3>3, <3>4
  <2>2. p.set \in Seq(LineAt(o)) /\ p.set # <<>>
    BY <1>2 DEF TypedPlan
  <2> DEFINE set == p.set
  <2> HIDE DEF set, o
  <2>3. Same(ObeyAll(ObeyAll(s, set), <<Delete(o)>>), s)
    BY <1>1, <2>1, <2>2, CreationUndone DEF set
  <2>4. u = p.undo
    BY <1>3, <1>7
  <2> QED BY <2>1, <2>3, <2>4 DEF c, u, set
<1>8. CASE j.op = "template"
  <2> DEFINE used == RuleNumbers(Contents(s, j.o))
             numbers == FirstEmpty(used, Len(j.lines))
             lines == j.lines
  <2>1. p = Send(<<Enter(o)>> \o Puts(o, numbers, lines), <<Enter(o)>> \o Removes(o, numbers))
    BY <1>8, TemplateSends
  <2>2. numbers \in Seq(Nat \ {0}) /\ Len(numbers) = Len(lines)
    <3>1. used \in SUBSET Nat /\ IsFiniteSet(used)
      <4>1. Entries(Contents(s, j.o))
        BY ContentsEntries
      <4>2. used \in SUBSET DOMAIN Contents(s, j.o)
        BY DEF RuleNumbers
      <4> HIDE DEF used
      <4> QED BY <4>1, <4>2, FS_Subset DEF Entries
    <3>2. Len(lines) \in Nat
      BY <1>1, LenProperties
    <3> HIDE DEF used
    <3> QED BY <3>1, <3>2, FirstEmptyIsFree
  <2> HIDE DEF numbers
  <2>3. /\ p.set = <<Enter(o)>> \o Puts(o, numbers, lines)
        /\ p.undo = <<Enter(o)>> \o Removes(o, numbers)
    BY <2>1, SendsIs, Zenon
  <2>4. o \in Lists
    BY <1>8, AcceptedIs
  <2>5. Numbered(numbers) \cap DOMAIN Contents(s, o) = {}
    BY <1>1, <2>2, <2>3, TemplateFresh
  <2>6. Same(ObeyAll(ObeyAll(s, <<Enter(o)>> \o Puts(o, numbers, lines)),
                     <<Enter(o)>> \o Removes(o, numbers)), s)
    BY <1>1, <2>2, <2>4, <2>5, TemplateUndone
  <2>7. u = p.undo
    BY <1>3, <1>8
  <2> QED BY <2>3, <2>6, <2>7 DEF c, u
<1> QED BY <1>1, <1>4, <1>5, <1>6, <1>7, <1>8 DEF ListOps, RangeOps, GroupOps

\* After a success the undo commands bring the configuration back, for every
\* kind of change and on both platforms, when nobody else wrote, no read failed,
\* no refusal went unnoticed and nothing was there already that the change
\* wrote; but for the edit of a range (main.py: the undo of every write handler).
THEOREM UndoBringsBack == Spec => []UndoReturns
<1>1. IInv => UndoReturns
  <2> SUFFICES ASSUME IInv, NEW r \in Requests, Done(r, "success"), Alone(r), Aware(r),
                      ~Rewrites(r), ~EditsRange(r)
               PROVE  Same(ObeyAll(conf, plan[r].undo), was[r])
    BY DEF UndoReturns
  <2> DEFINE j == job[r]
             s == was[r]
             p == PlanFor(nexus, job[r], was[r])
  <2>1. Working(r) /\ Founded(r) /\ Placed(r) /\ Seen(r)
    BY DEF IInv, Holds, Working
  <2>2. r \notin blind /\ r \notin silent
    BY DEF Aware
  <2>3. Accepted(j) /\ Configuration(s) /\ p.answer = "" /\ plan[r].set = p.set
    BY <2>1, <2>2, AsksAssumption DEF Founded
  <2>4. conf = ObeyAll(s, p.set)
    BY <2>1, <2>2, <2>3 DEF Placed
  <2>5. plan[r].undo = UndoOf(nexus, j, ObeyAll(s, p.set), p.undo)
    BY <2>1, <2>2, <2>4 DEF Seen
  <2>6. Fresh(p.set, s)
    BY <2>3 DEF Rewrites, Fresh
  <2>7. ~(j.op = "range" /\ j.o \in DOMAIN s)
    BY DEF EditsRange
  <2>8. p = PlanFor(nexus, j, s)
    OBVIOUS
  <2> HIDE DEF p, j, s
  <2>9. Same(ObeyAll(ObeyAll(s, p.set), UndoOf(nexus, j, ObeyAll(s, p.set), p.undo)), s)
    BY <2>3, <2>6, <2>7, <2>8, ChangeUndone
  <2> QED BY <2>4, <2>5, <2>9 DEF s
<1> QED BY <1>1, Invariance, PTL
=============================================================================
