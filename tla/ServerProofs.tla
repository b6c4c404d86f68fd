---------------------------- MODULE ServerProofs ----------------------------
(***************************************************************************)
(* Proofs about ConfigFile, LoginGuard and Server, for any configuration   *)
(* files, thresholds, times, requests and migrations.                      *)
(***************************************************************************)
EXTENDS Server, FiniteSetTheorems, WellFoundedInduction, SequenceTheorems,
        TLAPS

-----------------------------------------------------------------------------
(* ConfigFile: positions in a file *)

(* A set of numbers has a least one, ... *)
LEMMA MinIs ==
    ASSUME NEW S \in SUBSET Nat, S # {}
    PROVE  Min(S) \in S /\ \A y \in S : Min(S) <= y
<1> DEFINE R == OpToRel(<, Nat)
<1>1. \E x \in S : \A y \in S : <<y, x>> \notin R
    <2>1. IsWellFoundedOn(R, Nat)
        BY NatLessThanWellFounded
    <2> HIDE DEF R
    <2> QED
        BY <2>1, WFMin
<1>2. \A x, y \in Nat : <<y, x>> \notin R => x <= y
    BY DEF OpToRel
<1>3. \E x \in S : \A y \in S : x <= y
    BY <1>1, <1>2
<1> QED
    BY <1>3 DEF Min

(* ... and a greatest one if it has a bound. *)
LEMMA MaxIs ==
    ASSUME NEW n \in Nat, NEW S \in SUBSET (0..n), S # {}
    PROVE  Max(S) \in S /\ \A y \in S : y <= Max(S)
<1> DEFINE T == {n - x : x \in S}
<1>1. T \in SUBSET Nat /\ T # {}
    <2>1. \A x \in S : x \in Int /\ 0 <= x /\ x <= n
        OBVIOUS
    <2>2. \A x \in S : n - x \in Nat
        BY <2>1
    <2> QED
        BY <2>2
<1>2. PICK t \in T : \A y \in T : t <= y
    <2> HIDE DEF T
    <2> QED
        BY <1>1, MinIs
<1>3. n - t \in S /\ \A y \in S : y <= n - t
    <2>1. PICK x \in S : t = n - x
        BY <1>2
    <2>2. \A y \in S : n - x <= n - y
        BY <1>2, <2>1
    <2>3. \A y \in S : y \in Int
        OBVIOUS
    <2>4. n - t = x /\ x \in Int
        BY <2>1, <2>3
    <2> QED
        BY <2>2, <2>3, <2>4
<1>4. \E x \in S : \A y \in S : x >= y
    BY <1>3
<1> QED
    BY <1>4 DEF Max

(* The section of a line is that of the last header above it. *)
LEMMA SectionIs ==
    ASSUME NEW f \in Seq(Line), NEW i \in DOMAIN f
    PROVE  \/ /\ \A k \in Headers(f) : ~(k < i)
              /\ SectionAt(f, i) = ""
           \/ \E j \in Headers(f) :
                 /\ j < i /\ \A k \in Headers(f) : k < i => k <= j
                 /\ SectionAt(f, i) = f[j].section
<1> DEFINE above == {j \in Headers(f) : j < i}
<1>1. above \in SUBSET (0..Len(f)) /\ Len(f) \in Nat
    <2>1. DOMAIN f = 1..Len(f) /\ Len(f) \in Nat
        BY LenProperties
    <2>2. Headers(f) \subseteq DOMAIN f
        BY DEF Headers
    <2> QED
        BY <2>1, <2>2
<1>2. CASE above = {}
    BY <1>2 DEF SectionAt
<1>3. CASE above # {}
    <2>1. Max(above) \in above /\ \A y \in above : y <= Max(above)
        <3> HIDE DEF above
        <3> QED
            BY <1>1, <1>3, MaxIs
    <2>2. SectionAt(f, i) = f[Max(above)].section
        BY <1>3 DEF SectionAt
    <2> QED
        BY <2>1, <2>2
<1> QED
    BY <1>2, <1>3

(* The line with a header above it, and none between, is of its section. *)
LEMMA SectionBelow ==
    ASSUME NEW f \in Seq(Line), NEW i \in DOMAIN f, NEW j \in Headers(f), j < i,
           \A k \in Headers(f) : k < i => k <= j
    PROVE  SectionAt(f, i) = f[j].section
<1>1. Headers(f) \subseteq Int
    <2>1. DOMAIN f = 1..Len(f) /\ Len(f) \in Nat
        BY LenProperties
    <2>2. Headers(f) \subseteq DOMAIN f
        BY DEF Headers
    <2> QED
        BY <2>1, <2>2
<1>2. PICK m \in Headers(f) : /\ m < i /\ \A k \in Headers(f) : k < i => k <= m
                              /\ SectionAt(f, i) = f[m].section
    BY SectionIs
<1>3. m = j
    BY <1>1, <1>2
<1> QED
    BY <1>2, <1>3

-----------------------------------------------------------------------------
(* ConfigFile: what Put changes *)

(* A line that is inserted moves those behind it. *)
LEMMA InsertDoes ==
    ASSUME NEW f \in Seq(Line), NEW p \in 1..(Len(f) + 1), NEW e \in Line
    PROVE  /\ InsertAt(f, p, e) \in Seq(Line) /\ Len(InsertAt(f, p, e)) = Len(f) + 1
           /\ \A i \in 1..(Len(f) + 1) :
                 InsertAt(f, p, e)[i] = IF i < p THEN f[i] ELSE IF i = p THEN e ELSE f[i - 1]
<1> DEFINE a == SubSeq(f, 1, p - 1)
           b == SubSeq(f, p, Len(f))
<1>0. Len(f) \in Nat /\ p \in Nat
    BY LenProperties
<1>1. a \in Seq(Line) /\ Len(a) = p - 1 /\ \A i \in 1..(p - 1) : a[i] = f[i]
    <2>1. \A i \in 1..(p - 1) : f[i] \in Line
        BY <1>0, ElementOfSeq
    <2> QED
        BY <1>0, <2>1, SubSeqProperties
<1>2. b \in Seq(Line) /\ Len(b) = Len(f) - p + 1 /\ \A i \in 1..(Len(f) - p + 1) : b[i] = f[p + i - 1]
    <2>1. \A i \in p..Len(f) : f[i] \in Line
        BY <1>0, ElementOfSeq
    <2> QED
        BY <1>0, <2>1, SubSeqProperties
<1> HIDE DEF a, b
<1>3. a \o <<e>> \in Seq(Line) /\ Len(a \o <<e>>) = p /\ \A i \in 1..p : (a \o <<e>>)[i] = IF i < p THEN f[i] ELSE e
    <2> DEFINE d == <<e>>
    <2>1. d \in Seq(Line) /\ Len(d) = 1 /\ d[1] = e
        OBVIOUS
    <2> HIDE DEF d
    <2>2. /\ a \o d \in Seq(Line) /\ Len(a \o d) = Len(a) + Len(d)
          /\ \A i \in 1..(Len(a) + Len(d)) : (a \o d)[i] = IF i <= Len(a) THEN a[i] ELSE d[i - Len(a)]
        BY <1>1, <2>1, ConcatProperties
    <2>3. a \o d \in Seq(Line) /\ Len(a \o d) = p /\ \A i \in 1..p : (a \o d)[i] = IF i < p THEN f[i] ELSE e
        BY <1>0, <1>1, <2>1, <2>2
    <2> QED
        BY <2>3 DEF d
<1>4. PICK c \in Seq(Line) : c = a \o <<e>>
    BY <1>3
<1>5. /\ c \o b \in Seq(Line) /\ Len(c \o b) = Len(f) + 1
      /\ \A i \in 1..(Len(f) + 1) : (c \o b)[i] = IF i <= p THEN c[i] ELSE b[i - p]
    <2>1. Len(c) = p
        BY <1>3, <1>4
    <2>2. /\ c \o b \in Seq(Line) /\ Len(c \o b) = Len(c) + Len(b)
          /\ \A i \in 1..(Len(c) + Len(b)) : (c \o b)[i] = IF i <= Len(c) THEN c[i] ELSE b[i - Len(c)]
        BY <1>2, ConcatProperties
    <2> QED
        BY <1>0, <1>2, <2>1, <2>2
<1>6. InsertAt(f, p, e) = c \o b
    BY <1>4 DEF InsertAt, a, b
<1>7. ASSUME NEW i \in 1..(Len(f) + 1)
      PROVE  (c \o b)[i] = IF i < p THEN f[i] ELSE IF i = p THEN e ELSE f[i - 1]
    <2>1. CASE i <= p
        BY <1>0, <1>3, <1>4, <1>5, <2>1
    <2>2. CASE i > p
        BY <1>0, <1>2, <1>5, <2>2
    <2>3. i <= p \/ i > p
        BY <1>0
    <2> QED
        BY <2>1, <2>2, <2>3
<1> QED
    BY <1>5, <1>6, <1>7

(* A line that gets another value keeps everything else. *)
LEMMA ReplaceDoes ==
    ASSUME NEW f \in Seq(Line), NEW m \in DOMAIN f, NEW v \in Nat,
           NEW g, g = [f EXCEPT ![m].value = v]
    PROVE  /\ g \in Seq(Line) /\ Len(g) = Len(f) /\ DOMAIN g = DOMAIN f
           /\ \A i \in DOMAIN f : /\ g[i].section = f[i].section /\ g[i].key = f[i].key
                                  /\ g[i].indent = f[i].indent
                                  /\ g[i].value = IF i = m THEN v ELSE f[i].value
<1>1. DOMAIN f = 1..Len(f) /\ Len(f) \in Nat /\ f \in [1..Len(f) -> Line]
    BY LenProperties
<1>2. PICK e \in Line : e = [f[m] EXCEPT !.value = v]
    BY <1>1 DEF Line
<1>3. /\ f[m] \in Line
      /\ e.section = f[m].section /\ e.key = f[m].key /\ e.indent = f[m].indent /\ e.value = v
    BY <1>1, <1>2 DEF Line
<1>4. g = [f EXCEPT ![m] = e]
    BY <1>1, <1>2
<1>5. /\ g \in Seq(Line) /\ Len(g) = Len(f)
      /\ \A j \in 1..Len(f) : g[j] = IF j = m THEN e ELSE f[j]
    BY <1>1, <1>4, ExceptSeq
<1>6. DOMAIN g = DOMAIN f
    BY <1>4
<1> QED
    BY <1>1, <1>3, <1>5, <1>6

(* What saving one secret is to do: the file has it, and says the same about
   everything else.                                                         *)
Saves(f, k, v, g) ==
    /\ g \in Seq(Line) /\ Editable(g) /\ Readable(g)
    /\ Get(g, k) = v /\ \A j \in Secret \ {k} : Get(g, j) = Get(f, j)
    /\ Settings(g) = Settings(f)

(* The entries that count as the secret k, where no other section has any. *)
LEMMA GetIs ==
    ASSUME NEW f \in Seq(Line), NEW k \in Secret, Editable(f)
    PROVE  /\ With(f, k) \in SUBSET Nat
           /\ With(f, k) \subseteq DOMAIN f
           /\ Get(f, k) = IF With(f, k) = {} THEN 0 ELSE f[Min(With(f, k))].value
<1> DEFINE at == {i \in Entries(f) : f[i].key = k /\ SectionAt(f, i) = "auth"}
<1>1. at = With(f, k)
    BY DEF With, Editable
<1>2. Get(f, k) = IF at = {} THEN 0 ELSE f[Min(at)].value
    BY DEF Get
<1>3. With(f, k) \subseteq DOMAIN f
    BY DEF With, Entries
<1>4. DOMAIN f \subseteq Nat
    <2>1. DOMAIN f = 1..Len(f) /\ Len(f) \in Nat
        BY LenProperties
    <2> QED
        BY <2>1
<1> HIDE DEF at
<1> QED
    BY <1>1, <1>2, <1>3, <1>4

(* There is a line below the header of the first auth section, ... *)
Room(f) == Auth(f) # {} /\ Min(Auth(f)) < Len(f)

(* ... below which the secrets go. *)
LEMMA AuthIs ==
    ASSUME NEW f \in Seq(Line), Room(f)
    PROVE  /\ Min(Auth(f)) \in Auth(f) /\ \A j \in Auth(f) : Min(Auth(f)) <= j
           /\ Min(Auth(f)) \in Nat /\ Min(Auth(f)) \in DOMAIN f /\ Min(Auth(f)) + 1 \in DOMAIN f
<1>1. DOMAIN f = 1..Len(f) /\ Len(f) \in Nat
    BY LenProperties
<1>2. Auth(f) \subseteq DOMAIN f
    BY DEF Auth, Headers
<1>3. Auth(f) \in SUBSET Nat
    BY <1>1, <1>2
<1>4. Auth(f) # {} /\ Min(Auth(f)) < Len(f)
    BY DEF Room
<1>5. PICK h \in Nat : h = Min(Auth(f)) /\ h \in Auth(f) /\ \A j \in Auth(f) : h <= j
    BY <1>3, <1>4, MinIs
<1>6. h \in 1..Len(f) /\ h + 1 \in 1..Len(f)
    BY <1>1, <1>2, <1>4, <1>5
<1> QED
    BY <1>1, <1>5, <1>6

(* The first line with the name of a secret gets its value; the lines stay
   what and where they are.                                                 *)
LEMMA PutShape ==
    ASSUME NEW f \in Seq(Line), NEW k \in Secret, NEW v \in Nat, With(f, k) # {},
           NEW g, g = Put(f, k, v), NEW m, m = Min(With(f, k))
    PROVE  /\ m \in DOMAIN f /\ f[m].key = k
           /\ g \in Seq(Line) /\ Len(g) = Len(f) /\ DOMAIN g = DOMAIN f
           /\ \A i \in DOMAIN f : /\ g[i].section = f[i].section /\ g[i].key = f[i].key
                                  /\ g[i].indent = f[i].indent
                                  /\ g[i].value = IF i = m THEN v ELSE f[i].value
           /\ Headers(g) = Headers(f) /\ Entries(g) = Entries(f) /\ Auth(g) = Auth(f)
           /\ Entries(f) \subseteq DOMAIN f /\ Headers(f) \subseteq DOMAIN f
           /\ \A j \in Secret : With(g, j) = With(f, j)
           /\ \A i \in DOMAIN f : SectionAt(g, i) = SectionAt(f, i)
<1>1. With(f, k) \subseteq DOMAIN f /\ DOMAIN f \subseteq Nat
    <2>1. DOMAIN f = 1..Len(f) /\ Len(f) \in Nat
        BY LenProperties
    <2>2. With(f, k) \subseteq DOMAIN f
        BY DEF With, Entries
    <2> QED
        BY <2>1, <2>2
<1>2. m \in With(f, k)
    BY <1>1, MinIs
<1>3. m \in DOMAIN f /\ f[m].key = k
    BY <1>2 DEF With, Entries
<1>5. g = [f EXCEPT ![m].value = v]
    BY DEF Put
<1>6. /\ g \in Seq(Line) /\ Len(g) = Len(f) /\ DOMAIN g = DOMAIN f
      /\ \A i \in DOMAIN f : /\ g[i].section = f[i].section /\ g[i].key = f[i].key
                             /\ g[i].indent = f[i].indent
                             /\ g[i].value = IF i = m THEN v ELSE f[i].value
    <2>1. ASSUME NEW n \in DOMAIN f, NEW h, h = [f EXCEPT ![n].value = v]
          PROVE  /\ h \in Seq(Line) /\ Len(h) = Len(f) /\ DOMAIN h = DOMAIN f
                 /\ \A i \in DOMAIN f : /\ h[i].section = f[i].section /\ h[i].key = f[i].key
                                        /\ h[i].indent = f[i].indent
                                        /\ h[i].value = IF i = n THEN v ELSE f[i].value
        BY <2>1, ReplaceDoes
    <2> QED
        BY <1>3, <1>5, <2>1
<1>7. Headers(g) = Headers(f) /\ Entries(g) = Entries(f)
    BY <1>6 DEF Headers, Entries
<1>8. \A i \in DOMAIN f : SectionAt(g, i) = SectionAt(f, i)
    <2> SUFFICES ASSUME NEW i \in DOMAIN f PROVE SectionAt(g, i) = SectionAt(f, i)
        OBVIOUS
    <2>1. CASE \A j \in Headers(f) : ~(j < i)
        BY <1>6, <1>7, <2>1, SectionIs
    <2>2. ASSUME NEW j \in Headers(f), j < i, \A h \in Headers(f) : h < i => h <= j
          PROVE  SectionAt(g, i) = SectionAt(f, i)
        <3>1. SectionAt(f, i) = f[j].section
            BY <2>2, SectionBelow
        <3>2. SectionAt(g, i) = g[j].section
            BY <1>6, <1>7, <2>2, SectionBelow
        <3> QED
            BY <1>6, <3>1, <3>2 DEF Headers
    <2> QED
        BY <2>1, <2>2, SectionIs
<1>9. Entries(f) \subseteq DOMAIN f /\ Headers(f) \subseteq DOMAIN f
    BY DEF Entries, Headers
<1>10. Auth(g) = Auth(f)
    BY <1>6, <1>7, <1>9 DEF Auth
<1>11. \A j \in Secret : With(g, j) = With(f, j)
    BY <1>6, <1>7, <1>9 DEF With
<1> QED
    BY <1>3, <1>6, <1>7, <1>8, <1>9, <1>10, <1>11

(* A secret that the file names is saved. *)
LEMMA PutReplaces ==
    ASSUME NEW f \in Seq(Line), NEW k \in Secret, NEW v \in Nat,
           Editable(f), Readable(f), With(f, k) # {}
    PROVE  Saves(f, k, v, Put(f, k, v))
<1>1. PICK g, m : g = Put(f, k, v) /\ m = Min(With(f, k))
    OBVIOUS
<1>6. /\ m \in DOMAIN f /\ f[m].key = k
      /\ g \in Seq(Line) /\ Len(g) = Len(f) /\ DOMAIN g = DOMAIN f
      /\ \A i \in DOMAIN f : /\ g[i].section = f[i].section /\ g[i].key = f[i].key
                             /\ g[i].indent = f[i].indent
                             /\ g[i].value = IF i = m THEN v ELSE f[i].value
      /\ Headers(g) = Headers(f) /\ Entries(g) = Entries(f) /\ Auth(g) = Auth(f)
      /\ Entries(f) \subseteq DOMAIN f /\ Headers(f) \subseteq DOMAIN f
      /\ \A j \in Secret : With(g, j) = With(f, j)
      /\ \A i \in DOMAIN f : SectionAt(g, i) = SectionAt(f, i)
    BY <1>1, PutShape
<1>10. Readable(g)
    BY <1>6 DEF Readable
<1>12. Editable(g)
    <2>1. Auth(f) # {} /\ Min(Auth(f)) + 1 \in DOMAIN f
        BY AuthIs DEF Editable, Room
    <2>2. g[Min(Auth(f)) + 1].section = ""
        BY <1>6, <2>1 DEF Editable
    <2>3. \A j \in Entries(g) :
             IF SectionAt(g, j) = "auth" THEN g[j].indent = 2 ELSE g[j].key \notin Secret
        BY <1>6 DEF Editable
    <2> QED
        BY <1>6, <2>2, <2>3 DEF Editable
<1>14. Get(g, k) = v
    <2>1. Get(g, k) = g[Min(With(g, k))].value
        BY <1>6, <1>12, GetIs
    <2> QED
        BY <1>1, <1>6, <2>1
<1>15. ASSUME NEW j \in Secret \ {k} PROVE Get(g, j) = Get(f, j)
    <2>1. /\ Get(g, j) = IF With(f, j) = {} THEN 0 ELSE g[Min(With(f, j))].value
          /\ Get(f, j) = IF With(f, j) = {} THEN 0 ELSE f[Min(With(f, j))].value
        BY <1>6, <1>12, GetIs
    <2>2. With(f, j) # {} => Min(With(f, j)) \in With(f, j)
        BY GetIs, MinIs
    <2>3. m \notin With(f, j)
        BY <1>6 DEF With
    <2> QED
        BY <1>6, <2>1, <2>2, <2>3 DEF With
<1>16. Settings(g) = Settings(f)
    <2>1. ASSUME NEW i \in Entries(f)
          PROVE  g[i].key = f[i].key /\ SectionAt(g, i) = SectionAt(f, i)
                 /\ (f[i].key \notin Secret => g[i].value = f[i].value)
        BY <1>6
    <2>2. {j \in Entries(g) : g[j].key \notin Secret} = {j \in Entries(f) : f[j].key \notin Secret}
        BY <1>6, <2>1
    <2> QED
        BY <2>1, <2>2 DEF Settings
<1> QED
    BY <1>1, <1>6, <1>10, <1>12, <1>14, <1>15, <1>16 DEF Saves

(* A file g is f with an entry e of the auth section at p, mv being where the
   lines of f have moved to.                                                *)
Grown(f, g, p, e, mv) ==
    /\ f \in Seq(Line) /\ g \in Seq(Line) /\ p \in DOMAIN g /\ p \in Nat /\ g[p] = e
    /\ e.section = "" /\ e.key # "" /\ e.indent = 2
    /\ mv \in [DOMAIN f -> DOMAIN g]
    /\ \A i \in DOMAIN f : i \in Nat /\ mv[i] \in Nat /\ mv[i] # p /\ g[mv[i]] = f[i]
    /\ \A j \in DOMAIN g : j = p \/ \E i \in DOMAIN f : j = mv[i]
    /\ \A i, j \in DOMAIN f : i <= j <=> mv[i] <= mv[j]

(* Of two positions, one is not behind the other. *)
LEMMA Before == \A a, b \in Nat : a < b <=> ~(b <= a)
OBVIOUS

(* Its headers, its other entries and their sections are those of f. *)
LEMMA GrownLines ==
    ASSUME NEW f, NEW g, NEW p, NEW e, NEW mv, Grown(f, g, p, e, mv)
    PROVE  /\ \A i \in DOMAIN f : /\ mv[i] \in Headers(g) <=> i \in Headers(f)
                                  /\ mv[i] \in Entries(g) <=> i \in Entries(f)
           /\ p \in Entries(g) /\ p \notin Headers(g)
           /\ \A j \in Headers(g) : \E i \in Headers(f) : j = mv[i]
           /\ \A j \in Entries(g) : j = p \/ \E i \in Entries(f) : j = mv[i]
           /\ \A i \in DOMAIN f : SectionAt(g, mv[i]) = SectionAt(f, i)
<1> USE DEF Grown
<1>1. /\ \A i \in DOMAIN f : /\ mv[i] \in Headers(g) <=> i \in Headers(f)
                             /\ mv[i] \in Entries(g) <=> i \in Entries(f)
      /\ p \in Entries(g) /\ p \notin Headers(g)
    BY DEF Headers, Entries
<1>2. Headers(f) \subseteq DOMAIN f /\ Entries(f) \subseteq DOMAIN f
      /\ Headers(g) \subseteq DOMAIN g /\ Entries(g) \subseteq DOMAIN g
    BY DEF Headers, Entries
<1>3. \A j \in Headers(g) : \E i \in Headers(f) : j = mv[i]
    BY <1>1, <1>2
<1>4. \A j \in Entries(g) : j = p \/ \E i \in Entries(f) : j = mv[i]
    BY <1>1, <1>2
<1>5. ASSUME NEW i \in DOMAIN f PROVE SectionAt(g, mv[i]) = SectionAt(f, i)
    <2>0. mv[i] \in DOMAIN g /\ f \in Seq(Line) /\ g \in Seq(Line)
        OBVIOUS
    <2>5. \A j \in DOMAIN f : j < i <=> mv[j] < mv[i]
        <3>1. \A a, b \in Nat : a < b <=> ~(b <= a)
            BY Before
        <3>2. ASSUME NEW j \in DOMAIN f PROVE j < i <=> mv[j] < mv[i]
            <4>1. j \in Nat /\ i \in Nat /\ mv[j] \in Nat /\ mv[i] \in Nat /\ (i <= j <=> mv[i] <= mv[j])
                OBVIOUS
            <4> QED
                BY <3>1, <4>1
        <3> QED
            BY <3>2
    <2>1. CASE \A j \in Headers(f) : ~(j < i)
        <3>1. \A j \in Headers(g) : ~(j < mv[i])
            BY <1>2, <1>3, <2>1, <2>5
        <3>2. SectionAt(f, i) = ""
            BY <2>0, <2>1, SectionIs
        <3>3. SectionAt(g, mv[i]) = ""
            BY <2>0, <3>1, SectionIs
        <3> QED
            BY <3>2, <3>3
    <2>2. ASSUME NEW j \in Headers(f), j < i, \A x \in Headers(f) : x < i => x <= j
          PROVE  SectionAt(g, mv[i]) = SectionAt(f, i)
        <3>1. SectionAt(f, i) = f[j].section
            BY <2>0, <2>2, SectionBelow
        <3>2. mv[j] \in Headers(g) /\ mv[j] < mv[i]
            BY <1>1, <1>2, <2>2, <2>5
        <3>3. ASSUME NEW y \in Headers(g), y < mv[i] PROVE y <= mv[j]
            <4>1. PICK x \in Headers(f) : y = mv[x]
                BY <1>3
            <4>2. x \in DOMAIN f /\ j \in DOMAIN f /\ x < i
                BY <1>2, <2>5, <3>3, <4>1
            <4>3. x <= j
                BY <2>2, <4>2
            <4> QED
                BY <4>1, <4>2, <4>3
        <3>4. SectionAt(g, mv[i]) = g[mv[j]].section
            BY <2>0, <3>2, <3>3, SectionBelow
        <3>5. g[mv[j]] = f[j]
            BY <1>2
        <3> QED
            BY <3>1, <3>4, <3>5
    <2> QED
        BY <2>0, <2>1, <2>2, SectionIs
<1> QED
    BY <1>1, <1>3, <1>4, <1>5

(* Entries are found where they have moved to. *)
LEMMA GrownGet ==
    ASSUME NEW f, NEW g, NEW p, NEW e, NEW mv, Grown(f, g, p, e, mv),
           Editable(f), Editable(g), NEW k \in Secret
    PROVE  /\ k # e.key => Get(g, k) = Get(f, k)
           /\ k = e.key /\ With(f, k) = {} => Get(g, k) = e.value
<1>0. f \in Seq(Line) /\ g \in Seq(Line) /\ g[p] = e /\ p \in Nat
      /\ \A i \in DOMAIN f : g[mv[i]] = f[i] /\ mv[i] \in Nat
    BY DEF Grown
<1>1. /\ Get(f, k) = IF With(f, k) = {} THEN 0 ELSE f[Min(With(f, k))].value
      /\ Get(g, k) = IF With(g, k) = {} THEN 0 ELSE g[Min(With(g, k))].value
      /\ With(f, k) \in SUBSET Nat /\ With(f, k) \subseteq DOMAIN f
      /\ With(g, k) \in SUBSET Nat
    BY <1>0, GetIs
<1>2. \A j \in With(g, k) : (j = p /\ k = e.key) \/ \E i \in With(f, k) : j = mv[i]
    <2> SUFFICES ASSUME NEW j \in With(g, k), j # p PROVE \E i \in With(f, k) : j = mv[i]
        BY <1>0 DEF With
    <2>1. PICK i \in Entries(f) : j = mv[i]
        BY GrownLines DEF With
    <2>2. i \in DOMAIN f
        BY DEF Entries
    <2> QED
        BY <1>0, <2>1, <2>2 DEF With
<1>3. \A i \in With(f, k) : mv[i] \in With(g, k)
    <2> SUFFICES ASSUME NEW i \in With(f, k) PROVE mv[i] \in With(g, k)
        OBVIOUS
    <2>1. i \in Entries(f) /\ f[i].key = k /\ i \in DOMAIN f
        BY DEF With, Entries
    <2>2. mv[i] \in Entries(g)
        BY <2>1, GrownLines
    <2> QED
        BY <1>0, <2>1, <2>2 DEF With
<1>4. ASSUME k # e.key PROVE Get(g, k) = Get(f, k)
    <2>1. CASE With(f, k) = {}
        BY <1>1, <1>2, <1>4, <2>1
    <2>2. CASE With(f, k) # {}
        <3>1. PICK i \in With(f, k) : i = Min(With(f, k)) /\ \A y \in With(f, k) : i <= y
            BY <1>1, <2>2, MinIs
        <3>2. PICK j \in With(g, k) : j = Min(With(g, k)) /\ \A y \in With(g, k) : j <= y
            BY <1>1, <1>3, <2>2, MinIs
        <3>3. PICK x \in With(f, k) : j = mv[x]
            BY <1>2, <1>4
        <3>4. i <= x /\ j <= mv[i]
            BY <1>3, <3>1, <3>2
        <3>5. mv[i] <= mv[x]
            BY <1>1, <3>4 DEF Grown
        <3>6. j = mv[i]
            BY <1>0, <1>1, <3>3, <3>4, <3>5
        <3> QED
            BY <1>0, <1>1, <1>3, <2>2, <3>1, <3>2, <3>6
    <2> QED
        BY <2>1, <2>2
<1>5. ASSUME k = e.key, With(f, k) = {} PROVE Get(g, k) = e.value
    <2>1. p \in With(g, k)
        BY <1>0, <1>5, GrownLines DEF With
    <2>2. Min(With(g, k)) = p
        BY <1>1, <1>2, <1>5, <2>1, MinIs
    <2> QED
        BY <1>0, <1>1, <2>1, <2>2
<1> QED
    BY <1>4, <1>5

(* The entry that is inserted below the first line of the auth section. *)
LEMMA PutGrows ==
    ASSUME NEW f \in Seq(Line), NEW k \in Secret, NEW v \in Nat, Room(f), With(f, k) = {}
    PROVE  \E mv : /\ Grown(f, Put(f, k, v), Min(Auth(f)) + 2, Entry(k, v, 2), mv)
                   /\ \A i \in DOMAIN f : i < Min(Auth(f)) + 2 => mv[i] = i
                   /\ Entry(k, v, 2).key = k /\ Entry(k, v, 2).value = v
<1>1. PICK h \in Nat : h = Min(Auth(f)) /\ h \in DOMAIN f /\ h + 1 \in DOMAIN f
    BY AuthIs
<1>2. PICK n \in Nat : n = Len(f) /\ DOMAIN f = 1..n
    BY LenProperties
<1>3. PICK p \in 1..(n + 1) : p = h + 2
    BY <1>1, <1>2
<1>4. PICK e \in Line : /\ e = Entry(k, v, 2) /\ e.section = "" /\ e.key = k /\ e.key # ""
                        /\ e.indent = 2 /\ e.value = v
    <2>1. k \in Word /\ k # ""
        BY SecretsAreWords DEF Secret
    <2>2. PICK e : e = [section |-> "", key |-> k, value |-> v, indent |-> 2]
        OBVIOUS
    <2>3. /\ e \in [section : Word \cup {""}, key : Word \cup {""}, value : Nat, indent : Nat]
          /\ e.section = "" /\ e.key = k /\ e.indent = 2 /\ e.value = v
        BY <2>1, <2>2
    <2>4. e = Entry(k, v, 2)
        BY <2>2 DEF Entry
    <2> QED
        BY <2>1, <2>3, <2>4 DEF Line
<1>5. PICK g : g = InsertAt(f, p, e)
    OBVIOUS
<1>6. Put(f, k, v) = g
    BY <1>1, <1>3, <1>4, <1>5 DEF Put, Room
<1>7. /\ g \in Seq(Line) /\ Len(g) = n + 1
      /\ \A i \in 1..(n + 1) : g[i] = IF i < p THEN f[i] ELSE IF i = p THEN e ELSE f[i - 1]
    <2>1. p \in 1..(Len(f) + 1)
        BY <1>2
    <2>2. /\ InsertAt(f, p, e) \in Seq(Line) /\ Len(InsertAt(f, p, e)) = Len(f) + 1
          /\ \A i \in 1..(Len(f) + 1) :
                InsertAt(f, p, e)[i] = IF i < p THEN f[i] ELSE IF i = p THEN e ELSE f[i - 1]
        BY <2>1, InsertDoes
    <2> QED
        BY <1>2, <1>5, <2>2
<1>8. DOMAIN g = 1..(n + 1)
    BY <1>7, LenProperties
<1>9. PICK mv : mv = [i \in 1..n |-> IF i < p THEN i ELSE i + 1]
    OBVIOUS
<1>10. \A i \in 1..n : i \in Nat /\ mv[i] = IF i < p THEN i ELSE i + 1
    BY <1>9
<1>11. mv \in [1..n -> 1..(n + 1)]
    BY <1>3, <1>9
<1>12. \A i \in 1..n : mv[i] \in Nat /\ mv[i] # p /\ g[mv[i]] = f[i]
    <2> SUFFICES ASSUME NEW i \in 1..n PROVE mv[i] \in Nat /\ mv[i] # p /\ g[mv[i]] = f[i]
        OBVIOUS
    <2>1. CASE i < p
        BY <1>3, <1>7, <1>10, <2>1
    <2>2. CASE ~(i < p)
        <3>1. mv[i] = i + 1 /\ i + 1 \in 1..(n + 1) /\ ~(i + 1 < p) /\ i + 1 # p /\ (i + 1) - 1 = i
            BY <1>3, <1>10, <2>2
        <3> QED
            BY <1>7, <3>1
    <2> QED
        BY <2>1, <2>2
<1>13. ASSUME NEW j \in 1..(n + 1) PROVE j = p \/ \E i \in 1..n : j = mv[i]
    <2>1. CASE j < p
        BY <1>3, <1>10, <2>1
    <2>2. CASE j > p
        <3>1. j - 1 \in 1..n /\ ~(j - 1 < p) /\ (j - 1) + 1 = j
            BY <1>3, <2>2
        <3> QED
            BY <1>10, <3>1
    <2> QED
        BY <1>3, <2>1, <2>2
<1>14. \A i, j \in 1..n : i <= j <=> mv[i] <= mv[j]
    BY <1>3, <1>10
<1>15. Grown(f, g, p, e, mv)
    <2>1. g[p] = e /\ p \in Nat /\ p \in 1..(n + 1)
        BY <1>3, <1>7
    <2>2. DOMAIN f = 1..n /\ DOMAIN g = 1..(n + 1)
        BY <1>2, <1>8
    <2>3. mv \in [DOMAIN f -> DOMAIN g] /\ p \in DOMAIN g
        BY <1>11, <2>1, <2>2
    <2>4. \A i \in DOMAIN f : i \in Nat /\ mv[i] \in Nat /\ mv[i] # p /\ g[mv[i]] = f[i]
        BY <1>10, <1>12, <2>2
    <2>5. \A j \in DOMAIN g : j = p \/ \E i \in DOMAIN f : j = mv[i]
        BY <1>13, <2>2
    <2>6. \A i, j \in DOMAIN f : i <= j <=> mv[i] <= mv[j]
        BY <1>14, <2>2
    <2> QED
        BY <1>4, <1>7, <2>1, <2>3, <2>4, <2>5, <2>6 DEF Grown
<1>16. \A i \in DOMAIN f : i < p => mv[i] = i
    BY <1>2, <1>10
<1> QED
    BY <1>1, <1>3, <1>4, <1>6, <1>15, <1>16

(* The auth section stays where it is. *)
LEMMA GrownAuth ==
    ASSUME NEW f, NEW g, NEW p, NEW e, NEW mv, Grown(f, g, p, e, mv), Room(f),
           p = Min(Auth(f)) + 2, \A i \in DOMAIN f : i < p => mv[i] = i
    PROVE  Room(g) /\ Min(Auth(g)) = Min(Auth(f))
<1>1. PICK h \in Nat : /\ h = Min(Auth(f)) /\ h \in Auth(f) /\ \A j \in Auth(f) : h <= j
                       /\ h \in DOMAIN f /\ h + 1 \in DOMAIN f
    BY AuthIs DEF Grown
<1>2. /\ p = h + 2 /\ p \in DOMAIN g /\ g \in Seq(Line)
      /\ \A i \in DOMAIN f : mv[i] \in Nat /\ g[mv[i]] = f[i] /\ mv[i] \in DOMAIN g
    BY <1>1 DEF Grown
<1>3. mv[h] = h
    <2>1. h < p
        <3>1. p = h + 2 /\ h \in Nat
            BY <1>2
        <3> QED
            BY <3>1
    <2> QED
        BY <1>1, <2>1
<1>4. /\ \A i \in DOMAIN f : mv[i] \in Headers(g) <=> i \in Headers(f)
      /\ p \notin Headers(g)
      /\ \A j \in Headers(g) : \E i \in Headers(f) : j = mv[i]
    BY GrownLines
<1>5. Headers(f) \subseteq DOMAIN f
    BY DEF Headers
<1>6. DOMAIN g = 1..Len(g) /\ Len(g) \in Nat
    BY <1>2, LenProperties
<1>7. \A i \in Auth(f) : mv[i] \in Auth(g)
    BY <1>2, <1>4, <1>5 DEF Auth
<1>8. ASSUME NEW j \in Auth(g) PROVE \E i \in Auth(f) : j = mv[i]
    <2>1. j \in Headers(g) /\ g[j].section = "auth"
        BY DEF Auth
    <2>2. PICK i \in Headers(f) : j = mv[i]
        BY <1>4, <2>1
    <2>3. f[i].section = "auth"
        BY <1>2, <1>5, <2>1, <2>2
    <2> QED
        BY <2>2, <2>3 DEF Auth
<1>9. h \in Auth(g)
    BY <1>1, <1>3, <1>7
<1>10. ASSUME NEW i \in Auth(f) PROVE h <= mv[i]
    <2>1. i \in DOMAIN f /\ h <= i
        BY <1>1, <1>5 DEF Auth
    <2>2. mv[h] <= mv[i]
        BY <1>1, <2>1 DEF Grown
    <2> QED
        BY <1>3, <2>2
<1>11. \A j \in Auth(g) : h <= j
    BY <1>8, <1>10
<1>12. Auth(g) \in SUBSET Nat
    <2>1. Auth(g) \subseteq DOMAIN g
        BY DEF Auth, Headers
    <2> QED
        BY <1>6, <2>1
<1>13. Min(Auth(g)) \in Auth(g) /\ \A j \in Auth(g) : Min(Auth(g)) <= j
    BY <1>9, <1>12, MinIs
<1>14. Min(Auth(g)) = h
    BY <1>9, <1>11, <1>12, <1>13
<1>15. h < Len(g)
    <2>1. h + 2 \in 1..Len(g)
        BY <1>2, <1>6
    <2> QED
        BY <1>6, <2>1
<1> QED
    BY <1>1, <1>9, <1>14, <1>15 DEF Room

(* A secret that the file does not name is inserted where it is found again. *)
LEMMA PutInserts ==
    ASSUME NEW f \in Seq(Line), NEW k \in Secret, NEW v \in Nat,
           Editable(f), Readable(f), With(f, k) = {}
    PROVE  Saves(f, k, v, Put(f, k, v))
<1>0. Room(f)
    BY DEF Editable, Room
<1>1. PICK g, p, e, mv : /\ g = Put(f, k, v) /\ p = Min(Auth(f)) + 2 /\ e = Entry(k, v, 2)
                         /\ Grown(f, g, p, e, mv) /\ \A i \in DOMAIN f : i < p => mv[i] = i
                         /\ e.key = k /\ e.value = v
    BY <1>0, PutGrows
<1>2. PICK h \in Nat : /\ h = Min(Auth(f)) /\ h \in Auth(f) /\ \A j \in Auth(f) : h <= j
                       /\ h \in DOMAIN f /\ h + 1 \in DOMAIN f
    BY <1>0, AuthIs
<1>3. /\ p = h + 2 /\ p \in DOMAIN g /\ g \in Seq(Line) /\ g[p] = e
      /\ e.section = "" /\ e.key # "" /\ e.indent = 2
      /\ \A i \in DOMAIN f : mv[i] \in Nat /\ mv[i] # p /\ g[mv[i]] = f[i] /\ mv[i] \in DOMAIN g
    BY <1>1, <1>2 DEF Grown
<1>4. /\ h \in Headers(f) /\ f[h].section = "auth" /\ f[h + 1].section = "" /\ mv[h] = h /\ mv[h + 1] = h + 1
      /\ h < p /\ h + 1 < p
    <2>1. h \in Headers(f) /\ f[h].section = "auth" /\ f[h + 1].section = ""
        BY <1>2 DEF Auth, Editable
    <2>2. h < p /\ h + 1 < p
        <3>1. p = h + 2 /\ h \in Nat
            BY <1>3
        <3> QED
            BY <3>1
    <2> QED
        BY <1>1, <1>2, <2>1, <2>2
<1>5. /\ \A i \in DOMAIN f : /\ mv[i] \in Headers(g) <=> i \in Headers(f)
                             /\ mv[i] \in Entries(g) <=> i \in Entries(f)
                             /\ SectionAt(g, mv[i]) = SectionAt(f, i)
      /\ p \in Entries(g) /\ p \notin Headers(g)
      /\ \A j \in Headers(g) : \E i \in Headers(f) : j = mv[i]
      /\ \A j \in Entries(g) : j = p \/ \E i \in Entries(f) : j = mv[i]
    BY <1>1, GrownLines
<1>6. /\ Headers(f) \subseteq DOMAIN f /\ Entries(f) \subseteq DOMAIN f /\ Headers(g) \subseteq Nat
    <2>1. DOMAIN g \subseteq Nat
        <3>1. DOMAIN g = 1..Len(g) /\ Len(g) \in Nat
            BY <1>3, LenProperties
        <3> QED
            BY <3>1
    <2> QED
        BY <2>1 DEF Headers, Entries
<1>7. h \in Headers(g) /\ g[h].section = "auth" /\ h \in DOMAIN g
    BY <1>2, <1>3, <1>4, <1>5
<1>8. SectionAt(g, p) = "auth"
    <2>1. h + 1 \notin Headers(g)
        BY <1>2, <1>4, <1>5 DEF Headers
    <2>2. ASSUME NEW j \in Headers(g), j < p PROVE j <= h
        <3>1. j \in Nat /\ j # h + 1
            BY <1>6, <2>1
        <3>2. p = h + 2 /\ h \in Nat /\ j < p
            BY <1>3, <2>2
        <3> QED
            BY <3>1, <3>2
    <2> QED
        BY <1>3, <1>4, <1>7, <2>2, SectionBelow
<1>11. Room(g) /\ Min(Auth(g)) = h
    BY <1>0, <1>1, <1>2, GrownAuth
<1>12. Editable(g)
    <2>1. Auth(g) # {} /\ Min(Auth(g)) < Len(g)
        BY <1>11 DEF Room
    <2>2. g[Min(Auth(g)) + 1].section = ""
        BY <1>2, <1>3, <1>4, <1>11
    <2>3. ASSUME NEW j \in Entries(g)
          PROVE  IF SectionAt(g, j) = "auth" THEN g[j].indent = 2 ELSE g[j].key \notin Secret
        <3>1. CASE j = p
            BY <1>3, <1>8, <3>1
        <3>2. ASSUME NEW i \in Entries(f), j = mv[i]
              PROVE  IF SectionAt(g, j) = "auth" THEN g[j].indent = 2 ELSE g[j].key \notin Secret
            BY <1>3, <1>5, <1>6, <3>2 DEF Editable
        <3> QED
            BY <1>5, <3>1, <3>2
    <2> QED
        BY <2>1, <2>2, <2>3 DEF Editable
<1>13. Readable(g)
    <2> SUFFICES ASSUME NEW i \in Entries(g), NEW j \in Entries(g), SectionAt(g, i) = SectionAt(g, j)
                 PROVE  g[i].indent = g[j].indent
        BY DEF Readable
    <2>1. CASE SectionAt(g, i) = "auth"
        BY <1>12, <2>1 DEF Editable
    <2>2. CASE SectionAt(g, i) # "auth"
        <3>1. PICK x \in Entries(f), y \in Entries(f) : i = mv[x] /\ j = mv[y]
            BY <1>5, <1>8, <2>2
        <3>2. /\ x \in DOMAIN f /\ y \in DOMAIN f /\ g[i] = f[x] /\ g[j] = f[y]
              /\ SectionAt(f, x) = SectionAt(f, y)
            BY <1>3, <1>5, <1>6, <3>1
        <3> QED
            BY <3>1, <3>2 DEF Readable
    <2> QED
        BY <2>1, <2>2
<1>14. Get(g, k) = v /\ \A j \in Secret \ {k} : Get(g, j) = Get(f, j)
    BY <1>1, <1>12, GrownGet
<1>15. Settings(g) = Settings(f)
    <2>1. ASSUME NEW i \in Entries(f)
          PROVE  /\ mv[i] \in Entries(g) /\ SectionAt(g, mv[i]) = SectionAt(f, i) /\ g[mv[i]] = f[i]
        BY <1>3, <1>5, <1>6
    <2>2. ASSUME NEW j \in Entries(g), g[j].key \notin Secret
          PROVE  \E i \in Entries(f) : /\ SectionAt(g, j) = SectionAt(f, i) /\ g[j] = f[i]
        <3>1. j # p
            BY <1>1, <1>3, <2>2
        <3> QED
            BY <1>5, <2>1, <3>1
    <2> QED
        BY <2>1, <2>2 DEF Settings
<1> QED
    BY <1>1, <1>3, <1>12, <1>13, <1>14, <1>15 DEF Saves

(* Either way the secret is saved. *)
LEMMA PutSaves ==
    ASSUME NEW f \in Seq(Line), NEW k \in Secret, NEW v \in Nat, Editable(f), Readable(f)
    PROVE  Saves(f, k, v, Put(f, k, v))
BY PutReplaces, PutInserts

(* A file that does not make persistAuthSecrets panic, ... *)
Safe(f) == \A k \in Secret : With(f, k) # {} \/ Auth(f) = {} \/ Room(f)

(* Either the secret is there, or no auth section, or room to insert it. *)
LEMMA SafeIs ==
    ASSUME NEW f \in Seq(Line), ~Panics(f)
    PROVE  Safe(f)
<1>1. DOMAIN f = 1..Len(f) /\ Len(f) \in Nat
    BY LenProperties
<1>2. Auth(f) \subseteq DOMAIN f
    BY DEF Auth, Headers
<1>3. Auth(f) # {} => Min(Auth(f)) \in 1..Len(f)
    BY <1>1, <1>2, MinIs
<1>4. Auth(f) # {} /\ Min(Auth(f)) # Len(f) => Room(f)
    BY <1>1, <1>3 DEF Room
<1> QED
    BY <1>4 DEF Panics, Safe

(* ... stays one. *)
LEMMA PutSafe ==
    ASSUME NEW f \in Seq(Line), NEW k \in Secret, NEW v \in Nat, Safe(f)
    PROVE  Put(f, k, v) \in Seq(Line) /\ Safe(Put(f, k, v))
<1>1. PICK g : g = Put(f, k, v)
    OBVIOUS
<1>2. CASE With(f, k) # {}
    <2>1. PICK m : m = Min(With(f, k))
        OBVIOUS
    <2>2. /\ g \in Seq(Line) /\ Len(g) = Len(f) /\ Auth(g) = Auth(f)
          /\ \A j \in Secret : With(g, j) = With(f, j)
        BY <1>1, <1>2, <2>1, PutShape
    <2> QED
        BY <1>1, <2>2 DEF Safe, Room
<1>3. CASE With(f, k) = {} /\ Auth(f) = {}
    BY <1>3 DEF Put
<1>4. CASE With(f, k) = {} /\ Room(f)
    <2>1. PICK p, e, mv : /\ p = Min(Auth(f)) + 2 /\ Grown(f, g, p, e, mv)
                          /\ \A i \in DOMAIN f : i < p => mv[i] = i
        BY <1>1, <1>4, PutGrows
    <2>2. Room(g)
        BY <1>4, <2>1, GrownAuth
    <2>3. g \in Seq(Line)
        BY <2>1 DEF Grown
    <2> QED
        BY <1>1, <2>2, <2>3 DEF Safe
<1> QED
    BY <1>2, <1>3, <1>4 DEF Safe

(* Saving the secrets in a file that can be edited: the next process reads
   them and everything else as it was.                                      *)
LEMMA PersistSaves ==
    ASSUME NEW f \in Seq(Line), NEW c \in [Secret -> Nat], Editable(f), Readable(f)
    PROVE  /\ Readable(Persist(f, c)) /\ Settings(Persist(f, c)) = Settings(f)
           /\ \A k \in Secret : Get(Persist(f, c), k) = c[k]
<1>1. /\ "password_hash" \in Secret /\ "jwt_secret" \in Secret /\ "api_token" \in Secret
      /\ "password_hash" # "jwt_secret" /\ "password_hash" # "api_token" /\ "jwt_secret" # "api_token"
      /\ \A k \in Secret : (k = "password_hash" \/ k = "jwt_secret" \/ k = "api_token")
      /\ c["password_hash"] \in Nat /\ c["jwt_secret"] \in Nat /\ c["api_token"] \in Nat
    BY DEF Secret
<1>2. PICK a : a = Put(f, "password_hash", c["password_hash"])
    OBVIOUS
<1>3. PICK b : b = Put(a, "jwt_secret", c["jwt_secret"])
    OBVIOUS
<1>4. PICK g : g = Put(b, "api_token", c["api_token"])
    OBVIOUS
<1>5. g = Persist(f, c)
    BY <1>2, <1>3, <1>4 DEF Persist
<1>6. Saves(f, "password_hash", c["password_hash"], a)
    BY <1>1, <1>2, PutSaves
<1>7. Saves(a, "jwt_secret", c["jwt_secret"], b)
    <2>1. a \in Seq(Line) /\ Editable(a) /\ Readable(a)
        BY <1>6 DEF Saves
    <2> QED
        BY <1>1, <1>3, <2>1, PutSaves
<1>8. Saves(b, "api_token", c["api_token"], g)
    <2>1. b \in Seq(Line) /\ Editable(b) /\ Readable(b)
        BY <1>7 DEF Saves
    <2> QED
        BY <1>1, <1>4, <2>1, PutSaves
<1>9. Readable(g) /\ Settings(g) = Settings(f)
    BY <1>6, <1>7, <1>8 DEF Saves
<1>10. Get(g, "password_hash") = c["password_hash"]
    BY <1>1, <1>6, <1>7, <1>8 DEF Saves
<1>11. Get(g, "jwt_secret") = c["jwt_secret"]
    BY <1>1, <1>7, <1>8 DEF Saves
<1>12. Get(g, "api_token") = c["api_token"]
    BY <1>8 DEF Saves
<1> QED
    BY <1>1, <1>5, <1>9, <1>10, <1>11, <1>12

(* Without a panic it leaves a file. *)
LEMMA PersistIsFile ==
    ASSUME NEW f \in Seq(Line), NEW c \in [Secret -> Nat], Safe(f)
    PROVE  Persist(f, c) \in Seq(Line)
<1>1. /\ "password_hash" \in Secret /\ "jwt_secret" \in Secret /\ "api_token" \in Secret
      /\ c["password_hash"] \in Nat /\ c["jwt_secret"] \in Nat /\ c["api_token"] \in Nat
    BY DEF Secret
<1>2. PICK a : a = Put(f, "password_hash", c["password_hash"]) /\ a \in Seq(Line) /\ Safe(a)
    BY <1>1, PutSafe
<1>3. PICK b : b = Put(a, "jwt_secret", c["jwt_secret"]) /\ b \in Seq(Line) /\ Safe(b)
    BY <1>1, <1>2, PutSafe
<1>4. Put(b, "api_token", c["api_token"]) \in Seq(Line)
    BY <1>1, <1>3, PutSafe
<1> QED
    BY <1>2, <1>3, <1>4 DEF Persist

(* The value of an entry is a number. *)
LEMMA GetType ==
    ASSUME NEW f \in Seq(Line), NEW k
    PROVE  Get(f, k) \in Nat
<1> DEFINE at == {i \in Entries(f) : f[i].key = k /\ SectionAt(f, i) = "auth"}
<1>1. DOMAIN f = 1..Len(f) /\ Len(f) \in Nat
    BY LenProperties
<1>2. at \subseteq DOMAIN f
    BY DEF Entries
<1>3. Get(f, k) = IF at = {} THEN 0 ELSE f[Min(at)].value
    BY DEF Get
<1>4. \A i \in DOMAIN f : f[i].value \in Nat
    <2>1. \A i \in 1..Len(f) : f[i] \in Line
        BY ElementOfSeq
    <2> QED
        BY <1>1, <2>1 DEF Line
<1> HIDE DEF at
<1>5. at # {} => Min(at) \in at
    BY <1>1, <1>2, MinIs
<1> QED
    BY <1>2, <1>3, <1>4, <1>5

-----------------------------------------------------------------------------
(* LoginGuard: the kinds of its values *)

LoginRecord ==
    [at : {"idle", "passed", "solved", "verified"}, client : Client \cup {Nobody},
     payload : Payload \cup {Empty}, held : 0..Slack]

(* A login that is not answered was let in at an address. *)
Logins ==
    \A r \in Request :
        /\ req[r].at = "idle" => req[r] = NoLogin
        /\ req[r].at # "idle" => req[r].client \in Client /\ req[r].payload \in Payload
        /\ req[r].at = "solved" => Decode[req[r].payload] \in Solution
        /\ req[r].at = "passed" => req[r].held = 0

(* Logins that an address has in progress. *)
Pending(c) == {r \in Request : req[r].at # "idle" /\ req[r].client = c}

(* All of them may still fail. *)
Bounded ==
    \A c \in Client :
        failures[c] + Cardinality(Pending(c)) <= Threshold + Cardinality(Request) - 1

GuardTypes ==
    /\ failures \in [Client -> Nat] /\ since \in [Client -> 0..(EntryTTL + 1)]
    /\ told \in [Client -> Int] /\ \A c \in Client : told[c] >= Never
    /\ challenge \in [Solution -> Never..(ChallengeTTL + 1)]
    /\ used \in [Payload -> Never..(ChallengeTTL + Slack + 1)]
    /\ accepted \in [Payload -> Nat]
    /\ req \in [Request -> LoginRecord]
    /\ Logins

GuardInv == GuardTypes /\ Bounded

(* What a step does to the login guard. *)
Serves ==
    /\ phase \in {"serve", "stopping"} /\ phase' = phase
    /\ \/ \E c \in Client :
             \/ Refuse(c)
             \/ \E s \in Solution : Challenge(c, s)
             \/ \E r \in Request, t \in Payload : Login(r, c, t)
       \/ \E r \in Request : Solve(r) \/ Use(r) \/ Password(r)

Restarts ==
    /\ phase = "down" /\ phase' \notin {"serve", "stopping"}
    /\ UNCHANGED <<limiter, used, accepted, req>>
    /\ \E kept \in BOOLEAN : challenge' = [s \in Solution |-> IF kept THEN challenge[s] ELSE Never]

Rests ==
    /\ UNCHANGED gvars
    /\ phase' \notin {"serve", "stopping"} => phase \notin {"serve", "stopping"}

GuardNext ==
    \/ Serves
    \/ phase = "serve" /\ phase' = phase /\ (CleanEntries \/ CleanUsed)
    \/ Tick /\ phase' = phase
    \/ Restarts
    \/ NothingKnown /\ phase' = "down" /\ UNCHANGED challenge
    \/ Rests

(* Every step of the process is one of these. *)
LEMMA GuardSteps ==
    ASSUME [Next]_vars
    PROVE  GuardNext
<1>1. CASE Start
    <2>1. PICK kept \in BOOLEAN : kept = (cfg'["jwt_secret"] = cfg["jwt_secret"])
        OBVIOUS
    <2>2. challenge' = [s \in Solution |-> IF kept THEN challenge[s] ELSE Never]
        BY <1>1, <2>1, Zenon DEF Start
    <2>3. phase = "down" /\ phase' \notin {"serve", "stopping"} /\ UNCHANGED <<limiter, used, accepted, req>>
        BY <1>1 DEF Start
    <2> QED
        BY <2>2, <2>3 DEF GuardNext, Restarts
<1>2. CASE Truncate \/ Write
    BY <1>2 DEF Truncate, Write, GuardNext, Rests
<1>3. CASE Apply \/ MigrateFails \/ Migrated
    BY <1>3 DEF Apply, MigrateFails, Migrated, GuardNext, Rests
<1>4. CASE Handle
    BY <1>4 DEF Handle, svars, GuardNext, Serves
<1>5. CASE CleanUp
    BY <1>5 DEF CleanUp, svars, GuardNext
<1>6. CASE TimePasses
    BY <1>6 DEF TimePasses, svars, GuardNext
<1>7. CASE Stop \/ Install
    BY <1>7 DEF Stop, Install, GuardNext, Rests
<1>8. CASE Exit
    BY <1>8 DEF Exit, GuardNext
<1>9. CASE UNCHANGED vars
    BY <1>9 DEF vars, svars, gvars, GuardNext, Rests
<1> QED
    BY <1>1, <1>2, <1>3, <1>4, <1>5, <1>6, <1>7, <1>8, <1>9 DEF Next

(* Times and bounds are numbers. *)
LEMMA Numbers ==
    /\ Threshold \in Nat /\ Threshold >= 1 /\ Block \in Nat /\ EntryTTL \in Nat /\ EntryTTL >= Block
    /\ ChallengeTTL \in Nat /\ Slack \in Nat /\ Bad \notin Solution /\ Nobody \notin Client
    /\ Empty \notin Payload /\ Decode \in [Payload -> Solution \cup {Bad}]
    /\ Never = -1
BY Times DEF Never

(* Sets of logins can be counted. *)
LEMMA LoginsCounted ==
    ASSUME NEW S \in SUBSET Request
    PROVE  IsFiniteSet(S) /\ Cardinality(S) \in Nat /\ Cardinality(S) <= Cardinality(Request)
           /\ Cardinality(Request) \in Nat
<1>1. IsFiniteSet(Request)
    BY Times
<1>2. IsFiniteSet(S) /\ Cardinality(S) <= Cardinality(Request)
    BY <1>1, FS_Subset
<1> QED
    BY <1>1, <1>2, FS_CardinalityType

(* NoLogin is a login that is answered. *)
LEMMA NoLoginIs ==
    /\ NoLogin \in LoginRecord
    /\ NoLogin.at = "idle" /\ NoLogin.client = Nobody /\ NoLogin.payload = Empty /\ NoLogin.held = 0
BY Numbers DEF NoLogin, LoginRecord

(* A login that is answered is one less in progress, a failure at most one more. *)
LEMMA Answered ==
    ASSUME GuardInv, NEW r \in Request, req[r].at # "idle", Answer(r),
           NEW n \in [Client -> Nat],
           \A c \in Client : n[c] <= IF c = req[r].client THEN failures[c] + 1 ELSE failures[c]
    PROVE  /\ req' \in [Request -> LoginRecord]
           /\ Logins'
           /\ \A c \in Client :
                 n[c] + Cardinality(Pending(c)') <= Threshold + Cardinality(Request) - 1
<1>0. /\ req \in [Request -> LoginRecord]
      /\ Logins
    BY DEF GuardInv, GuardTypes
<1>1. req' = [req EXCEPT ![r] = NoLogin]
    BY DEF Answer
<1>2. \A q \in Request : req'[q] = IF q = r THEN NoLogin ELSE req[q]
    BY <1>0, <1>1
<1>3. req' \in [Request -> LoginRecord]
    BY <1>0, <1>1, NoLoginIs
<1>4. Logins'
    BY <1>0, <1>2, NoLoginIs DEF Logins
<1>5. ASSUME NEW c \in Client
      PROVE  n[c] + Cardinality(Pending(c)') <= Threshold + Cardinality(Request) - 1
    <2>1. Pending(c)' = Pending(c) \ {r}
        BY <1>2, NoLoginIs DEF Pending
    <2>2. /\ IsFiniteSet(Pending(c)) /\ Cardinality(Pending(c)) \in Nat /\ Cardinality(Request) \in Nat
          /\ Cardinality(Pending(c)') \in Nat /\ Cardinality(Pending(c)') <= Cardinality(Pending(c))
        <3>1. Pending(c) \subseteq Request
            BY DEF Pending
        <3>2. Pending(c)' \subseteq Request /\ Pending(c)' \subseteq Pending(c)
            BY <2>1, <3>1
        <3>3. IsFiniteSet(Pending(c)) /\ Cardinality(Pending(c)) \in Nat /\ Cardinality(Request) \in Nat
            BY <3>1, LoginsCounted
        <3>4. Cardinality(Pending(c)') \in Nat
            BY <3>2, LoginsCounted
        <3> QED
            BY <3>2, <3>3, <3>4, FS_Subset
    <2>3. failures[c] + Cardinality(Pending(c)) <= Threshold + Cardinality(Request) - 1
        BY DEF GuardInv, Bounded
    <2>4. failures[c] \in Nat /\ n[c] \in Nat
        BY DEF GuardInv, GuardTypes
    <2>5. CASE c = req[r].client
        <3>1. r \in Pending(c)
            BY <2>5 DEF Pending
        <3>2. Cardinality(Pending(c)') = Cardinality(Pending(c)) - 1
            BY <2>1, <2>2, <3>1, FS_RemoveElement
        <3>3. n[c] <= failures[c] + 1
            BY <2>5
        <3> QED
            BY <2>2, <2>3, <2>4, <3>2, <3>3, Numbers
    <2>6. CASE c # req[r].client
        <3>1. n[c] <= failures[c]
            BY <2>6
        <3> QED
            BY <2>2, <2>3, <2>4, <3>1, Numbers
    <2> QED
        BY <2>5, <2>6
<1> QED
    BY <1>3, <1>4, <1>5

(* A login that fails keeps the kinds of the values. *)
LEMMA FailTypes ==
    ASSUME GuardInv, NEW r \in Request, req[r].at # "idle", Fail(r)
    PROVE  GuardInv'
<1>0. req[r].client \in Client
    BY DEF GuardInv, GuardTypes, Logins
<1>1. /\ failures' = [failures EXCEPT ![req[r].client] = failures[req[r].client] + 1]
      /\ since' = [since EXCEPT ![req[r].client] = 0]
      /\ told' = [told EXCEPT ![req[r].client] = Never]
      /\ Answer(r) /\ UNCHANGED service
    BY DEF Fail, RecordFailure
<1>2. failures' \in [Client -> Nat] /\ since' \in [Client -> 0..(EntryTTL + 1)]
      /\ told' \in [Client -> Int] /\ \A c \in Client : told'[c] >= Never
    BY <1>0, <1>1, Numbers DEF GuardInv, GuardTypes
<1>3. \A c \in Client : failures'[c] <= IF c = req[r].client THEN failures[c] + 1 ELSE failures[c]
    BY <1>0, <1>1 DEF GuardInv, GuardTypes
<1>4. PICK n : n = failures'
    OBVIOUS
<1>5. /\ req' \in [Request -> LoginRecord]
      /\ Logins'
      /\ \A c \in Client :
                 n[c] + Cardinality(Pending(c)') <= Threshold + Cardinality(Request) - 1
    <2>1. n \in [Client -> Nat]
        BY <1>2, <1>4
    <2>2. \A c \in Client : n[c] <= IF c = req[r].client THEN failures[c] + 1 ELSE failures[c]
        BY <1>3, <1>4
    <2> QED
        BY <1>1, <2>1, <2>2, Answered
<1>6. Bounded'
    BY <1>4, <1>5 DEF Bounded
<1>7. UNCHANGED <<challenge, used, accepted>>
    BY <1>1 DEF service
<1>8. GuardTypes'
    BY <1>2, <1>5, <1>7 DEF GuardInv, GuardTypes
<1> QED
    BY <1>6, <1>8 DEF GuardInv

(* A login that goes on stays the login of its address. *)
LEMMA GoesOn ==
    ASSUME GuardInv, failures' \in [Client -> Nat],
           \A c \in Client : failures'[c] <= failures[c],
           \A r \in Request : /\ req'[r].client = req[r].client
                              /\ req'[r].at = "idle" <=> req[r].at = "idle"
    PROVE  Bounded'
<1> SUFFICES ASSUME NEW c \in Client
             PROVE  failures'[c] + Cardinality(Pending(c)') <= Threshold + Cardinality(Request) - 1
    BY DEF Bounded
<1>1. Pending(c)' = Pending(c)
    BY DEF Pending
<1>2. failures[c] + Cardinality(Pending(c)) <= Threshold + Cardinality(Request) - 1
    BY DEF GuardInv, Bounded
<1>3. failures[c] \in Nat /\ failures'[c] \in Nat /\ failures'[c] <= failures[c]
    BY DEF GuardInv, GuardTypes
<1>4. Cardinality(Pending(c)) \in Nat /\ Cardinality(Request) \in Nat
    BY LoginsCounted DEF Pending
<1> QED
    BY <1>1, <1>2, <1>3, <1>4, Numbers

(* Letting an address in forgets at most its failures. *)
LEMMA LetInDoes ==
    ASSUME GuardInv, NEW c \in Client, LetIn(c)
    PROVE  /\ failures' \in [Client -> Nat] /\ since' \in [Client -> 0..(EntryTTL + 1)]
           /\ told' = told
           /\ \A d \in Client : failures'[d] <= failures[d]
           /\ \A d \in Client : failures'[d] = 0 \/ (failures'[d] = failures[d] /\ since'[d] = since[d])
           /\ failures'[c] <= Threshold - 1
<1>1. /\ failures \in [Client -> Nat] /\ since \in [Client -> 0..(EntryTTL + 1)]
      /\ told' = told
    BY DEF GuardInv, GuardTypes, LetIn
<1>2. CASE failures[c] >= Threshold
    <2>1. failures' = [failures EXCEPT ![c] = 0] /\ since' = [since EXCEPT ![c] = 0]
        BY <1>2 DEF LetIn
    <2> QED
        BY <1>1, <2>1, Numbers
<1>3. CASE ~(failures[c] >= Threshold)
    <2>1. failures' = failures /\ since' = since
        BY <1>3 DEF LetIn
    <2>2. failures[c] \in Nat /\ ~(failures[c] >= Threshold)
        BY <1>1, <1>3
    <2>3. failures'[c] <= Threshold - 1
        BY <2>1, <2>2, Numbers
    <2>4. \A d \in Client : failures[d] \in Nat
        BY <1>1
    <2> QED
        BY <1>1, <2>1, <2>3, <2>4
<1> QED
    BY <1>2, <1>3

(* A login of the address c begins. *)
LEMMA LoginTypes ==
    ASSUME GuardInv, NEW r \in Request, NEW c \in Client, NEW t \in Payload,
           Login(r, c, t)
    PROVE  GuardInv'
<1>1. /\ failures' \in [Client -> Nat] /\ since' \in [Client -> 0..(EntryTTL + 1)]
      /\ told' = told
      /\ \A d \in Client : failures'[d] <= failures[d]
      /\ failures'[c] <= Threshold - 1
    BY LetInDoes DEF Login
<1>2. /\ req[r].at = "idle" /\ UNCHANGED <<challenge, used, accepted>>
    BY DEF Login, service
<1>3. CASE UNCHANGED req
    <2>1. Bounded'
        BY <1>1, <1>3, GoesOn
    <2>2. GuardTypes'
        BY <1>1, <1>2, <1>3 DEF GuardInv, GuardTypes, Logins
    <2> QED
        BY <2>1, <2>2 DEF GuardInv
<1>4. CASE req' = [req EXCEPT ![r] = [NoLogin EXCEPT !.at = "passed", !.client = c, !.payload = t]]
    <2>1. PICK q : q = [NoLogin EXCEPT !.at = "passed", !.client = c, !.payload = t]
        OBVIOUS
    <2>2. q \in LoginRecord /\ q.at = "passed" /\ q.client = c /\ q.held = 0 /\ q.payload = t
        <3>1. q = [at |-> "passed", client |-> c, payload |-> t, held |-> 0]
            BY <2>1 DEF NoLogin
        <3>2. 0 \in 0..Slack
            BY Numbers
        <3> QED
            BY <3>1, <3>2 DEF LoginRecord
    <2>3. req \in [Request -> LoginRecord] /\ Logins
        BY DEF GuardInv, GuardTypes
    <2>4. req' = [req EXCEPT ![r] = q]
        BY <1>4, <2>1
    <2>5. req' \in [Request -> LoginRecord] /\ \A p \in Request : req'[p] = IF p = r THEN q ELSE req[p]
        BY <2>2, <2>3, <2>4
    <2>6. Logins'
        BY <2>2, <2>3, <2>5 DEF Logins
    <2>7. GuardTypes'
        BY <1>1, <1>2, <2>5, <2>6 DEF GuardInv, GuardTypes
    <2>8. ASSUME NEW d \in Client
          PROVE  failures'[d] + Cardinality(Pending(d)') <= Threshold + Cardinality(Request) - 1
        <3>1. /\ Pending(d)' \subseteq Request /\ Pending(d) \subseteq Request
            BY DEF Pending
        <3>2. /\ Cardinality(Pending(d)') \in Nat /\ Cardinality(Pending(d)') <= Cardinality(Request)
              /\ Cardinality(Pending(d)) \in Nat /\ Cardinality(Request) \in Nat
            BY <3>1, LoginsCounted
        <3>3. failures'[d] \in Nat /\ failures[d] \in Nat /\ failures'[d] <= failures[d]
            BY <1>1 DEF GuardInv, GuardTypes
        <3>4. CASE d = c
            BY <1>1, <3>2, <3>3, <3>4, Numbers
        <3>5. CASE d # c
            <4>1. Pending(d)' = Pending(d)
                BY <1>2, <2>2, <2>5, <3>5 DEF Pending
            <4>2. failures[d] + Cardinality(Pending(d)) <= Threshold + Cardinality(Request) - 1
                BY DEF GuardInv, Bounded
            <4> QED
                BY <3>2, <3>3, <4>1, <4>2, Numbers
        <3> QED
            BY <3>4, <3>5
    <2> QED
        BY <2>7, <2>8 DEF GuardInv, Bounded
<1> QED
    BY <1>3, <1>4 DEF Login

(* A login that goes on to another step. *)
LEMMA StepTypes ==
    ASSUME GuardInv, NEW r \in Request, NEW q \in LoginRecord, req' = [req EXCEPT ![r] = q],
           q.client = req[r].client, q.at \in {"solved", "verified"}, req[r].at # "idle",
           q.payload \in Payload, q.at = "solved" => Decode[q.payload] \in Solution,
           UNCHANGED limiter
    PROVE  req' \in [Request -> LoginRecord] /\ Logins' /\ Bounded'
<1>1. /\ req \in [Request -> LoginRecord] /\ Logins /\ failures \in [Client -> Nat]
      /\ UNCHANGED failures
    BY DEF GuardInv, GuardTypes, limiter
<1>2. req' \in [Request -> LoginRecord] /\ \A p \in Request : req'[p] = IF p = r THEN q ELSE req[p]
    BY <1>1
<1>3. Logins'
    BY <1>1, <1>2 DEF Logins
<1>4. \A p \in Request : /\ req'[p].client = req[p].client
                         /\ req'[p].at = "idle" <=> req[p].at = "idle"
    BY <1>2
<1>5. Bounded'
    <2>1. \A c \in Client : failures'[c] <= failures[c]
        BY <1>1
    <2> QED
        BY <1>1, <1>4, <2>1, GoesOn
<1> QED
    BY <1>2, <1>3, <1>5

(* Ages stay where the code can tell them apart. *)
LEMMA OlderIs ==
    ASSUME NEW last \in Nat, NEW age \in Never..(last + 1)
    PROVE  /\ Older(age, last) \in Never..(last + 1)
           /\ age \in 0..(last + 1) => Older(age, last) \in 0..(last + 1)
           /\ Older(age, last) = Never <=> age = Never
           /\ age # Never /\ age <= last => Older(age, last) = age + 1
           /\ age > last => Older(age, last) = age
BY DEF Older, Never

(* Time passes. *)
LEMMA TickTypes ==
    ASSUME GuardInv, Tick
    PROVE  GuardInv'
<1>1. /\ \A c \in Client : failures[c] \in Nat /\ since[c] \in 0..(EntryTTL + 1)
                           /\ told[c] \in Int /\ told[c] >= Never
      /\ \A s \in Solution : challenge[s] \in Never..(ChallengeTTL + 1)
      /\ \A p \in Payload : used[p] \in Never..(ChallengeTTL + Slack + 1)
      /\ req \in [Request -> LoginRecord] /\ Logins
      /\ failures \in [Client -> Nat] /\ accepted \in [Payload -> Nat]
    BY DEF GuardInv, GuardTypes
<1>2. since' \in [Client -> 0..(EntryTTL + 1)]
    <2>1. \A c \in Client : Older(since[c], EntryTTL) \in 0..(EntryTTL + 1)
        BY <1>1, OlderIs, Numbers
    <2> QED
        BY <2>1, Numbers DEF Tick
<1>3. told' \in [Client -> Int] /\ \A c \in Client : told'[c] >= Never
    BY <1>1, Numbers DEF Tick
<1>4. challenge' \in [Solution -> Never..(ChallengeTTL + 1)]
    <2>1. \A s \in Solution : Older(challenge[s], ChallengeTTL) \in Never..(ChallengeTTL + 1)
        BY <1>1, OlderIs, Numbers
    <2> QED
        BY <2>1 DEF Tick
<1>5. used' \in [Payload -> Never..(ChallengeTTL + Slack + 1)]
    <2>1. ChallengeTTL + Slack \in Nat
        BY Numbers
    <2>2. \A p \in Payload : Older(used[p], ChallengeTTL + Slack) \in Never..(ChallengeTTL + Slack + 1)
        BY <1>1, <2>1, OlderIs
    <2> QED
        BY <2>2 DEF Tick
<1>6. ASSUME NEW r \in Request
      PROVE  /\ req'[r] \in LoginRecord /\ req'[r].client = req[r].client
             /\ req'[r].at = req[r].at /\ req'[r].payload = req[r].payload
             /\ req[r].at # "solved" => req'[r] = req[r]
    <2>1. CASE req[r].at = "solved"
        <3>1. req'[r] = [req[r] EXCEPT !.held = req[r].held + 1] /\ req[r].held < Slack
            BY <2>1 DEF Tick
        <3>2. req[r] \in LoginRecord
            BY <1>1
        <3>3. req[r].held + 1 \in 0..Slack
            BY <3>1, <3>2, Numbers DEF LoginRecord
        <3> QED
            BY <2>1, <3>1, <3>2, <3>3 DEF LoginRecord
    <2>2. CASE req[r].at # "solved"
        <3>1. req'[r] = req[r]
            BY <2>2 DEF Tick
        <3> QED
            BY <1>1, <3>1
    <2> QED
        BY <2>1, <2>2
<1>7. req' \in [Request -> LoginRecord]
    <2>1. req' = [r \in Request |-> req'[r]]
        BY DEF Tick
    <2> QED
        BY <1>6, <2>1
<1>8. Logins'
    BY <1>1, <1>6 DEF Logins
<1>9. failures' = failures /\ accepted' = accepted
    BY DEF Tick
<1>10. Bounded'
    BY <1>1, <1>6, <1>9, GoesOn
<1>11. GuardTypes'
    BY <1>1, <1>2, <1>3, <1>4, <1>5, <1>7, <1>8, <1>9 DEF GuardTypes
<1> QED
    BY <1>10, <1>11 DEF GuardInv

(* Without any memory there is no login. *)
LEMMA NothingTypes ==
    ASSUME NothingKnown, challenge' \in [Solution -> Never..(ChallengeTTL + 1)]
    PROVE  GuardInv'
<1>1. \A r \in Request : req'[r] = NoLogin
    BY DEF NothingKnown
<1>2. req' \in [Request -> LoginRecord] /\ Logins'
    BY <1>1, NoLoginIs DEF NothingKnown, Logins
<1>3. GuardTypes'
    BY <1>2, Numbers DEF NothingKnown, GuardTypes
<1>4. ASSUME NEW c \in Client
      PROVE  failures'[c] + Cardinality(Pending(c)') <= Threshold + Cardinality(Request) - 1
    <2>1. Pending(c)' \subseteq Request
        BY DEF Pending
    <2>2. Cardinality(Pending(c)') \in Nat /\ Cardinality(Pending(c)') <= Cardinality(Request)
          /\ Cardinality(Request) \in Nat
        BY <2>1, LoginsCounted
    <2>3. failures'[c] = 0
        BY DEF NothingKnown
    <2> QED
        BY <2>2, <2>3, Numbers
<1> QED
    BY <1>3, <1>4 DEF GuardInv, Bounded

(* How long an address has to wait after n failures. *)
Span(n) == IF n = 0 THEN 0 ELSE IF n >= Threshold THEN Block ELSE Backoff(n)

(* What is left of it. *)
LEMMA RemainingIs ==
    ASSUME NEW c \in Client, failures[c] \in Nat, since[c] \in Nat
    PROVE  /\ Span(failures[c]) \in Int
           /\ Remaining(c) = IF since[c] < Span(failures[c]) THEN Span(failures[c]) - since[c] ELSE 0
           /\ Remaining(c) \in Int /\ Remaining(c) >= 0
<1>1. Span(failures[c]) \in Int
    <2>1. Backoff(failures[c]) \in Int
        BY DEF Backoff
    <2> QED
        BY <2>1, Numbers DEF Span
<1>2. Remaining(c) = IF since[c] < Span(failures[c]) THEN Span(failures[c]) - since[c] ELSE 0
    BY DEF Remaining, Span
<1>3. PICK span \in Int : span = Span(failures[c])
    BY <1>1
<1>4. Remaining(c) = IF since[c] < span THEN span - since[c] ELSE 0
    BY <1>2, <1>3
<1>5. Remaining(c) \in Int /\ Remaining(c) >= 0
    BY <1>3, <1>4
<1> QED
    BY <1>1, <1>2, <1>5

(* Every step keeps the kinds of the values. *)
LEMMA GuardNextTypes ==
    ASSUME GuardInv, GuardNext
    PROVE  GuardInv'
<1>0. /\ failures \in [Client -> Nat] /\ since \in [Client -> 0..(EntryTTL + 1)]
      /\ told \in [Client -> Int] /\ \A c \in Client : told[c] >= Never
      /\ challenge \in [Solution -> Never..(ChallengeTTL + 1)]
      /\ used \in [Payload -> Never..(ChallengeTTL + Slack + 1)]
      /\ accepted \in [Payload -> Nat]
      /\ req \in [Request -> LoginRecord] /\ Logins
    BY DEF GuardInv, GuardTypes
<1>1. ASSUME NEW c \in Client, Refuse(c) PROVE GuardInv'
    <2>1. UNCHANGED <<failures, since, challenge, used, accepted, req>>
        BY <1>1 DEF Refuse, service
    <2>2. Remaining(c) \in Int /\ Remaining(c) >= 0
        <3>1. failures[c] \in Nat /\ since[c] \in Nat
            BY <1>0
        <3> QED
            BY <3>1, RemainingIs
    <2>3. 2 * Seconds(Remaining(c)) \in Int /\ 2 * Seconds(Remaining(c)) >= Never
        BY <2>2, Numbers DEF Seconds
    <2>4. told' \in [Client -> Int] /\ \A d \in Client : told'[d] >= Never
        BY <1>0, <1>1, <2>3 DEF Refuse
    <2>5. \A d \in Client : failures'[d] <= failures[d]
        BY <1>0, <2>1
    <2>6. Bounded'
        BY <1>0, <2>1, <2>5, GoesOn
    <2> QED
        BY <1>0, <2>1, <2>4, <2>6 DEF GuardInv, GuardTypes, Logins
<1>2. ASSUME NEW c \in Client, NEW s \in Solution, Challenge(c, s) PROVE GuardInv'
    <2>1. /\ failures' \in [Client -> Nat] /\ since' \in [Client -> 0..(EntryTTL + 1)]
          /\ told' = told /\ \A d \in Client : failures'[d] <= failures[d]
        BY <1>2, LetInDoes DEF Challenge
    <2>2. /\ challenge' = [challenge EXCEPT ![s] = 0]
          /\ accepted' = [p \in Payload |-> IF p \in Texts(s) THEN 0 ELSE accepted[p]]
          /\ used' = used /\ req' = req
        BY <1>2 DEF Challenge
    <2>3. Bounded'
        BY <2>1, <2>2, GoesOn
    <2> QED
        BY <1>0, <2>1, <2>2, <2>3, Numbers DEF GuardInv, GuardTypes, Logins
<1>3. ASSUME NEW r \in Request, NEW c \in Client, NEW t \in Payload, Login(r, c, t)
      PROVE  GuardInv'
    BY <1>3, LoginTypes
<1>4. ASSUME NEW r \in Request, Solve(r) PROVE GuardInv'
    <2>1. CASE Genuine(Decode[req[r].payload])
        <3>1. PICK q : q = [req[r] EXCEPT !.at = "solved"]
            OBVIOUS
        <3>2. req[r] \in LoginRecord /\ req[r].at = "passed" /\ req[r].payload \in Payload
            BY <1>0, <1>4 DEF Solve, Logins
        <3>3. q \in LoginRecord /\ q.client = req[r].client /\ q.at = "solved" /\ q.payload = req[r].payload
            BY <3>1, <3>2 DEF LoginRecord
        <3>4. req' = [req EXCEPT ![r] = q] /\ UNCHANGED <<limiter, service>>
            BY <1>4, <2>1, <3>1 DEF Solve
        <3>5. q.payload \in Payload /\ Decode[q.payload] \in Solution
            BY <2>1, <3>2, <3>3, Numbers DEF Genuine
        <3>6. req' \in [Request -> LoginRecord] /\ Logins' /\ Bounded'
            BY <3>2, <3>3, <3>4, <3>5, StepTypes
        <3> QED
            BY <1>0, <3>4, <3>6 DEF GuardInv, GuardTypes, limiter, service
    <2>2. CASE ~Genuine(Decode[req[r].payload])
        BY <1>4, <2>2, FailTypes DEF Solve
    <2> QED
        BY <2>1, <2>2
<1>5. ASSUME NEW r \in Request, Use(r) PROVE GuardInv'
    <2>0. req[r] \in LoginRecord /\ req[r].at = "solved" /\ req[r].payload \in Payload
        BY <1>0, <1>5 DEF Use, Logins
    <2>1. CASE used[req[r].payload] # Never
        BY <1>5, <2>0, <2>1, FailTypes DEF Use
    <2>2. CASE used[req[r].payload] = Never
        <3>1. PICK q : q = [req[r] EXCEPT !.at = "verified", !.held = 0]
            OBVIOUS
        <3>2. q \in LoginRecord /\ q.client = req[r].client /\ q.at = "verified" /\ q.payload \in Payload
            <4>1. /\ q = [at |-> "verified", client |-> req[r].client, payload |-> req[r].payload, held |-> 0]
                  /\ req[r].client \in Client \cup {Nobody} /\ req[r].payload \in Payload
                BY <2>0, <3>1 DEF LoginRecord
            <4>2. 0 \in 0..Slack
                BY Numbers
            <4> QED
                BY <4>1, <4>2 DEF LoginRecord
        <3>3. /\ used' = [used EXCEPT ![req[r].payload] = 0]
              /\ accepted' = [accepted EXCEPT ![req[r].payload] = accepted[req[r].payload] + 1]
              /\ UNCHANGED <<limiter, challenge>>
              /\ req' = [req EXCEPT ![r].at = "verified", ![r].held = 0]
            BY <1>5, <2>2 DEF Use
        <3>4. req' = [req EXCEPT ![r] = q]
            BY <1>0, <3>1, <3>3
        <3>5. req' \in [Request -> LoginRecord] /\ Logins' /\ Bounded'
            BY <2>0, <3>2, <3>3, <3>4, StepTypes
        <3>6. used' \in [Payload -> Never..(ChallengeTTL + Slack + 1)] /\ accepted' \in [Payload -> Nat]
            BY <1>0, <2>0, <3>3, Numbers
        <3> QED
            BY <1>0, <3>3, <3>5, <3>6 DEF GuardInv, GuardTypes, limiter
    <2> QED
        BY <2>1, <2>2
<1>6. ASSUME NEW r \in Request, Password(r) PROVE GuardInv'
    <2>0. req[r].at = "verified" /\ req[r].client \in Client
        BY <1>0, <1>6 DEF Password, Logins
    <2>1. CASE Fail(r)
        BY <2>0, <2>1, FailTypes
    <2>2. CASE ~Fail(r)
        <3>1. /\ \/ /\ failures' = [failures EXCEPT ![req[r].client] = 0]
                    /\ since' = [since EXCEPT ![req[r].client] = 0]
                 \/ failures' = failures /\ since' = since
              /\ Answer(r) /\ UNCHANGED <<told, challenge, used, accepted>>
            BY <1>6, <2>2 DEF Password, service, limiter
        <3>2. PICK n : n = failures'
            OBVIOUS
        <3>3. n \in [Client -> Nat] /\ since' \in [Client -> 0..(EntryTTL + 1)]
            <4>1. failures' \in [Client -> Nat]
                BY <1>0, <3>1
            <4>2. 0 \in 0..(EntryTTL + 1)
                BY Numbers
            <4>3. since' \in [Client -> 0..(EntryTTL + 1)]
                BY <1>0, <3>1, <4>2
            <4> QED
                BY <3>2, <4>1, <4>3
        <3>4. \A c \in Client : n[c] <= IF c = req[r].client THEN failures[c] + 1 ELSE failures[c]
            BY <1>0, <3>1, <3>2
        <3>5. req' \in [Request -> LoginRecord] /\ Logins'
              /\ \A c \in Client : n[c] + Cardinality(Pending(c)') <= Threshold + Cardinality(Request) - 1
            BY <2>0, <3>1, <3>3, <3>4, Answered
        <3>6. Bounded'
            BY <3>2, <3>5 DEF Bounded
        <3>7. GuardTypes'
            BY <1>0, <3>1, <3>2, <3>3, <3>5 DEF GuardTypes
        <3> QED
            BY <3>6, <3>7 DEF GuardInv
    <2> QED
        BY <2>1, <2>2
<1>7. CASE CleanEntries
    <2>1. /\ failures' = [c \in Client |-> IF Forget(c) THEN 0 ELSE failures[c]]
          /\ since' = [c \in Client |-> IF Forget(c) THEN 0 ELSE since[c]]
          /\ UNCHANGED <<told, challenge, used, accepted, req>>
        BY <1>7 DEF CleanEntries, service
    <2>2. failures' \in [Client -> Nat] /\ since' \in [Client -> 0..(EntryTTL + 1)]
        BY <1>0, <2>1, Numbers
    <2>3. \A c \in Client : failures'[c] <= failures[c]
        BY <1>0, <2>1
    <2>4. Bounded'
        BY <2>1, <2>2, <2>3, GoesOn
    <2> QED
        BY <1>0, <2>1, <2>2, <2>4 DEF GuardInv, GuardTypes, Logins
<1>8. CASE CleanUsed
    <2>1. /\ used' = [p \in Payload |-> IF used[p] > ChallengeTTL + Slack THEN Never ELSE used[p]]
          /\ UNCHANGED <<failures, since, told, challenge, accepted, req>>
        BY <1>8 DEF CleanUsed, limiter
    <2>2. used' \in [Payload -> Never..(ChallengeTTL + Slack + 1)]
        BY <1>0, <2>1, Numbers
    <2>3. \A c \in Client : failures'[c] <= failures[c]
        BY <1>0, <2>1
    <2>4. Bounded'
        BY <1>0, <2>1, <2>3, GoesOn
    <2> QED
        BY <1>0, <2>1, <2>2, <2>4 DEF GuardInv, GuardTypes, Logins
<1>9. CASE Tick
    BY <1>9, TickTypes
<1>10. CASE Restarts
    <2>1. UNCHANGED <<failures, since, told, used, accepted, req>>
        BY <1>10 DEF Restarts, limiter
    <2>2. challenge' \in [Solution -> Never..(ChallengeTTL + 1)]
        BY <1>0, <1>10, Numbers DEF Restarts
    <2>3. \A c \in Client : failures'[c] <= failures[c]
        BY <1>0, <2>1
    <2>4. Bounded'
        BY <1>0, <2>1, <2>3, GoesOn
    <2> QED
        BY <1>0, <2>1, <2>2, <2>4 DEF GuardInv, GuardTypes, Logins
<1>11. CASE NothingKnown /\ UNCHANGED challenge
    BY <1>0, <1>11, NothingTypes
<1>12. CASE UNCHANGED gvars
    BY <1>12 DEF gvars, limiter, service, GuardInv, GuardTypes, Logins, Bounded, Pending
<1> QED
    BY <1>1, <1>2, <1>3, <1>4, <1>5, <1>6, <1>7, <1>8, <1>9, <1>10, <1>11, <1>12
    DEF GuardNext, Serves, Rests

-----------------------------------------------------------------------------
(* LoginGuard: waiting *)

(* What an address was told to wait is no less than what it has to. *)
WaitInv == \A c \in Client : told[c] # Never => Remaining(c) <= told[c]

(* Failures that are too old to be remembered delay nothing. *)
LEMMA SpanRemembered ==
    ASSUME NEW n \in Nat
    PROVE  Span(n) \in Int /\ Span(n) <= EntryTTL
<1>1. CASE n = 0 \/ n >= Threshold
    BY <1>1, Numbers DEF Span
<1>2. CASE n # 0 /\ ~(n >= Threshold)
    <2>1. n \in 1..(Threshold - 1)
        BY <1>2, Numbers
    <2>2. Backoff(n) \in Int /\ Backoff(n) <= EntryTTL
        BY <2>1, BackoffRemembered DEF Backoff
    <2>3. Span(n) = Backoff(n)
        BY <1>2 DEF Span
    <2> QED
        BY <2>2, <2>3
<1> QED
    BY <1>1, <1>2

(* For an address of which nothing changes, or all failures are forgotten. *)
LEMMA WaitKept ==
    ASSUME GuardInv, WaitInv, NEW c \in Client, told'[c] = told[c], since'[c] \in Nat,
           failures'[c] = 0 \/ (failures'[c] = failures[c] /\ since'[c] = since[c])
    PROVE  told'[c] # Never => Remaining(c)' <= told'[c]
<1>1. told[c] \in Int /\ told[c] >= Never
    BY DEF GuardInv, GuardTypes
<1>2. CASE failures'[c] = 0
    <2>1. Remaining(c)' = 0
        BY <1>2 DEF Remaining
    <2> QED
        BY <1>1, <2>1, Numbers
<1>3. CASE failures'[c] = failures[c] /\ since'[c] = since[c]
    <2>1. Remaining(c)' = Remaining(c)
        BY <1>3 DEF Remaining
    <2> QED
        BY <2>1 DEF WaitInv
<1> QED
    BY <1>2, <1>3

(* After a failure the address was told nothing. *)
LEMMA WaitFail ==
    ASSUME GuardInv, WaitInv, NEW r \in Request, req[r].client \in Client, Fail(r)
    PROVE  WaitInv'
<1>1. /\ failures' = [failures EXCEPT ![req[r].client] = failures[req[r].client] + 1]
      /\ since' = [since EXCEPT ![req[r].client] = 0]
      /\ told' = [told EXCEPT ![req[r].client] = Never]
    BY DEF Fail, RecordFailure
<1>2. /\ failures \in [Client -> Nat] /\ since \in [Client -> 0..(EntryTTL + 1)]
      /\ told \in [Client -> Int]
    BY DEF GuardInv, GuardTypes
<1> SUFFICES ASSUME NEW c \in Client PROVE told'[c] # Never => Remaining(c)' <= told'[c]
    BY DEF WaitInv
<1>3. CASE c = req[r].client
    BY <1>1, <1>2, <1>3
<1>4. CASE c # req[r].client
    <2>1. told'[c] = told[c] /\ failures'[c] = failures[c] /\ since'[c] = since[c] /\ since'[c] \in Nat
        BY <1>1, <1>2, <1>4
    <2> QED
        BY <2>1, WaitKept
<1> QED
    BY <1>3, <1>4

(* What it was told gets less as fast as what it has to wait. *)
LEMMA WaitTick ==
    ASSUME GuardInv, WaitInv, Tick
    PROVE  WaitInv'
<1> SUFFICES ASSUME NEW c \in Client PROVE told'[c] # Never => Remaining(c)' <= told'[c]
    BY DEF WaitInv
<1>1. /\ failures[c] \in Nat /\ since[c] \in 0..(EntryTTL + 1) /\ told[c] \in Int /\ told[c] >= -1
      /\ failures'[c] = failures[c]
      /\ since'[c] = IF failures[c] = 0 THEN 0 ELSE Older(since[c], EntryTTL)
      /\ told'[c] = IF told[c] > 0 THEN told[c] - 1 ELSE told[c]
    BY Numbers DEF GuardInv, GuardTypes, Tick
<1>2. told'[c] # Never => told'[c] >= 0 /\ told[c] >= 0
    BY <1>1, Numbers
<1>3. CASE failures[c] = 0
    <2>1. Remaining(c)' = 0
        <3>1. failures'[c] = 0 /\ since'[c] = 0
            BY <1>1, <1>3
        <3> QED
            BY <3>1 DEF Remaining
    <2> QED
        BY <1>1, <1>2, <2>1
<1>4. CASE failures[c] # 0
    <2>1. PICK span \in Int : span = Span(failures[c]) /\ span <= EntryTTL
        BY <1>1, SpanRemembered
    <2>2. since'[c] \in Nat /\ (since[c] <= EntryTTL => since'[c] = since[c] + 1)
          /\ (since[c] > EntryTTL => since'[c] = since[c])
        BY <1>1, <1>4, Numbers DEF Older, Never
    <2>3. Remaining(c) = IF since[c] < span THEN span - since[c] ELSE 0
        BY <1>1, <2>1, RemainingIs
    <2>4. Remaining(c)' = IF since'[c] < span THEN span - since'[c] ELSE 0
        <3>1. Span(failures'[c]) = span /\ failures'[c] \in Nat
            BY <1>1, <2>1
        <3>2. Remaining(c)' = IF since'[c] < Span(failures'[c]) THEN Span(failures'[c]) - since'[c] ELSE 0
            BY DEF Remaining, Span
        <3> QED
            BY <3>1, <3>2
    <2>5. told[c] # Never => Remaining(c) <= told[c]
        BY DEF WaitInv
    <2>6. /\ told[c] \in Int /\ told'[c] = (IF told[c] > 0 THEN told[c] - 1 ELSE told[c])
          /\ since[c] \in Nat /\ EntryTTL \in Nat /\ span <= EntryTTL
        BY <1>1, <2>1, Numbers
    <2>7. told'[c] # Never => Remaining(c) <= told[c] /\ told'[c] >= 0 /\ told[c] >= 0
        BY <1>2, <2>5, Numbers
    <2> QED
        BY <2>2, <2>3, <2>4, <2>6, <2>7
<1> QED
    BY <1>3, <1>4

(* A refusal tells no less than there is left. *)
LEMMA WaitRefuse ==
    ASSUME GuardInv, WaitInv, NEW c \in Client, Refuse(c)
    PROVE  WaitInv'
<1>1. PICK t : t = 2 * Seconds(Remaining(c))
    OBVIOUS
<1>2. /\ told' = [told EXCEPT ![c] = IF told[c] = Never \/ t < told[c] THEN t ELSE told[c]]
      /\ UNCHANGED <<failures, since>>
    BY <1>1 DEF Refuse
<1>3. /\ failures \in [Client -> Nat] /\ since \in [Client -> 0..(EntryTTL + 1)]
      /\ told \in [Client -> Int]
    BY DEF GuardInv, GuardTypes
<1>4. Remaining(c) \in Int /\ Remaining(c) >= 0
    <2>1. failures[c] \in Nat /\ since[c] \in Nat
        BY <1>3
    <2> QED
        BY <2>1, RemainingIs
<1>5. t \in Int /\ Remaining(c) <= t
    BY <1>1, <1>4 DEF Seconds
<1> SUFFICES ASSUME NEW d \in Client PROVE told'[d] # Never => Remaining(d)' <= told'[d]
    BY DEF WaitInv
<1>6. Remaining(d)' = Remaining(d)
    BY <1>2 DEF Remaining
<1>7. CASE d = c
    <2>1. told'[d] = t \/ (told'[d] = told[d] /\ told[d] # Never)
        BY <1>2, <1>3, <1>7
    <2> QED
        BY <1>5, <1>6, <1>7, <2>1 DEF WaitInv
<1>8. CASE d # c
    BY <1>2, <1>3, <1>6, <1>8 DEF WaitInv
<1> QED
    BY <1>7, <1>8

(* Whatever happens, waiting as long as one was told is enough. *)
LEMMA WaitNext ==
    ASSUME GuardInv, WaitInv, GuardNext
    PROVE  WaitInv'
<1>0. /\ failures \in [Client -> Nat] /\ since \in [Client -> 0..(EntryTTL + 1)]
      /\ told \in [Client -> Int] /\ Logins
    BY DEF GuardInv, GuardTypes
<1>1. ASSUME UNCHANGED told,
             \A c \in Client : /\ since'[c] \in Nat
                               /\ \/ failures'[c] = 0
                                  \/ failures'[c] = failures[c] /\ since'[c] = since[c]
      PROVE  WaitInv'
    BY <1>1, WaitKept DEF WaitInv
<1>2. ASSUME UNCHANGED limiter PROVE WaitInv'
    BY <1>0, <1>1, <1>2 DEF limiter
<1>3. ASSUME NEW c \in Client, LetIn(c) PROVE WaitInv'
    <2>1. /\ since' \in [Client -> 0..(EntryTTL + 1)] /\ told' = told
          /\ \A d \in Client : failures'[d] = 0 \/ (failures'[d] = failures[d] /\ since'[d] = since[d])
        BY <1>3, LetInDoes
    <2> QED
        BY <1>1, <2>1
<1>4. ASSUME NEW r \in Request, Fail(r), req[r].at # "idle" PROVE WaitInv'
    BY <1>0, <1>4, WaitFail DEF Logins
<1>5. CASE Serves
    <2>1. ASSUME NEW r \in Request, Solve(r) PROVE WaitInv'
        BY <1>2, <1>4, <2>1 DEF Solve
    <2>2. ASSUME NEW r \in Request, Use(r) PROVE WaitInv'
        BY <1>2, <1>4, <2>2 DEF Use
    <2>3. ASSUME NEW r \in Request, Password(r), ~Fail(r) PROVE WaitInv'
        <3>1. CASE /\ failures' = [failures EXCEPT ![req[r].client] = 0]
                   /\ since' = [since EXCEPT ![req[r].client] = 0] /\ UNCHANGED told
            BY <1>0, <1>1, <3>1
        <3>2. CASE UNCHANGED limiter
            BY <1>2, <3>2
        <3> QED
            BY <2>3, <3>1, <3>2 DEF Password
    <2>4. ASSUME NEW r \in Request, Password(r), Fail(r) PROVE WaitInv'
        BY <1>4, <2>4 DEF Password
    <2> QED
        BY <1>3, <1>5, <2>1, <2>2, <2>3, <2>4, WaitRefuse DEF Serves, Challenge, Login
<1>6. CASE CleanEntries
    <2>1. ASSUME NEW c \in Client
          PROVE  /\ since'[c] \in Nat
                 /\ failures'[c] = 0 \/ (failures'[c] = failures[c] /\ since'[c] = since[c])
        BY <1>0, <1>6 DEF CleanEntries
    <2>2. UNCHANGED told
        BY <1>6 DEF CleanEntries
    <2> QED
        BY <1>1, <2>1, <2>2
<1>7. CASE CleanUsed \/ Restarts \/ Rests
    BY <1>2, <1>7 DEF CleanUsed, Restarts, Rests, gvars
<1>8. CASE Tick
    BY <1>8, WaitTick
<1>9. CASE NothingKnown
    BY <1>9 DEF NothingKnown, WaitInv
<1> QED
    BY <1>5, <1>6, <1>7, <1>8, <1>9 DEF GuardNext

(* When the time that was told is over, the address is let in. *)
LEMMA WaitImplies ==
    ASSUME GuardInv, WaitInv
    PROVE  WaitIsEnough
<1> SUFFICES ASSUME NEW c \in Client, told[c] = 0 PROVE Seconds(Remaining(c)) = 0 /\ ~Blocked(c)
    BY DEF WaitIsEnough
<1>1. Remaining(c) \in Int /\ Remaining(c) >= 0
    <2>1. failures[c] \in Nat /\ since[c] \in Nat
        BY DEF GuardInv, GuardTypes
    <2> QED
        BY <2>1, RemainingIs
<1>2. Remaining(c) = 0
    BY <1>1, Numbers DEF WaitInv
<1> QED
    BY <1>2 DEF Seconds, Blocked

-----------------------------------------------------------------------------
(* LoginGuard: payloads *)

(* No login and no payload is known. *)
Clean ==
    /\ \A p \in Payload : used[p] = Never /\ accepted[p] = 0
    /\ \A r \in Request : req[r] = NoLogin

Age(p) == challenge[Decode[p]]

(* A payload is not known for longer than its challenge is there, up to the
   age from which the challenge is not valid.                               *)
Known(p) ==
    used[p] # Never =>
        /\ Decode[p] \in Solution
        /\ IF used[p] <= ChallengeTTL THEN Age(p) >= used[p] ELSE Age(p) > ChallengeTTL

(* A login whose solution was in time looks up its payload while that is
   remembered.                                                              *)
InTime(r) ==
    req[r].at = "solved" =>
        /\ Age(req[r].payload) >= 0
        /\ used[req[r].payload] # Never => used[req[r].payload] <= ChallengeTTL + req[r].held

(* A payload that was accepted and is forgotten can do nothing any more. *)
Over(p) ==
    accepted[p] >= 1 /\ used[p] = Never =>
        /\ Decode[p] \in Solution /\ Age(p) > ChallengeTTL
        /\ \A r \in Request : ~(req[r].at = "solved" /\ req[r].payload = p)

PayloadInv ==
    /\ phase \notin {"serve", "stopping"} => Clean
    /\ \A p \in Payload : Known(p) /\ Over(p) /\ accepted[p] <= 1
    /\ \A r \in Request : InTime(r)

(* A step that leaves the payloads alone and brings no login to look them up. *)
LEMMA PayloadsKept ==
    ASSUME GuardInv, PayloadInv, UNCHANGED service, phase' = phase, phase \in {"serve", "stopping"},
           \A r \in Request : req'[r] = req[r] \/ req'[r].at # "solved"
    PROVE  PayloadInv'
<1>1. UNCHANGED <<challenge, used, accepted>>
    BY DEF service
<1>2. \A p \in Payload : Known(p)' /\ (accepted[p] <= 1)'
    BY <1>1 DEF PayloadInv, Known, Age
<1>3. \A p \in Payload : Over(p)'
    BY <1>1 DEF PayloadInv, Over, Age
<1>4. \A r \in Request : InTime(r)'
    BY <1>1 DEF PayloadInv, InTime, Age
<1> QED
    BY <1>2, <1>3, <1>4 DEF PayloadInv

(* A login that ends is one of them. *)
LEMMA PayloadsFail ==
    ASSUME GuardInv, PayloadInv, phase' = phase, phase \in {"serve", "stopping"},
           NEW r \in Request, Answer(r), UNCHANGED service
    PROVE  PayloadInv'
<1>1. req' = [req EXCEPT ![r] = NoLogin] /\ req \in [Request -> LoginRecord]
    BY DEF Answer, GuardInv, GuardTypes
<1>2. \A q \in Request : req'[q] = req[q] \/ req'[q].at # "solved"
    BY <1>1, NoLoginIs
<1> QED
    BY <1>2, PayloadsKept

(* The challenge is genuine and in time. *)
LEMMA PayloadsSolve ==
    ASSUME GuardInv, PayloadInv, phase' = phase, phase \in {"serve", "stopping"},
           NEW r \in Request, Solve(r)
    PROVE  PayloadInv'
<1>1. CASE ~Genuine(Decode[req[r].payload])
    BY <1>1, PayloadsFail DEF Solve, Fail
<1>2. CASE Genuine(Decode[req[r].payload])
    <2>1. PICK p : p = req[r].payload
        OBVIOUS
    <2>2. /\ req' = [req EXCEPT ![r].at = "solved"] /\ req[r].at = "passed"
          /\ req \in [Request -> LoginRecord] /\ Logins
          /\ UNCHANGED <<challenge, used, accepted>>
        BY <1>2 DEF Solve, GuardInv, GuardTypes, service
    <2>3. p \in Payload /\ Decode[p] \in Solution /\ Age(p) \in 0..ChallengeTTL
        BY <1>2, <2>1, <2>2, Numbers DEF Genuine, Logins, Age
    <2>4. /\ req[r] \in LoginRecord /\ req[r].held = 0
          /\ req'[r].at = "solved" /\ req'[r].payload = p /\ req'[r].held = 0
          /\ \A q \in Request : q # r => req'[q] = req[q]
        BY <2>1, <2>2 DEF Logins, LoginRecord
    <2>5. used[p] # Never => used[p] <= ChallengeTTL
        <3>1. used[p] \in Int /\ Known(p)
            BY <2>3, Numbers DEF GuardInv, GuardTypes, PayloadInv
        <3> QED
            BY <2>3, <3>1, Numbers DEF Known
    <2>6. ~(accepted[p] >= 1 /\ used[p] = Never)
        <3>1. Over(p)
            BY <2>3 DEF PayloadInv
        <3> QED
            BY <2>3, <3>1, Numbers DEF Over
    <2>7. ASSUME NEW q \in Request PROVE InTime(q)'
        <3>1. CASE q = r
            <4>1. ChallengeTTL + 0 = ChallengeTTL
                BY Numbers
            <4> QED
                BY <2>2, <2>3, <2>4, <2>5, <3>1, <4>1 DEF InTime, Age
        <3>2. CASE q # r
            BY <2>2, <2>4, <3>2 DEF PayloadInv, InTime, Age
        <3> QED
            BY <3>1, <3>2
    <2>8. ASSUME NEW x \in Payload PROVE Known(x)' /\ (accepted[x] <= 1)' /\ Over(x)'
        <3>1. Known(x)' /\ (accepted[x] <= 1)'
            BY <2>2 DEF PayloadInv, Known, Age
        <3>2. Over(x)'
            BY <2>2, <2>4, <2>6 DEF PayloadInv, Over, Age
        <3> QED
            BY <3>1, <3>2
    <2> QED
        BY <2>7, <2>8 DEF PayloadInv
<1> QED
    BY <1>1, <1>2

(* The payload is looked up and remembered. *)
LEMMA PayloadsUse ==
    ASSUME GuardInv, PayloadInv, phase' = phase, phase \in {"serve", "stopping"},
           NEW r \in Request, Use(r)
    PROVE  PayloadInv'
<1>0. PICK p \in Payload : p = req[r].payload /\ Decode[p] \in Solution
    BY DEF Use, GuardInv, GuardTypes, Logins
<1>1. CASE used[p] # Never
    BY <1>0, <1>1, PayloadsFail DEF Use, Fail
<1>2. CASE used[p] = Never
    <2>1. /\ req' = [req EXCEPT ![r].at = "verified", ![r].held = 0] /\ req[r].at = "solved"
          /\ used' = [used EXCEPT ![p] = 0]
          /\ accepted' = [accepted EXCEPT ![p] = accepted[p] + 1]
          /\ UNCHANGED challenge
        BY <1>0, <1>2 DEF Use
    <2>2. /\ req \in [Request -> LoginRecord] /\ used \in [Payload -> Never..(ChallengeTTL + Slack + 1)]
          /\ accepted \in [Payload -> Nat] /\ challenge \in [Solution -> Never..(ChallengeTTL + 1)]
        BY DEF GuardInv, GuardTypes
    <2>3. /\ req'[r].at = "verified" /\ \A q \in Request : q # r => req'[q] = req[q]
        BY <2>1, <2>2 DEF LoginRecord
    <2>4. Age(p) >= 0
        BY <1>0, <2>1 DEF PayloadInv, InTime
    <2>5. accepted[p] = 0
        <3>1. ~(accepted[p] >= 1)
            BY <1>0, <1>2, <2>1 DEF PayloadInv, Over
        <3> QED
            BY <2>2, <3>1
    <2>6. /\ used'[p] = 0 /\ accepted'[p] = 1
          /\ \A x \in Payload : x # p => used'[x] = used[x] /\ accepted'[x] = accepted[x]
        BY <2>1, <2>2, <2>5
    <2>7. ASSUME NEW x \in Payload PROVE Known(x)' /\ (accepted[x] <= 1)' /\ Over(x)'
        <3>1. CASE x = p
            <4>1. Known(x)'
                BY <1>0, <2>1, <2>4, <2>6, <3>1, Numbers DEF Known, Age
            <4>2. Over(x)' /\ (accepted[x] <= 1)'
                BY <2>6, <3>1, Numbers DEF Over
            <4> QED
                BY <4>1, <4>2
        <3>2. CASE x # p
            <4>1. Known(x)' /\ (accepted[x] <= 1)'
                BY <2>1, <2>6, <3>2 DEF PayloadInv, Known, Age
            <4>2. Over(x)'
                <5>1. Over(x) /\ used'[x] = used[x] /\ accepted'[x] = accepted[x] /\ Age(x)' = Age(x)
                    BY <2>1, <2>6, <3>2 DEF PayloadInv, Age
                <5>2. ASSUME NEW q \in Request, req'[q].at = "solved", req'[q].payload = x
                      PROVE  req[q].at = "solved" /\ req[q].payload = x
                    BY <2>3, <5>2
                <5> QED
                    BY <5>1, <5>2 DEF Over
            <4> QED
                BY <4>1, <4>2
        <3> QED
            BY <3>1, <3>2
    <2>8. ASSUME NEW q \in Request PROVE InTime(q)'
        <3>1. CASE q = r
            BY <2>3, <3>1 DEF InTime
        <3>2. CASE q # r /\ req[q].at = "solved"
            <4>1. req'[q] = req[q] /\ req[q].payload \in Payload /\ req[q].held \in 0..Slack /\ InTime(q)
                BY <2>2, <2>3, <3>2 DEF GuardInv, GuardTypes, Logins, LoginRecord, PayloadInv
            <4>2. 0 <= ChallengeTTL + req[q].held
                BY <4>1, Numbers
            <4> QED
                BY <2>1, <2>6, <3>2, <4>1, <4>2 DEF InTime, Age
        <3>3. CASE q # r /\ req[q].at # "solved"
            BY <2>3, <3>3 DEF InTime
        <3> QED
            BY <3>1, <3>2, <3>3
    <2> QED
        BY <2>7, <2>8 DEF PayloadInv
<1> QED
    BY <1>1, <1>2

(* The name of a solution is used again. *)
LEMMA PayloadsChallenge ==
    ASSUME GuardInv, PayloadInv, phase' = phase, phase \in {"serve", "stopping"},
           NEW c \in Client, NEW s \in Solution, Challenge(c, s)
    PROVE  PayloadInv'
<1>1. /\ \A p \in Texts(s) : used[p] = Never /\ \A r \in Request : req[r].payload # p
      /\ challenge' = [challenge EXCEPT ![s] = 0]
      /\ accepted' = [p \in Payload |-> IF p \in Texts(s) THEN 0 ELSE accepted[p]]
      /\ used' = used /\ req' = req
    BY DEF Challenge
<1>2. challenge \in [Solution -> Never..(ChallengeTTL + 1)] /\ Logins
    BY DEF GuardInv, GuardTypes
<1>3. ASSUME NEW p \in Payload, Decode[p] \in Solution, Decode[p] # s PROVE Age(p)' = Age(p)
    BY <1>1, <1>2, <1>3 DEF Age
<1>4. ASSUME NEW p \in Payload PROVE Known(p)' /\ Over(p)' /\ (accepted[p] <= 1)'
    <2>1. CASE Decode[p] = s
        <3>1. used'[p] = Never /\ accepted'[p] = 0
            BY <1>1, <2>1 DEF Texts
        <3> QED
            BY <3>1 DEF Known, Over
    <2>2. CASE Decode[p] # s
        <3>1. accepted'[p] = accepted[p] /\ (Decode[p] \in Solution => Age(p)' = Age(p))
            BY <1>1, <1>3, <2>2 DEF Texts
        <3> QED
            BY <1>1, <3>1 DEF PayloadInv, Known, Over
    <2> QED
        BY <2>1, <2>2
<1>5. ASSUME NEW r \in Request, req[r].at = "solved" PROVE InTime(r)'
    <2>1. PICK p \in Payload : p = req[r].payload /\ Decode[p] \in Solution /\ Decode[p] # s
        BY <1>1, <1>2, <1>5 DEF Logins, Texts
    <2>2. Age(p)' = Age(p) /\ InTime(r)
        BY <1>3, <2>1 DEF PayloadInv
    <2> QED
        BY <1>1, <1>5, <2>1, <2>2 DEF InTime, Age
<1>6. ASSUME NEW r \in Request, req[r].at # "solved" PROVE InTime(r)'
    BY <1>1, <1>6 DEF InTime
<1> QED
    BY <1>4, <1>5, <1>6 DEF PayloadInv

(* Payloads are forgotten only when no login can be let in with them. *)
LEMMA PayloadsClean ==
    ASSUME GuardInv, PayloadInv, phase' = phase, phase \in {"serve", "stopping"}, CleanUsed
    PROVE  PayloadInv'
<1>1. /\ used' = [p \in Payload |-> IF used[p] > ChallengeTTL + Slack THEN Never ELSE used[p]]
      /\ UNCHANGED <<challenge, accepted, req>>
    BY DEF CleanUsed
<1>2. /\ used \in [Payload -> Never..(ChallengeTTL + Slack + 1)] /\ req \in [Request -> LoginRecord]
      /\ Logins /\ challenge \in [Solution -> Never..(ChallengeTTL + 1)]
    BY DEF GuardInv, GuardTypes
<1>3. ASSUME NEW r \in Request PROVE InTime(r)'
    BY <1>1, <1>2 DEF PayloadInv, InTime, Logins, Age
<1>4. ASSUME NEW p \in Payload, used[p] > ChallengeTTL + Slack
      PROVE  /\ Age(p) > ChallengeTTL
             /\ \A r \in Request : ~(req[r].at = "solved" /\ req[r].payload = p)
    <2>1. used[p] \in Int /\ used[p] # Never /\ used[p] > ChallengeTTL /\ ~(used[p] <= ChallengeTTL)
        BY <1>2, <1>4, Numbers
    <2>2. Age(p) > ChallengeTTL
        BY <2>1 DEF PayloadInv, Known
    <2>3. ASSUME NEW r \in Request, req[r].at = "solved", req[r].payload = p PROVE FALSE
        <3>1. used[p] <= ChallengeTTL + req[r].held
            BY <2>1, <2>3 DEF PayloadInv, InTime
        <3>2. req[r].held \in 0..Slack
            BY <1>2 DEF LoginRecord
        <3> QED
            BY <1>4, <2>1, <3>1, <3>2, Numbers
    <2> QED
        BY <2>2, <2>3
<1>5. ASSUME NEW p \in Payload PROVE Known(p)' /\ Over(p)' /\ (accepted[p] <= 1)'
    <2>1. CASE used[p] > ChallengeTTL + Slack
        <3>1. used'[p] = Never
            BY <1>1, <2>1
        <3> QED
            BY <1>1, <1>4, <2>1, <3>1 DEF PayloadInv, Known, Over, Age
    <2>2. CASE ~(used[p] > ChallengeTTL + Slack)
        <3>1. used'[p] = used[p]
            BY <1>1, <2>2
        <3> QED
            BY <1>1, <3>1 DEF PayloadInv, Known, Over, Age
    <2> QED
        BY <2>1, <2>2
<1> QED
    BY <1>3, <1>5 DEF PayloadInv

(* All ages grow together. *)
LEMMA PayloadsTick ==
    ASSUME GuardInv, PayloadInv, Tick, phase' = phase
    PROVE  PayloadInv'
<1>1. /\ used \in [Payload -> Never..(ChallengeTTL + Slack + 1)] /\ req \in [Request -> LoginRecord]
      /\ Logins /\ challenge \in [Solution -> Never..(ChallengeTTL + 1)] /\ accepted' = accepted
    BY DEF GuardInv, GuardTypes, Tick
<1>2. ASSUME NEW p \in Payload
      PROVE  /\ Decode[p] \in Solution =>
                    /\ Age(p)' = Older(Age(p), ChallengeTTL)
                    /\ Age(p) \in Never..(ChallengeTTL + 1)
             /\ used'[p] = Older(used[p], ChallengeTTL + Slack)
             /\ used[p] \in Never..(ChallengeTTL + Slack + 1)
    BY <1>1 DEF Tick, Age
<1>3. ASSUME NEW p \in Payload
      PROVE  /\ used'[p] = Never <=> used[p] = Never
             /\ used[p] # Never => used'[p] <= used[p] + 1
             /\ Decode[p] \in Solution =>
                    /\ Age(p) > ChallengeTTL => Age(p)' > ChallengeTTL
                    /\ Age(p) >= 0 => Age(p)' >= 0
             /\ Known(p)'
    <2>1. PICK u \in Int : u = used[p] /\ u >= -1
        BY <1>2, Numbers
    <2>2. used'[p] = IF u = -1 \/ u > ChallengeTTL + Slack THEN u ELSE u + 1
        BY <1>2, <2>1, Numbers DEF Older
    <2>3. ChallengeTTL \in Nat /\ Slack \in Nat /\ Never = -1
        BY Numbers
    <2>4. (used'[p] = Never <=> used[p] = Never) /\ (used[p] # Never => used'[p] <= used[p] + 1)
        BY <2>1, <2>2, <2>3
    <2>5. CASE Decode[p] \notin Solution
        BY <2>4, <2>5 DEF PayloadInv, Known
    <2>6. CASE Decode[p] \in Solution
        <3>1. PICK a \in Int : a = Age(p) /\ a >= -1
            BY <1>2, <2>6, Numbers
        <3>2. Age(p)' = IF a = -1 \/ a > ChallengeTTL THEN a ELSE a + 1
            BY <1>2, <2>6, <3>1, Numbers DEF Older
        <3>3. u # -1 => IF u <= ChallengeTTL THEN a >= u ELSE a > ChallengeTTL
            BY <2>1, <3>1, Numbers DEF PayloadInv, Known
        <3>4. PICK b, v \in Int : b = Age(p)' /\ v = used'[p]
            BY <2>1, <2>2, <3>1, <3>2
        <3>5. v # -1 => IF v <= ChallengeTTL THEN b >= v ELSE b > ChallengeTTL
            BY <2>1, <2>2, <2>3, <3>1, <3>2, <3>3, <3>4
        <3>6. Known(p)'
            BY <2>3, <2>6, <3>4, <3>5 DEF Known
        <3> QED
            BY <2>3, <2>4, <3>1, <3>2, <3>6
    <2> QED
        BY <2>5, <2>6
<1>4. ASSUME NEW r \in Request
      PROVE  /\ req'[r].at = req[r].at /\ req'[r].payload = req[r].payload
             /\ req[r].at # "solved" => req'[r] = req[r]
             /\ req[r].at = "solved" => req'[r].held = req[r].held + 1
    <2>1. CASE req[r].at = "solved"
        <3>1. req'[r] = [req[r] EXCEPT !.held = req[r].held + 1]
            BY <2>1 DEF Tick
        <3>2. req[r] \in LoginRecord
            BY <1>1
        <3> QED
            BY <2>1, <3>1, <3>2 DEF LoginRecord
    <2>2. CASE req[r].at # "solved"
        BY <2>2 DEF Tick
    <2> QED
        BY <2>1, <2>2
<1>5. ASSUME NEW p \in Payload PROVE Over(p)' /\ (accepted[p] <= 1)'
    BY <1>1, <1>3, <1>4 DEF PayloadInv, Over
<1>6. ASSUME NEW r \in Request, req[r].at = "solved" PROVE InTime(r)'
    <2>1. PICK p \in Payload : p = req[r].payload /\ Decode[p] \in Solution
        BY <1>1, <1>6 DEF Logins
    <2>2. Age(p) >= 0 /\ (used[p] # Never => used[p] <= ChallengeTTL + req[r].held)
        BY <1>6, <2>1 DEF PayloadInv, InTime
    <2>3. used[p] \in Int /\ used'[p] \in Int
        BY <1>2, Numbers DEF Older
    <2>4. req[r].held \in Nat /\ req'[r].held = req[r].held + 1
        <3>1. req[r].held \in 0..Slack
            BY <1>1 DEF LoginRecord
        <3> QED
            BY <1>4, <1>6, <3>1, Numbers
    <2>5. used'[p] # Never => used'[p] <= ChallengeTTL + req'[r].held
        <3>1. used'[p] # Never => used[p] # Never /\ used'[p] <= used[p] + 1
            BY <1>3
        <3> QED
            BY <2>2, <2>3, <2>4, <3>1, Numbers
    <2> QED
        BY <1>3, <1>4, <2>1, <2>2, <2>5 DEF InTime
<1>7. ASSUME NEW r \in Request, req[r].at # "solved" PROVE InTime(r)'
    BY <1>4, <1>7 DEF InTime
<1>8. ASSUME phase \notin {"serve", "stopping"} PROVE Clean'
    <2>1. Clean
        BY <1>8 DEF PayloadInv
    <2>2. \A p \in Payload : used'[p] = Never /\ accepted'[p] = 0
        BY <1>1, <1>3, <2>1 DEF Clean
    <2>3. \A r \in Request : req'[r] = NoLogin
        BY <1>4, <2>1, NoLoginIs DEF Clean
    <2> QED
        BY <2>2, <2>3 DEF Clean
<1> QED
    BY <1>5, <1>6, <1>7, <1>8, <1>3 DEF PayloadInv

(* Without any memory there is nothing to be used twice. *)
LEMMA PayloadsNothing ==
    ASSUME Clean'
    PROVE  PayloadInv'
<1>1. \A p \in Payload : Known(p)' /\ Over(p)' /\ (accepted[p] <= 1)'
    BY DEF Clean, Known, Over
<1>2. \A r \in Request : InTime(r)'
    BY NoLoginIs DEF Clean, InTime
<1> QED
    BY <1>1, <1>2 DEF PayloadInv

(* Whatever happens, no payload is accepted twice. *)
LEMMA PayloadsNext ==
    ASSUME GuardInv, PayloadInv, GuardNext
    PROVE  PayloadInv'
<1>1. CASE Serves
    <2>0. phase \in {"serve", "stopping"} /\ phase' = phase
        BY <1>1 DEF Serves
    <2>1. ASSUME NEW c \in Client, Refuse(c) PROVE PayloadInv'
        BY <2>0, <2>1, PayloadsKept DEF Refuse
    <2>2. ASSUME NEW c \in Client, NEW s \in Solution, Challenge(c, s) PROVE PayloadInv'
        BY <2>0, <2>2, PayloadsChallenge
    <2>3. ASSUME NEW r \in Request, NEW c \in Client, NEW t \in Payload, Login(r, c, t)
          PROVE  PayloadInv'
        <3>1. PICK q : /\ q.at = "passed" /\ (req' = [req EXCEPT ![r] = q] \/ req' = req)
            <4>1. PICK q : q = [NoLogin EXCEPT !.at = "passed", !.client = c, !.payload = t]
                OBVIOUS
            <4>2. q.at = "passed"
                BY <4>1 DEF NoLogin
            <4>3. req' = [req EXCEPT ![r] = q] \/ req' = req
                BY <2>3, <4>1 DEF Login
            <4> QED
                BY <4>2, <4>3
        <3>2. req \in [Request -> LoginRecord]
            BY DEF GuardInv, GuardTypes
        <3>3. \A p \in Request : req'[p] = req[p] \/ req'[p].at # "solved"
            BY <3>1, <3>2
        <3>4. UNCHANGED service
            BY <2>3 DEF Login
        <3> QED
            BY <2>0, <3>3, <3>4, PayloadsKept
    <2>4. ASSUME NEW r \in Request, Solve(r) PROVE PayloadInv'
        BY <2>0, <2>4, PayloadsSolve
    <2>5. ASSUME NEW r \in Request, Use(r) PROVE PayloadInv'
        BY <2>0, <2>5, PayloadsUse
    <2>6. ASSUME NEW r \in Request, Password(r) PROVE PayloadInv'
        BY <2>0, <2>6, PayloadsFail DEF Password, Fail
    <2> QED
        BY <1>1, <2>1, <2>2, <2>3, <2>4, <2>5, <2>6 DEF Serves
<1>2. CASE phase = "serve" /\ phase' = phase /\ CleanEntries
    BY <1>2, PayloadsKept DEF CleanEntries
<1>3. CASE phase = "serve" /\ phase' = phase /\ CleanUsed
    BY <1>3, PayloadsClean
<1>4. CASE Tick /\ phase' = phase
    BY <1>4, PayloadsTick
<1>5. CASE Restarts
    <2>1. Clean'
        BY <1>5 DEF Restarts, PayloadInv, Clean
    <2> QED
        BY <2>1, PayloadsNothing
<1>6. CASE NothingKnown
    <2>1. Clean'
        BY <1>6 DEF NothingKnown, Clean
    <2> QED
        BY <2>1, PayloadsNothing
<1>7. CASE Rests
    BY <1>7 DEF Rests, gvars, service, PayloadInv, Clean, Known, InTime, Over, Age
<1> QED
    BY <1>1, <1>2, <1>3, <1>4, <1>5, <1>6, <1>7 DEF GuardNext

-----------------------------------------------------------------------------
(* Server: the configuration file *)

Config == Seq(Line)

(* What is to be saved is the secrets of a file that lacked some. *)
Generated ==
    /\ read \in Config /\ Readable(read) /\ \A k \in Secret : cfg[k] # 0
    /\ \E k \in Secret : Get(read, k) = 0

(* Nothing is to be saved, or something is and has been. *)
Kept ==
    \/ /\ file = read /\ Readable(read)
       /\ \A k \in Secret : cfg[k] = Get(read, k) /\ cfg[k] # 0
    \/ file = Persist(read, cfg) /\ Generated

FileInv ==
    /\ phase \in {"down", "save", "write", "migrate", "serve", "stopping"}
    /\ file \in Config \cup {Missing} /\ read \in Config \cup {Missing}
    /\ cfg \in [Secret -> Nat]
    /\ generated \in 0..MaxGenerated /\ saved \in BOOLEAN
    /\ phase \in {"save", "write"} => ~saved /\ Generated /\ Safe(read)
    /\ saved /\ read # Missing => Kept

(* The first bytes of a file, as far as whole lines go, are a file. *)
LEMMA CutIsFile ==
    ASSUME NEW f \in Config, NEW n \in Nat, n < Len(f)
    PROVE  SubSeq(f, 1, n) \in Config
<1>1. Len(f) \in Nat
    BY LenProperties DEF Config
<1>2. \A i \in 1..n : f[i] \in Line
    BY <1>1, ElementOfSeq DEF Config
<1> QED
    BY <1>2, SubSeqProperties DEF Config

(* A process starts and makes what the file lacks. *)
LEMMA FileStart ==
    ASSUME FileInv, Start
    PROVE  FileInv'
<1>0. Missing \notin Config /\ MaxGenerated \in Nat
    BY Bounds DEF Config
<1>1. \A k \in Secret : Loaded(k) \in Nat
    BY GetType DEF FileInv, Config, Loaded
<1>2. /\ generated' = IF Lacking # {} THEN generated + 1 ELSE generated
      /\ cfg' = [k \in Secret |-> IF k \in Lacking THEN generated' ELSE Loaded(k)]
      /\ read' = file /\ file' = file
      /\ phase' = IF Lacking = {} \/ file = Missing THEN "migrate" ELSE "save"
      /\ file # Missing => Readable(file) /\ ~(Lacking # {} /\ Panics(file))
      /\ Lacking # {} => generated < MaxGenerated
    BY DEF Start
<1>3. generated' \in 0..MaxGenerated /\ (Lacking # {} => generated' # 0)
    BY <1>0, <1>2 DEF FileInv
<1>4. cfg' \in [Secret -> Nat]
    BY <1>1, <1>2, <1>3
<1>5. \A k \in Secret : cfg'[k] # 0 /\ (k \notin Lacking => cfg'[k] = Loaded(k))
    BY <1>2, <1>3 DEF Lacking
<1>6. saved' \in BOOLEAN /\ (saved' <=> Lacking = {})
    BY DEF Start
<1>7. ASSUME phase' \in {"save", "write"} PROVE ~saved' /\ Generated' /\ Safe(read')
    <2>1. Lacking # {} /\ file # Missing
        BY <1>2, <1>7
    <2>2. file \in Config /\ Readable(file) /\ ~Panics(file)
        BY <1>2, <2>1 DEF FileInv
    <2>3. \E k \in Secret : Get(file, k) = 0
        BY <2>1 DEF Lacking, Loaded
    <2>4. Safe(file)
        BY <2>2, SafeIs DEF Config
    <2> QED
        BY <1>2, <1>5, <1>6, <2>1, <2>2, <2>3, <2>4 DEF Generated
<1>8. ASSUME saved', read' # Missing PROVE Kept'
    <2>1. Lacking = {} /\ file # Missing
        BY <1>2, <1>6, <1>8
    <2>2. \A k \in Secret : cfg'[k] = Get(file, k)
        BY <1>5, <2>1 DEF Loaded
    <2> QED
        BY <1>2, <1>5, <2>1, <2>2 DEF Kept
<1>9. phase' \in {"down", "save", "write", "migrate", "serve", "stopping"}
    BY <1>2
<1> QED
    BY <1>2, <1>3, <1>4, <1>6, <1>7, <1>8, <1>9 DEF FileInv

(* It saves them, or a part of the file. *)
LEMMA FileWrite ==
    ASSUME FileInv, Write
    PROVE  FileInv'
<1>1. /\ ~saved /\ Generated /\ Safe(read)
      /\ UNCHANGED <<read, cfg, generated>> /\ phase' = "migrate"
    BY DEF Write, FileInv
<1>2. PICK content \in Config : content = Persist(read, cfg)
    BY <1>1, PersistIsFile DEF FileInv, Generated, Config
<1>3. CASE file' = content /\ saved' = TRUE
    <2>1. Kept'
        BY <1>1, <1>2, <1>3 DEF Kept, Generated
    <2> QED
        BY <1>1, <1>3, <2>1 DEF FileInv
<1>4. ASSUME NEW n \in Cuts, n < Len(content), file' = SubSeq(content, 1, n), saved' = saved
      PROVE  FileInv'
    <2>1. file' \in Config
        BY <1>4, Bounds, CutIsFile
    <2> QED
        BY <1>1, <1>4, <2>1 DEF FileInv
<1> QED
    BY <1>2, <1>3, <1>4 DEF Write

(* Nothing else touches the file. *)
LEMMA FileNext ==
    ASSUME FileInv, [Next]_vars
    PROVE  FileInv'
<1>1. CASE Start
    BY <1>1, FileStart
<1>2. CASE Truncate
    <2>1. /\ ~saved /\ Generated /\ Safe(read) /\ phase' \in {"write", "migrate"}
          /\ UNCHANGED <<read, cfg, generated, saved>> /\ (file' = <<>> \/ file' = file)
        BY <1>2 DEF Truncate, FileInv
    <2>2. <<>> \in Config
        BY EmptySeq DEF Config
    <2> QED
        BY <2>1, <2>2 DEF FileInv, Generated
<1>3. CASE Write
    BY <1>3, FileWrite
<1>4. ASSUME UNCHANGED conf,
             \/ phase' = phase
             \/ phase' \in {"down", "migrate", "serve", "stopping"}
      PROVE  FileInv'
    BY <1>4 DEF conf, FileInv, Generated, Kept
<1>5. CASE Apply \/ MigrateFails \/ Migrated
    BY <1>4, <1>5 DEF Apply, MigrateFails, Migrated
<1>6. CASE Handle \/ CleanUp \/ TimePasses
    BY <1>4, <1>6 DEF Handle, CleanUp, TimePasses, svars
<1>7. CASE Stop \/ Exit
    BY <1>4, <1>7 DEF Stop, Exit
<1>8. CASE Install
    BY <1>4, <1>8 DEF Install, conf
<1>9. CASE UNCHANGED vars
    BY <1>4, <1>9 DEF vars, svars
<1> QED
    BY <1>1, <1>2, <1>3, <1>5, <1>6, <1>7, <1>8, <1>9 DEF Next

(* What has been saved will be read. *)
LEMMA FileImplies ==
    ASSUME FileInv
    PROVE  SecretsSurvive
<1> SUFFICES ASSUME saved, read # Missing, Workable(read)
             PROVE  /\ Readable(file) /\ \A k \in Secret : Get(file, k) = cfg[k] /\ cfg[k] # 0
                    /\ Settings(file) = Settings(read)
    BY DEF SecretsSurvive
<1>1. Kept /\ cfg \in [Secret -> Nat]
    BY DEF FileInv
<1>2. CASE file = read /\ Readable(read) /\ \A k \in Secret : cfg[k] = Get(read, k) /\ cfg[k] # 0
    BY <1>2
<1>3. CASE file = Persist(read, cfg) /\ Generated
    <2>1. read \in Seq(Line) /\ Readable(read) /\ \A k \in Secret : cfg[k] # 0
        BY <1>3 DEF Generated, Config
    <2>2. Editable(read)
        BY <1>3 DEF Generated, Workable, Complete
    <2>3. /\ Readable(Persist(read, cfg)) /\ Settings(Persist(read, cfg)) = Settings(read)
          /\ \A k \in Secret : Get(Persist(read, cfg), k) = cfg[k]
        BY <1>1, <2>1, <2>2, PersistSaves
    <2> QED
        BY <1>3, <2>1, <2>3
<1> QED
    BY <1>1, <1>2, <1>3 DEF Kept

-----------------------------------------------------------------------------
(* Server: migrations *)

(* The database went through the first migrations, each once and in order. *)
MigrationInv ==
    /\ shipped \in 1..MaxMigrations
    /\ schema \in Seq(Nat) /\ Len(schema) <= MaxMigrations
    /\ \A i \in DOMAIN schema : schema[i] = i
    /\ recorded = DOMAIN schema
    /\ phase \in {"serve", "stopping"} => 1..shipped \subseteq recorded

(* The next one is due. *)
LEMMA MigrationApply ==
    ASSUME MigrationInv, Apply
    PROVE  MigrationInv'
<1>1. PICK n \in Nat : /\ n = Len(schema) /\ recorded = 1..n /\ DOMAIN schema = 1..n
    BY LenProperties DEF MigrationInv
<1>2. PICK m \in Nat : m = shipped /\ m <= MaxMigrations /\ MaxMigrations \in Nat
    BY Bounds DEF MigrationInv
<1>3. Due \in SUBSET Nat /\ Due # {} /\ \A d \in Due : d \in 1..m /\ d \notin 1..n
    BY <1>1, <1>2 DEF Due, Apply
<1>4. Min(Due) \in Due /\ \A d \in Due : Min(Due) <= d
    BY <1>3, MinIs
<1>5. n + 1 \in Due
    <2>1. n + 1 \in 1..m /\ n + 1 \notin 1..n
        <3>1. PICK d \in Nat : d \in 1..m /\ d \notin 1..n
            BY <1>3
        <3> QED
            BY <3>1
    <2> QED
        BY <1>1, <1>2, <2>1 DEF Due
<1>6. Min(Due) = n + 1
    <2>1. PICK d \in Nat : d = Min(Due)
        BY <1>3, <1>4
    <2>2. d \in 1..m /\ d \notin 1..n /\ d <= n + 1
        BY <1>3, <1>4, <1>5, <2>1
    <2> QED
        BY <2>1, <2>2
<1>7. /\ schema' = Append(schema, n + 1) /\ recorded' = recorded \cup {n + 1}
      /\ UNCHANGED <<phase, shipped>> /\ phase = "migrate"
    BY <1>6 DEF Apply
<1>8. /\ schema' \in Seq(Nat) /\ Len(schema') = n + 1 /\ DOMAIN schema' = 1..(n + 1)
      /\ \A i \in 1..n : schema'[i] = schema[i]
      /\ schema'[n + 1] = n + 1
    <2>1. schema \in Seq(Nat) /\ n + 1 \in Nat
        BY DEF MigrationInv
    <2>2. /\ schema' \in Seq(Nat) /\ Len(schema') = n + 1
          /\ \A i \in 1..n : schema'[i] = schema[i]
          /\ schema'[n + 1] = n + 1
        <3>1. Len(schema) = n /\ schema' = Append(schema, n + 1)
            BY <1>1, <1>7
        <3>2. /\ Append(schema, n + 1) \in Seq(Nat)
              /\ Len(Append(schema, n + 1)) = Len(schema) + 1
              /\ \A i \in 1..Len(schema) : Append(schema, n + 1)[i] = schema[i]
              /\ Append(schema, n + 1)[Len(schema) + 1] = n + 1
            BY SMTT(30), <2>1, AppendProperties
        <3> QED
            BY <3>1, <3>2
    <2>3. DOMAIN schema' = 1..(n + 1)
        <3>1. DOMAIN schema' = 1..Len(schema')
            BY <2>2, LenProperties
        <3> QED
            BY <2>2, <3>1
    <2> QED
        BY <2>2, <2>3
<1>9. \A i \in DOMAIN schema' : schema'[i] = i
    <2>1. \A i \in 1..n : schema[i] = i
        BY <1>1 DEF MigrationInv
    <2>2. ASSUME NEW i \in 1..(n + 1) PROVE schema'[i] = i
        <3>1. CASE i = n + 1
            BY ONLY <3>1, <1>8
        <3>2. CASE i # n + 1
            <4>1. i \in 1..n
                BY ONLY <2>2, <3>2, n \in Nat
            <4> QED
                BY ONLY <4>1, <1>8, <2>1
        <3> QED
            BY ONLY <3>1, <3>2
    <2> QED
        BY ONLY <1>8, <2>2
<1>10. recorded' = DOMAIN schema'
    BY <1>1, <1>7, <1>8
<1>11. n + 1 <= MaxMigrations
    BY <1>2, <1>3, <1>5
<1> QED
    BY <1>7, <1>8, <1>9, <1>10, <1>11 DEF MigrationInv

(* A process serves when nothing is due, and no other version is installed
   while it does.                                                           *)
LEMMA MigrationNext ==
    ASSUME MigrationInv, [Next]_vars
    PROVE  MigrationInv'
<1>1. CASE Apply
    BY <1>1, MigrationApply
<1>2. ASSUME UNCHANGED data, phase' \in {"serve", "stopping"} => 1..shipped \subseteq recorded
      PROVE  MigrationInv'
    BY <1>2 DEF data, MigrationInv
<1>3. CASE Start
    BY <1>2, <1>3 DEF Start
<1>4. CASE Truncate \/ Write
    BY <1>2, <1>4 DEF Truncate, Write
<1>5. CASE MigrateFails \/ Exit
    BY <1>2, <1>5 DEF MigrateFails, Exit
<1>6. CASE Migrated
    BY <1>2, <1>6 DEF Migrated, Due
<1>7. CASE Handle \/ CleanUp \/ TimePasses
    BY <1>2, <1>7 DEF Handle, CleanUp, TimePasses, svars, MigrationInv
<1>8. CASE Stop
    BY <1>2, <1>8 DEF Stop, MigrationInv
<1>9. CASE Install
    BY <1>9 DEF Install, MigrationInv
<1>10. CASE UNCHANGED vars
    BY <1>2, <1>10 DEF vars, svars, MigrationInv
<1> QED
    BY <1>1, <1>3, <1>4, <1>5, <1>6, <1>7, <1>8, <1>9, <1>10 DEF Next

-----------------------------------------------------------------------------
(* Server: the theorems *)

(* Nothing is known of the logins at the start. *)
LEMMA GuardStart ==
    ASSUME GInit
    PROVE  GuardInv /\ WaitInv /\ Clean
<1>1. \A r \in Request : req[r] = NoLogin
    BY DEF GInit
<1>2. req \in [Request -> LoginRecord] /\ Logins
    BY <1>1, NoLoginIs DEF GInit, Logins
<1>3. GuardTypes
    BY <1>2, Numbers DEF GInit, GuardTypes
<1>4. ASSUME NEW c \in Client
      PROVE  failures[c] + Cardinality(Pending(c)) <= Threshold + Cardinality(Request) - 1
    <2>1. Pending(c) \subseteq Request
        BY DEF Pending
    <2>2. Cardinality(Pending(c)) \in Nat /\ Cardinality(Pending(c)) <= Cardinality(Request)
          /\ Cardinality(Request) \in Nat
        BY <2>1, LoginsCounted
    <2>3. failures[c] = 0
        BY DEF GInit
    <2> QED
        BY <2>2, <2>3, Numbers
<1>5. WaitInv
    BY DEF GInit, WaitInv
<1>6. Clean
    BY DEF GInit, Clean
<1> QED
    BY <1>3, <1>4, <1>5, <1>6 DEF GuardInv, Bounded

(* Everything that holds in every state of the process. *)
ServerInv == GuardInv /\ WaitInv /\ PayloadInv /\ FileInv /\ MigrationInv

(* By induction over the steps. *)
LEMMA ServerInvHolds ==
    Spec => []ServerInv
<1>1. ASSUME Init PROVE ServerInv
    <2>1. GuardInv /\ WaitInv /\ Clean
        BY <1>1, GuardStart DEF Init
    <2>2. PayloadInv
        <3>1. \A p \in Payload : Known(p) /\ Over(p) /\ accepted[p] <= 1
            BY <2>1 DEF Clean, Known, Over
        <3>2. \A r \in Request : InTime(r)
            BY <2>1, NoLoginIs DEF Clean, InTime
        <3> QED
            BY <2>1, <3>1, <3>2 DEF PayloadInv
    <2>3. FileInv
        <3>1. /\ phase = "down" /\ file \in Given \cup {Missing} /\ read = file /\ generated = 0
              /\ saved = FALSE /\ cfg = [k \in Secret |-> 0]
            BY <1>1 DEF Init
        <3>2. cfg \in [Secret -> Nat] /\ generated \in 0..MaxGenerated
            BY <3>1, Bounds
        <3>3. file \in Config \cup {Missing}
            BY <3>1, Bounds DEF Config
        <3> QED
            BY <3>1, <3>2, <3>3 DEF FileInv
    <2>4. MigrationInv
        <3>1. schema = <<>> /\ recorded = {} /\ shipped \in 1..MaxMigrations /\ phase = "down"
            BY <1>1 DEF Init
        <3>2. schema \in Seq(Nat) /\ Len(schema) = 0 /\ DOMAIN schema = {}
            BY <3>1, EmptySeq
        <3> QED
            BY <3>1, <3>2, Bounds DEF MigrationInv
    <2> QED
        BY <2>1, <2>2, <2>3, <2>4 DEF ServerInv
<1>2. ASSUME ServerInv, [Next]_vars PROVE ServerInv'
    <2>1. GuardNext
        BY <1>2, GuardSteps
    <2> QED
        BY <1>2, <2>1, GuardNextTypes, WaitNext, PayloadsNext, FileNext, MigrationNext DEF ServerInv
<1> QED
    BY <1>1, <1>2, PTL DEF Spec

(* Every variable of the process and of the login guard has values of its
   kind; the failures of an address stay below what logins that passed the
   check together can add.                                                  *)
THEOREM ServerTypes == Spec => []TypeOK
<1>1. ASSUME ServerInv PROVE TypeOK
    <2>0. GuardTypes /\ Bounded /\ FileInv /\ MigrationInv
        BY <1>1 DEF ServerInv, GuardInv
    <2>1. ASSUME NEW c \in Client PROVE failures[c] \in 0..(Threshold + Cardinality(Request) - 1)
        <3>1. Cardinality(Pending(c)) \in Nat /\ Cardinality(Request) \in Nat
            BY LoginsCounted DEF Pending
        <3>2. failures[c] + Cardinality(Pending(c)) <= Threshold + Cardinality(Request) - 1
            BY <2>0 DEF Bounded
        <3>3. failures[c] \in Nat
            BY <2>0 DEF GuardTypes
        <3> QED
            BY <3>1, <3>2, <3>3, Numbers
    <2>2. failures \in [Client -> 0..(Threshold + Cardinality(Request) - 1)]
        BY <2>0, <2>1 DEF GuardTypes
    <2>3. GTypeOK
        BY <2>0, <2>2 DEF GuardTypes, GTypeOK, LoginRecord
    <2>4. recorded \subseteq 1..MaxMigrations /\ shipped \in 1..MaxMigrations
        <3>1. DOMAIN schema = 1..Len(schema) /\ Len(schema) \in Nat /\ Len(schema) <= MaxMigrations
            BY <2>0, LenProperties DEF MigrationInv
        <3> QED
            BY <2>0, <3>1, Bounds DEF MigrationInv
    <2>5. \A k \in Secret : cfg[k] \in Nat
        BY <2>0 DEF FileInv
    <2> QED
        BY <2>0, <2>3, <2>4, <2>5 DEF TypeOK, FileInv
<1> QED
    BY <1>1, ServerInvHolds, PTL

(* persistAuthSecrets leaves a file from which the next process reads the
   secrets this one uses and everything else as it was, in every file it can
   work with, however many lines and sections that has.                     *)
THEOREM ServerSecretsSurvive == Spec => []SecretsSurvive
<1>1. ASSUME ServerInv PROVE SecretsSurvive
    BY <1>1, FileImplies DEF ServerInv
<1> QED
    BY <1>1, ServerInvHolds, PTL

(* migrate takes the database through every migration once and in order, with
   any number of migrations, failures, kills and changes of version, before
   the server serves.                                                       *)
THEOREM ServerMigratesOnce == Spec => []MigratedOnce
<1>1. ASSUME ServerInv PROVE MigratedOnce
    BY <1>1 DEF ServerInv, MigrationInv, MigratedOnce
<1> QED
    BY <1>1, ServerInvHolds, PTL

(* An address that waited as long as RateLimiter told it is let in, for any
   threshold and back-off times that the entries outlive.                   *)
THEOREM ServerWaitIsEnough == Spec => []WaitIsEnough
<1>1. ASSUME ServerInv PROVE WaitIsEnough
    BY <1>1, WaitImplies DEF ServerInv
<1> QED
    BY <1>1, ServerInvHolds, PTL

(* ChallengeService accepts no payload twice, for any number of logins that
   overlap between their steps, any times and any texts of a solution.      *)
THEOREM ServerPayloadOnce == Spec => []PayloadOnce
<1>1. ASSUME ServerInv PROVE PayloadOnce
    BY <1>1 DEF ServerInv, PayloadInv, PayloadOnce
<1> QED
    BY <1>1, ServerInvHolds, PTL
=============================================================================
