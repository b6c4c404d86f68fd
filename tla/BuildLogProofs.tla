--------------------------- MODULE BuildLogProofs ---------------------------
(***************************************************************************)
(* Proofs about BuildLog for any number of connections, writes and any     *)
(* channel capacity.                                                       *)
(***************************************************************************)
EXTENDS BuildLog, SequenceTheorems, TLAPS

(* A channel is in the map exactly until it is closed, and a handler that
   has not subscribed has no channel yet.                                   *)
ChannelInv ==
    /\ subs \subseteq Conn /\ shut \subseteq Conn
    /\ at \in [Conn -> {"idle", "accepted", "replayed", "found", "subscribed",
                        "leaving", "ended"}]
    /\ panics = FALSE
    /\ subs \cap shut = {}
    /\ \A c \in subs : at[c] \in {"subscribed", "leaving"}
    /\ \A c \in shut : at[c] \in {"subscribed", "leaving", "ended"}

(* Every step keeps channels and map in agreement. *)
LEMMA ChannelStep == ChannelInv /\ [Next]_vars => ChannelInv'
<1> SUFFICES ASSUME ChannelInv, [Next]_vars PROVE ChannelInv'
    OBVIOUS
<1> USE DEF ChannelInv
<1>1. CASE InsertRow \/ NoLogFile \/ CreateFile \/ Register \/ Unlist
    BY <1>1 DEF InsertRow, NoLogFile, CreateFile, Register, Unlist, Quietly, conns
<1>2. CASE Write
    BY <1>2 DEF Write, conns
<1>3. CASE Close
    BY <1>3 DEF Close, conns
<1>4. ASSUME NEW c \in Conn, Accept(c) \/ Replay(c) \/ Lookup(c) \/ Hangup(c) \/ SeeClosed(c)
      PROVE  ChannelInv'
    <2>1. CASE Accept(c)
        BY <2>1 DEF Accept, Goto, writer
    <2>2. CASE Replay(c)
        BY <2>2 DEF Replay, Goto, writer
    <2>3. CASE Lookup(c)
        BY <2>3 DEF Lookup, Goto, writer
    <2>4. CASE Hangup(c)
        BY <2>4 DEF Hangup, Goto, writer
    <2>5. CASE SeeClosed(c)
        BY <2>5 DEF SeeClosed, Goto, writer
    <2> QED
        BY <1>4, <2>1, <2>2, <2>3, <2>4, <2>5
<1>5. ASSUME NEW c \in Conn, Subscribe(c) PROVE ChannelInv'
    BY <1>5 DEF Subscribe, Goto
<1>6. ASSUME NEW c \in Conn, Deliver(c) PROVE ChannelInv'
    BY <1>6 DEF Deliver, writer
<1>7. ASSUME NEW c \in Conn, Unsubscribe(c) PROVE ChannelInv'
    <2>1. CASE c \in subs
        <3>1. c \notin shut
            BY <2>1
        <3>2. /\ panics' = FALSE /\ shut' = shut \cup {c} /\ subs' = subs \ {c}
              /\ at' = [at EXCEPT ![c] = "ended"]
            BY <1>7, <2>1, <3>1, Zenon DEF Unsubscribe, Goto
        <3> QED
            BY <3>2
    <2>2. CASE c \notin subs
        BY <1>7, <2>2 DEF Unsubscribe, Goto
    <2> QED
        BY <2>1, <2>2
<1>8. CASE UNCHANGED vars
    BY <1>8 DEF vars, writer, conns
<1> QED
    BY <1>1, <1>2, <1>3, <1>4, <1>5, <1>6, <1>7, <1>8 DEF Next, Build, Serve

(* log.go closes every channel once and never sends on a closed one, however
   Write, Close, Subscribe and Unsubscribe interleave.                      *)
THEOREM NeverPanics == Spec => []NoPanic
<1>1. Init => ChannelInv
    BY DEF Init, ChannelInv
<1>2. ChannelInv => NoPanic
    BY DEF ChannelInv, NoPanic
<1> QED
    BY <1>1, <1>2, ChannelStep, PTL DEF Spec
-----------------------------------------------------------------------------
(* The values of every variable but the flag, which is ChannelInv's. *)
Data ==
    /\ build \in {"none", "inserted", "failed", "created", "listed", "unlisted", "closed"}
    /\ written \in 0..MaxWrites
    /\ file \in Seq(Writes)
    /\ chan \in [Conn -> Seq(Writes)] /\ \A c \in Conn : Len(chan[c]) <= Cap
    /\ got \in [Conn -> Seq(Writes)]
    /\ fin \subseteq Conn /\ slow \subseteq Conn
    /\ since \in [Conn -> 0..MaxWrites]

(* A bounded channel that takes an element stays within its capacity. *)
LEMMA PushFits ==
    ASSUME NEW c \in Conn, NEW w \in Writes, Data
    PROVE  Push(c, w) \in Seq(Writes) /\ Len(Push(c, w)) <= Cap
<1> USE Parameters DEF Data
<1>1. chan[c] \in Seq(Writes) /\ Len(chan[c]) <= Cap /\ Len(chan[c]) \in Nat
    BY LenProperties
<1>2. Append(chan[c], w) \in Seq(Writes) /\ Len(Append(chan[c], w)) = Len(chan[c]) + 1
    BY <1>1, AppendProperties
<1> QED
    BY <1>1, <1>2 DEF Push

(* Taking the head of a channel leaves a shorter one. *)
LEMMA TakeShortens ==
    ASSUME NEW S, NEW s \in Seq(S), s # <<>>
    PROVE  /\ Head(s) \in S /\ Tail(s) \in Seq(S)
           /\ Len(Tail(s)) = Len(s) - 1 /\ Len(s) \in Nat \ {0}
BY HeadTailProperties, EmptySeq, LenProperties

(* Every step keeps the variables in their types. *)
LEMMA DataStep == ChannelInv /\ Data /\ [Next]_vars => Data'
<1> SUFFICES ASSUME ChannelInv, Data, [Next]_vars PROVE Data'
    OBVIOUS
<1> USE Parameters DEF Data
<1>1. ASSUME InsertRow \/ NoLogFile \/ CreateFile \/ Register \/ Unlist PROVE Data'
    BY <1>1 DEF InsertRow, NoLogFile, CreateFile, Register, Unlist, Becomes, Quietly, conns
<1>2. ASSUME Write PROVE Data'
    <2>1. written' \in Writes /\ written' \in 0..MaxWrites
        BY <1>2 DEF Write, Writes
    <2>2. file' \in Seq(Writes)
        <3>1. Append(file, written') \in Seq(Writes)
            BY <2>1, AppendProperties
        <3> QED
            BY <1>2, <3>1 DEF Write
    <2>3. /\ chan' \in [Conn -> Seq(Writes)] /\ \A c \in Conn : Len(chan'[c]) <= Cap
        <3>1. chan' = [c \in Conn |-> IF c \in subs THEN Push(c, written') ELSE chan[c]]
            BY <1>2 DEF Write
        <3>2. \A c \in Conn : /\ Push(c, written') \in Seq(Writes)
                              /\ Len(Push(c, written')) <= Cap
            BY <2>1, PushFits
        <3> QED
            BY <3>1, <3>2
    <2>4. slow' \subseteq Conn
        BY <1>2 DEF Write, ChannelInv
    <2> QED
        BY <1>2, <2>1, <2>2, <2>3, <2>4 DEF Write, conns
<1>3. ASSUME Close PROVE Data'
    BY <1>3 DEF Close, Becomes, conns
<1>4. ASSUME NEW c \in Conn, Accept(c) \/ Replay(c) \/ Lookup(c) \/ Hangup(c) \/ SeeClosed(c)
      PROVE  Data'
    BY <1>4 DEF Accept, Replay, Lookup, Hangup, SeeClosed, writer
<1>5. ASSUME NEW c \in Conn, Subscribe(c) PROVE Data'
    BY <1>5 DEF Subscribe
<1>6. ASSUME NEW c \in Conn, Deliver(c) PROVE Data'
    <2>1. /\ chan[c] \in Seq(Writes) /\ chan[c] # <<>> /\ got[c] \in Seq(Writes)
          /\ Len(chan[c]) <= Cap
        BY <1>6 DEF Deliver
    <2>2. /\ Tail(chan[c]) \in Seq(Writes) /\ Len(Tail(chan[c])) <= Cap
          /\ Append(got[c], Head(chan[c])) \in Seq(Writes)
        BY <2>1, TakeShortens, AppendProperties
    <2> QED
        BY <1>6, <2>2 DEF Deliver, writer
<1>7. ASSUME NEW c \in Conn, Unsubscribe(c) PROVE Data'
    BY <1>7 DEF Unsubscribe
<1>8. CASE UNCHANGED vars
    BY <1>8 DEF vars, writer, conns
<1> QED
    BY <1>1, <1>2, <1>3, <1>4, <1>5, <1>6, <1>7, <1>8 DEF Next, Build, Serve

(* Whatever is sent, buffered or logged, every variable has values of its
   kind, and no channel holds more than its capacity.                       *)
THEOREM LogTypes == Spec => []TypeOK
<1>1. Init => ChannelInv /\ Data
    BY Parameters DEF Init, ChannelInv, Data
<1>2. ChannelInv /\ Data => TypeOK
    BY Zenon DEF ChannelInv, Data, TypeOK
<1> QED
    BY <1>1, <1>2, ChannelStep, DataStep, PTL DEF Spec
-----------------------------------------------------------------------------
(* A sequence of writes in the order they were made, and one that ends
   before a write.                                                          *)
Increasing(s) == \A i, j \in DOMAIN s : i < j => s[i] < s[j]

UpTo(s, w) == \A i \in DOMAIN s : s[i] <= w

(* What a client was sent comes before what waits for it in its channel. *)
Before(s, t) == \A i \in DOMAIN s, j \in DOMAIN t : s[i] < t[j]

OrderInv ==
    /\ Increasing(file) /\ UpTo(file, written)
    /\ \A c \in Conn : /\ Increasing(got[c]) /\ UpTo(got[c], written)
                       /\ Increasing(chan[c]) /\ UpTo(chan[c], written)
                       /\ Before(got[c], chan[c])
                       /\ at[c] \in {"idle", "accepted", "replayed", "found"} => chan[c] = <<>>

(* The next write goes to the end of an increasing sequence. *)
LEMMA AppendKeepsOrder ==
    ASSUME NEW s \in Seq(Writes), NEW v \in Nat, NEW w \in Writes, v < w,
           Increasing(s), UpTo(s, v)
    PROVE  Increasing(Append(s, w)) /\ UpTo(Append(s, w), w)
<1>1. DOMAIN s = 1..Len(s) /\ Len(s) \in Nat /\ \A i \in 1..Len(s) : s[i] \in Writes
    BY LenProperties, ElementOfSeq
<1>2. /\ DOMAIN Append(s, w) = 1..(Len(s) + 1)
      /\ \A i \in 1..Len(s) : Append(s, w)[i] = s[i]
      /\ Append(s, w)[Len(s) + 1] = w
    BY AppendProperties, LenProperties
<1> QED
    BY <1>1, <1>2 DEF Increasing, UpTo, Writes

(* A bound on a sequence stays one when it grows. *)
LEMMA UpToMonotone ==
    ASSUME NEW s \in Seq(Writes), NEW v \in Nat, NEW w \in Nat, v <= w, UpTo(s, v)
    PROVE  UpTo(s, w)
<1>1. DOMAIN s = 1..Len(s) /\ \A i \in 1..Len(s) : s[i] \in Writes
    BY LenProperties, ElementOfSeq
<1> QED
    BY <1>1 DEF UpTo, Writes

(* What was sent stays before a channel that takes the next write. *)
LEMMA AppendKeepsBefore ==
    ASSUME NEW s \in Seq(Writes), NEW t \in Seq(Writes), NEW v \in Nat, NEW w \in Writes,
           v < w, UpTo(s, v), Before(s, t)
    PROVE  Before(s, Append(t, w))
<1>1. /\ DOMAIN s = 1..Len(s) /\ \A i \in 1..Len(s) : s[i] \in Writes
      /\ DOMAIN t = 1..Len(t) /\ Len(t) \in Nat /\ \A i \in 1..Len(t) : t[i] \in Writes
    BY LenProperties, ElementOfSeq
<1>2. /\ DOMAIN Append(t, w) = 1..(Len(t) + 1)
      /\ \A i \in 1..Len(t) : Append(t, w)[i] = t[i]
      /\ Append(t, w)[Len(t) + 1] = w
    BY AppendProperties, LenProperties
<1> QED
    BY <1>1, <1>2 DEF Before, UpTo, Writes

(* The head of the channel goes after what was sent and before what waits. *)
LEMMA TakeKeepsOrder ==
    ASSUME NEW s \in Seq(Writes), NEW t \in Seq(Writes), t # <<>>, NEW v \in Nat,
           Increasing(s), UpTo(s, v), Increasing(t), UpTo(t, v), Before(s, t)
    PROVE  /\ Increasing(Append(s, Head(t))) /\ UpTo(Append(s, Head(t)), v)
           /\ Increasing(Tail(t)) /\ UpTo(Tail(t), v)
           /\ Before(Append(s, Head(t)), Tail(t))
<1> DEFINE n == Len(s)  m == Len(t)
<1>1. /\ DOMAIN s = 1..n /\ n \in Nat /\ \A i \in 1..n : s[i] \in Writes
      /\ DOMAIN t = 1..m /\ m \in Nat \ {0} /\ \A i \in 1..m : t[i] \in Writes
    BY LenProperties, ElementOfSeq, EmptySeq
<1>2. /\ Head(t) = t[1] /\ Head(t) \in Writes
      /\ Tail(t) \in Seq(Writes) /\ Len(Tail(t)) = m - 1
      /\ \A i \in 1..(m - 1) : Tail(t)[i] = t[i + 1]
    BY <1>1, HeadTailProperties
<1>3. DOMAIN Tail(t) = 1..(m - 1)
    BY <1>2, LenProperties
<1>4. /\ DOMAIN Append(s, Head(t)) = 1..(n + 1)
      /\ \A i \in 1..n : Append(s, Head(t))[i] = s[i]
      /\ Append(s, Head(t))[n + 1] = t[1]
    BY <1>2, AppendProperties, LenProperties
<1> HIDE DEF n, m
<1>5. Increasing(Append(s, Head(t))) /\ UpTo(Append(s, Head(t)), v)
    <2>1. ASSUME NEW i \in 1..(n + 1), NEW j \in 1..(n + 1), i < j
          PROVE  Append(s, Head(t))[i] < Append(s, Head(t))[j]
        <3>1. i \in 1..n
            BY <1>1, <2>1
        <3>2. CASE j \in 1..n
            BY <1>1, <1>4, <2>1, <3>1, <3>2 DEF Increasing
        <3>3. CASE j = n + 1
            BY <1>1, <1>4, <3>1, <3>3 DEF Before
        <3> QED
            BY <1>1, <3>2, <3>3
    <2>2. ASSUME NEW i \in 1..(n + 1) PROVE Append(s, Head(t))[i] <= v
        <3>1. CASE i \in 1..n
            BY <1>1, <1>4, <3>1 DEF UpTo
        <3>2. CASE i = n + 1
            BY <1>1, <1>4, <3>2 DEF UpTo
        <3> QED
            BY <1>1, <3>1, <3>2
    <2> QED
        BY <1>4, <2>1, <2>2 DEF Increasing, UpTo
<1>6. Increasing(Tail(t)) /\ UpTo(Tail(t), v)
    BY <1>1, <1>2, <1>3 DEF Increasing, UpTo
<1>7. Before(Append(s, Head(t)), Tail(t))
    <2> SUFFICES ASSUME NEW i \in 1..(n + 1), NEW j \in 1..(m - 1)
                 PROVE  Append(s, Head(t))[i] < Tail(t)[j]
        BY <1>3, <1>4 DEF Before
    <2>1. Tail(t)[j] = t[j + 1] /\ j + 1 \in 1..m
        BY <1>1, <1>2
    <2>2. CASE i = n + 1
        BY <1>1, <1>4, <2>1, <2>2 DEF Increasing
    <2>3. CASE i \in 1..n
        BY <1>1, <1>4, <2>1, <2>3 DEF Before
    <2> QED
        BY <1>1, <2>2, <2>3
<1> QED
    BY <1>5, <1>6, <1>7

(* Every step keeps file, channels and what was sent in order. *)
LEMMA OrderStep == ChannelInv /\ Data /\ OrderInv /\ [Next]_vars => OrderInv'
<1> SUFFICES ASSUME ChannelInv, Data, OrderInv, [Next]_vars PROVE OrderInv'
    OBVIOUS
<1>0. /\ written \in Nat /\ file \in Seq(Writes)
      /\ \A c \in Conn : got[c] \in Seq(Writes) /\ chan[c] \in Seq(Writes)
      /\ at \in [Conn -> {"idle", "accepted", "replayed", "found", "subscribed",
                          "leaving", "ended"}]
    BY Parameters DEF Data, ChannelInv
<1>1. ASSUME InsertRow \/ NoLogFile \/ CreateFile \/ Register \/ Unlist PROVE OrderInv'
    BY <1>1 DEF OrderInv, InsertRow, NoLogFile, CreateFile, Register, Unlist, Quietly, conns
<1>2. ASSUME Write PROVE OrderInv'
    <2>1. /\ written' = written + 1 /\ written' \in Writes /\ written' \in Nat
          /\ written < written'
        <3>1. written' = written + 1 /\ written < MaxWrites
            BY <1>2 DEF Write
        <3> QED
            BY <1>0, <3>1, Parameters DEF Writes
    <2>2. Increasing(file') /\ UpTo(file', written')
        <3>1. Increasing(Append(file, written')) /\ UpTo(Append(file, written'), written')
            BY <1>0, <2>1, AppendKeepsOrder DEF OrderInv
        <3>2. UpTo(file, written')
            BY <1>0, <2>1, UpToMonotone DEF OrderInv
        <3>3. file' = Append(file, written') \/ file' = file
            BY <1>2 DEF Write
        <3> QED
            BY <3>1, <3>2, <3>3 DEF OrderInv
    <2>3. got' = got /\ at' = at
        BY <1>2 DEF Write, conns
    <2>4. ASSUME NEW c \in Conn
          PROVE  /\ UpTo(got[c], written')
                 /\ Increasing(chan'[c]) /\ UpTo(chan'[c], written')
                 /\ Before(got[c], chan'[c])
                 /\ at[c] \in {"idle", "accepted", "replayed", "found"} => chan'[c] = <<>>
        <3>1. /\ Increasing(got[c]) /\ UpTo(got[c], written)
              /\ Increasing(chan[c]) /\ UpTo(chan[c], written)
              /\ Before(got[c], chan[c])
              /\ at[c] \in {"idle", "accepted", "replayed", "found"} => chan[c] = <<>>
            BY DEF OrderInv
        <3>2. UpTo(got[c], written') /\ UpTo(chan[c], written')
            BY <1>0, <2>1, <3>1, UpToMonotone
        <3>3. chan'[c] = chan[c] \/ (c \in subs /\ chan'[c] = Append(chan[c], written'))
            BY <1>2 DEF Write, Push
        <3>4. CASE chan'[c] = chan[c]
            BY <3>1, <3>2, <3>4
        <3>5. CASE c \in subs /\ chan'[c] = Append(chan[c], written')
            <4>1. at[c] \in {"subscribed", "leaving"}
                BY <3>5 DEF ChannelInv
            <4>2. Increasing(chan'[c]) /\ UpTo(chan'[c], written')
                BY <1>0, <2>1, <3>1, <3>5, AppendKeepsOrder
            <4>3. Before(got[c], chan'[c])
                BY <1>0, <2>1, <3>1, <3>5, AppendKeepsBefore
            <4> QED
                BY <3>2, <4>1, <4>2, <4>3
        <3> QED
            BY <3>3, <3>4, <3>5
    <2> QED
        BY <2>2, <2>3, <2>4 DEF OrderInv
<1>3. ASSUME Close PROVE OrderInv'
    BY <1>3 DEF OrderInv, Close, conns
<1>4. ASSUME NEW c \in Conn, Accept(c) \/ Lookup(c) \/ Hangup(c) \/ SeeClosed(c)
                              \/ Subscribe(c) \/ Unsubscribe(c)
      PROVE  OrderInv'
    <2>1. /\ written' = written /\ file' = file /\ got' = got /\ chan' = chan
          /\ \A d \in Conn : at'[d] \in {"idle", "accepted", "replayed", "found"} =>
                             at[d] \in {"idle", "accepted", "replayed", "found"}
        BY <1>0, <1>4 DEF Accept, Lookup, Hangup, SeeClosed, Subscribe, Unsubscribe, Goto, writer
    <2> QED
        BY <2>1 DEF OrderInv
<1>5. ASSUME NEW c \in Conn, Replay(c) PROVE OrderInv'
    <2>1. /\ written' = written /\ file' = file /\ chan' = chan /\ chan[c] = <<>>
          /\ got' = [got EXCEPT ![c] = file] /\ at' = [at EXCEPT ![c] = "replayed"]
        BY <1>5 DEF Replay, Goto, writer, OrderInv
    <2>2. \A d \in Conn : got'[d] = IF d = c THEN file ELSE got[d]
        BY <2>1 DEF Data
    <2>3. Before(file, <<>>)
        BY DEF Before
    <2>4. \A d \in Conn : d # c => at'[d] = at[d]
        BY <1>0, <2>1
    <2> QED
        BY <2>1, <2>2, <2>3, <2>4 DEF OrderInv
<1>6. ASSUME NEW c \in Conn, Deliver(c) PROVE OrderInv'
    <2>1. /\ written' = written /\ file' = file /\ at' = at /\ chan[c] # <<>>
          /\ got' = [got EXCEPT ![c] = Append(got[c], Head(chan[c]))]
          /\ chan' = [chan EXCEPT ![c] = Tail(chan[c])]
          /\ at[c] = "subscribed"
        BY <1>6 DEF Deliver, writer
    <2>2. /\ got'[c] = Append(got[c], Head(chan[c])) /\ chan'[c] = Tail(chan[c])
          /\ \A d \in Conn : d # c => got'[d] = got[d] /\ chan'[d] = chan[d]
        BY <2>1 DEF Data
    <2>3. /\ Increasing(got[c]) /\ UpTo(got[c], written)
          /\ Increasing(chan[c]) /\ UpTo(chan[c], written)
          /\ Before(got[c], chan[c])
        BY DEF OrderInv
    <2>4. /\ Increasing(got'[c]) /\ UpTo(got'[c], written)
          /\ Increasing(chan'[c]) /\ UpTo(chan'[c], written)
          /\ Before(got'[c], chan'[c])
        BY <1>0, <2>1, <2>2, <2>3, TakeKeepsOrder
    <2> QED
        BY <2>1, <2>2, <2>4 DEF OrderInv
<1>7. CASE UNCHANGED vars
    BY <1>7 DEF OrderInv, vars, writer, conns
<1> QED
    BY <1>1, <1>2, <1>3, <1>4, <1>5, <1>6, <1>7 DEF Next, Build, Serve

(* Two increasing sequences, one before the other, are one when joined. *)
LEMMA JoinKeepsOrder ==
    ASSUME NEW s \in Seq(Writes), NEW t \in Seq(Writes),
           Increasing(s), Increasing(t), Before(s, t)
    PROVE  Increasing(s \o t)
<1> DEFINE n == Len(s)  m == Len(t)
<1>1. DOMAIN s = 1..n /\ n \in Nat /\ DOMAIN t = 1..m /\ m \in Nat
    BY LenProperties
<1>2. /\ DOMAIN (s \o t) = 1..(n + m)
      /\ \A i \in 1..(n + m) : (s \o t)[i] = IF i <= n THEN s[i] ELSE t[i - n]
    BY <1>1, ConcatProperties, LenProperties
<1> HIDE DEF n, m
<1> SUFFICES ASSUME NEW i \in 1..(n + m), NEW j \in 1..(n + m), i < j
             PROVE  (s \o t)[i] < (s \o t)[j]
    BY <1>2 DEF Increasing
<1>3. CASE j <= n
    BY <1>1, <1>2, <1>3 DEF Increasing
<1>4. CASE i <= n /\ n < j
    <2>1. (s \o t)[i] = s[i] /\ (s \o t)[j] = t[j - n] /\ i \in 1..n /\ j - n \in 1..m
        BY <1>1, <1>2, <1>4
    <2> QED
        BY <1>1, <2>1 DEF Before
<1>5. CASE n < i
    <2>1. /\ (s \o t)[i] = t[i - n] /\ (s \o t)[j] = t[j - n]
          /\ i - n \in 1..m /\ j - n \in 1..m /\ i - n < j - n
        BY <1>1, <1>2, <1>5
    <2> QED
        BY <1>1, <2>1 DEF Increasing
<1> QED
    BY <1>1, <1>3, <1>4, <1>5

(* The replay of the file and the live messages after it never show a line
   twice or out of order: Write appends to the file before it broadcasts,
   and a handler subscribes only after it has read the file.                *)
THEOREM LogInOrder == Spec => []InOrder
<1>1. Init => OrderInv
    BY DEF Init, OrderInv, Increasing, UpTo, Before
<1>2. Data /\ OrderInv => InOrder
    <2> SUFFICES ASSUME Data, OrderInv, NEW c \in Conn PROVE Increasing(got[c] \o chan[c])
        BY DEF InOrder, Increasing
    <2>1. got[c] \in Seq(Writes) /\ chan[c] \in Seq(Writes)
        BY DEF Data
    <2> QED
        BY <2>1, JoinKeepsOrder DEF OrderInv
<1>3. Init => ChannelInv /\ Data
    BY Parameters DEF Init, ChannelInv, Data
<1> QED
    BY <1>1, <1>2, <1>3, ChannelStep, DataStep, OrderStep, PTL DEF Spec

-----------------------------------------------------------------------------
(* What a client was sent or will be sent once it reads on. *)
Seen(c) == ToSet(got[c]) \cup ToSet(chan[c])

(* The writes a client must see: those after it subscribed. *)
Due(c) == {w \in Writes : since[c] < w /\ w <= written}

(* A client is owed the writes after it subscribed for as long as it reads,
   and when it was told that the build finished.                            *)
Owed(c) == c \in subs \/ (c \in shut /\ (at[c] = "subscribed" \/ c \in fin))

TailInv ==
    /\ \A c \in Conn : Owed(c) /\ c \notin slow => Due(c) \subseteq Seen(c)
    /\ \A c \in fin : c \notin subs /\ at[c] \in {"leaving", "ended"}
    /\ \A c \in fin : c \in shut => chan[c] = <<>>
    /\ \A c \in shut : at[c] = "subscribed" \/ c \in fin => build = "closed"

(* Appending adds one element, taking the head moves one. *)
LEMMA AppendSet ==
    ASSUME NEW S, NEW s \in Seq(S), NEW w \in S
    PROVE  ToSet(Append(s, w)) = ToSet(s) \cup {w}
<1>1. /\ DOMAIN s = 1..Len(s) /\ Len(s) \in Nat
      /\ DOMAIN Append(s, w) = 1..(Len(s) + 1)
      /\ \A i \in 1..Len(s) : Append(s, w)[i] = s[i]
      /\ Append(s, w)[Len(s) + 1] = w
    BY AppendProperties, LenProperties
<1>2. 1..(Len(s) + 1) = 1..Len(s) \cup {Len(s) + 1}
    BY <1>1
<1> QED
    BY <1>1, <1>2 DEF ToSet

(* Taking the head of a channel leaves the rest. *)
LEMMA TakeSet ==
    ASSUME NEW S, NEW t \in Seq(S), t # <<>>
    PROVE  ToSet(t) = {Head(t)} \cup ToSet(Tail(t))
<1>1. /\ DOMAIN t = 1..Len(t) /\ Len(t) \in Nat \ {0}
      /\ Head(t) = t[1] /\ DOMAIN Tail(t) = 1..(Len(t) - 1)
      /\ \A i \in 1..(Len(t) - 1) : Tail(t)[i] = t[i + 1]
    BY HeadTailProperties, LenProperties, EmptySeq
<1>2. ToSet(Tail(t)) = {t[i] : i \in 2..Len(t)}
    <2>1. \A i \in 2..Len(t) : i - 1 \in 1..(Len(t) - 1) /\ t[i] = Tail(t)[i - 1]
        BY <1>1
    <2>2. \A i \in 1..(Len(t) - 1) : i + 1 \in 2..Len(t) /\ Tail(t)[i] = t[i + 1]
        BY <1>1
    <2>3. ToSet(Tail(t)) = {Tail(t)[i] : i \in 1..(Len(t) - 1)}
        BY <1>1 DEF ToSet
    <2>4. ASSUME NEW x \in ToSet(Tail(t)) PROVE x \in {t[i] : i \in 2..Len(t)}
        <3>1. PICK i \in 1..(Len(t) - 1) : x = Tail(t)[i]
            BY <2>3
        <3>2. i + 1 \in 2..Len(t) /\ x = t[i + 1]
            BY <3>1, <2>2
        <3> QED
            BY <3>2
    <2>5. ASSUME NEW x \in {t[i] : i \in 2..Len(t)} PROVE x \in ToSet(Tail(t))
        <3>1. PICK i \in 2..Len(t) : x = t[i]
            OBVIOUS
        <3>2. i - 1 \in 1..(Len(t) - 1) /\ x = Tail(t)[i - 1]
            BY <3>1, <2>1
        <3> QED
            BY <2>3, <3>2
    <2> QED
        BY <2>4, <2>5
<1>3. 1..Len(t) = {1} \cup 2..Len(t)
    BY <1>1
<1> QED
    BY <1>1, <1>2, <1>3 DEF ToSet

(* Every step keeps what is owed within what is sent or buffered. *)
LEMMA TailStep == ChannelInv /\ Data /\ TailInv /\ [Next]_vars => TailInv'
<1> SUFFICES ASSUME ChannelInv, Data, TailInv, [Next]_vars PROVE TailInv'
    OBVIOUS
<1>0. /\ written \in Nat /\ since \in [Conn -> 0..MaxWrites]
      /\ \A c \in Conn : got[c] \in Seq(Writes) /\ chan[c] \in Seq(Writes)
      /\ at \in [Conn -> {"idle", "accepted", "replayed", "found", "subscribed",
                          "leaving", "ended"}]
      /\ subs \cap shut = {} /\ subs \subseteq Conn /\ shut \subseteq Conn /\ fin \subseteq Conn
      /\ \A c \in subs : at[c] \in {"subscribed", "leaving"}
      /\ \A c \in shut : at[c] \in {"subscribed", "leaving", "ended"}
    BY Parameters DEF Data, ChannelInv
<1> USE DEF TailInv, Owed
<1>1. ASSUME InsertRow \/ NoLogFile \/ CreateFile \/ Register \/ Unlist PROVE TailInv'
    <2>1. /\ UNCHANGED <<written, subs, shut, at, fin, slow>>
          /\ got' = got /\ chan' = chan /\ since' = since
        BY <1>1 DEF InsertRow, NoLogFile, CreateFile, Register, Unlist, Quietly, conns
    <2>2. build # "closed"
        BY <1>1 DEF InsertRow, NoLogFile, CreateFile, Register, Unlist, Becomes
    <2> QED
        BY <2>1, <2>2 DEF Due, Seen
<1>2. ASSUME Write PROVE TailInv'
    <2>1. /\ build = "listed" /\ build' = build /\ UNCHANGED <<subs, shut, at, fin>>
          /\ got' = got /\ since' = since
          /\ slow' = slow \cup {c \in subs : Len(chan[c]) >= Cap}
          /\ written' = written + 1
          /\ chan' = [c \in Conn |-> IF c \in subs THEN Push(c, written') ELSE chan[c]]
        BY <1>2 DEF Write, conns
    <2>2. written' \in Writes
        BY <1>0, <1>2, Parameters DEF Write, Writes
    <2>3. ASSUME NEW c \in Conn, Owed(c)', c \notin slow' PROVE Due(c)' \subseteq Seen(c)'
        <3>1. c \in subs /\ Owed(c)
            BY <1>0, <2>1, <2>3
        <3>2. Len(chan[c]) \in Nat /\ Len(chan[c]) < Cap /\ c \notin slow
            BY <1>0, <2>1, <2>3, <3>1, LenProperties, Parameters
        <3>3. chan'[c] = Append(chan[c], written')
            BY <2>1, <3>1, <3>2 DEF Push
        <3>4. ToSet(chan'[c]) = ToSet(chan[c]) \cup {written'}
            BY <1>0, <2>2, <3>3, AppendSet
        <3>5. Due(c)' \subseteq Due(c) \cup {written'}
            <4> SUFFICES ASSUME NEW w \in Writes, since[c] < w, w <= written + 1, w # written + 1
                         PROVE  w <= written
                BY <2>1 DEF Due
            <4> QED
                BY <1>0 DEF Writes
        <3>6. Due(c) \subseteq Seen(c)
            BY <3>1, <3>2
        <3>7. Seen(c)' = Seen(c) \cup {written'}
            BY <2>1, <3>4 DEF Seen
        <3> QED
            BY <3>5, <3>6, <3>7
    <2>4. \A c \in fin : chan'[c] = chan[c]
        BY <1>0, <2>1
    <2> QED
        BY <2>1, <2>3, <2>4
<1>3. ASSUME Close PROVE TailInv'
    <2>1. /\ build' = "closed" /\ shut' = shut \cup subs /\ subs' = {}
          /\ UNCHANGED <<written, at, fin, slow>>
          /\ got' = got /\ chan' = chan /\ since' = since
        BY <1>3 DEF Close, Becomes, conns
    <2> QED
        BY <1>0, <2>1 DEF Due, Seen
<1>4. ASSUME NEW c \in Conn, Accept(c) \/ Lookup(c) \/ Hangup(c) PROVE TailInv'
    <2>1. /\ UNCHANGED <<build, written, subs, shut, slow>>
          /\ got' = got /\ chan' = chan /\ since' = since
        BY <1>4 DEF Accept, Lookup, Hangup, writer
    <2>2. \/ /\ at[c] = "idle" /\ at' = [at EXCEPT ![c] = "accepted"] /\ fin' = fin
          \/ /\ at[c] = "replayed" /\ at' = [at EXCEPT ![c] = "found"] /\ fin' = fin
          \/ /\ at[c] = "replayed" /\ at' = [at EXCEPT ![c] = "ended"] /\ fin' = fin \cup {c}
          \/ /\ at[c] = "subscribed" /\ at' = [at EXCEPT ![c] = "leaving"] /\ fin' = fin
        BY <1>4, Zenon DEF Accept, Lookup, Hangup, Goto
    <2>3. \A d \in Conn : Due(d)' = Due(d) /\ Seen(d)' = Seen(d)
        BY <2>1 DEF Due, Seen
    <2> QED
        BY <1>0, <2>1, <2>2, <2>3
<1>5. ASSUME NEW c \in Conn, Replay(c) PROVE TailInv'
    <2>1. /\ at[c] = "accepted" /\ at' = [at EXCEPT ![c] = "replayed"]
          /\ got' = [got EXCEPT ![c] = file]
          /\ UNCHANGED <<build, written, subs, shut, slow, fin>>
          /\ chan' = chan /\ since' = since
        BY <1>5 DEF Replay, Goto, writer
    <2>2. \A d \in Conn : d # c => Due(d)' = Due(d) /\ Seen(d)' = Seen(d)
        BY <2>1 DEF Due, Seen
    <2>3. c \notin subs /\ c \notin shut /\ c \notin fin
        BY <1>0, <2>1
    <2> QED
        BY <1>0, <2>1, <2>2, <2>3
<1>6. ASSUME NEW c \in Conn, Subscribe(c) PROVE TailInv'
    <2>1. /\ at[c] = "found" /\ at' = [at EXCEPT ![c] = "subscribed"]
          /\ subs' = subs \cup {c} /\ since' = [since EXCEPT ![c] = written]
          /\ UNCHANGED <<build, written, shut, slow, fin>>
          /\ chan' = chan /\ got' = got
        BY <1>6 DEF Subscribe, Goto
    <2>2. \A d \in Conn : d # c => Due(d)' = Due(d) /\ Seen(d)' = Seen(d)
        BY <2>1 DEF Due, Seen
    <2>3. Due(c)' = {}
        BY <1>0, <2>1 DEF Due, Writes
    <2>4. c \notin shut /\ c \notin fin
        BY <1>0, <2>1
    <2> QED
        BY <1>0, <2>1, <2>2, <2>3, <2>4
<1>7. ASSUME NEW c \in Conn, Deliver(c) PROVE TailInv'
    <2>1. /\ at[c] = "subscribed" /\ chan[c] # <<>>
          /\ got' = [got EXCEPT ![c] = Append(got[c], Head(chan[c]))]
          /\ chan' = [chan EXCEPT ![c] = Tail(chan[c])]
          /\ UNCHANGED <<build, written, subs, shut, slow, fin, at>> /\ since' = since
        BY <1>7 DEF Deliver, writer
    <2>2. \A d \in Conn : d # c => chan'[d] = chan[d] /\ Seen(d)' = Seen(d)
        BY <2>1 DEF Seen
    <2>3. got'[c] = Append(got[c], Head(chan[c])) /\ chan'[c] = Tail(chan[c])
        BY <2>1 DEF Data
    <2>4. /\ Head(chan[c]) \in Writes
          /\ ToSet(chan[c]) = {Head(chan[c])} \cup ToSet(Tail(chan[c]))
        BY <1>0, <2>1, TakeShortens, TakeSet
    <2>5. ToSet(got'[c]) = ToSet(got[c]) \cup {Head(chan[c])}
        BY <1>0, <2>3, <2>4, AppendSet
    <2>6. Seen(c)' = Seen(c)
        BY <2>3, <2>4, <2>5 DEF Seen
    <2>7. \A d \in Conn : Due(d)' = Due(d)
        BY <2>1 DEF Due
    <2>8. \A d \in fin : chan'[d] = chan[d]
        BY <1>0, <2>1, <2>2
    <2>9. \A d \in Conn : Seen(d)' = Seen(d) /\ (Owed(d)' <=> Owed(d))
        BY <2>1, <2>2, <2>6
    <2> QED
        BY <2>1, <2>7, <2>8, <2>9
<1>8. ASSUME NEW c \in Conn, SeeClosed(c) PROVE TailInv'
    <2>1. /\ at[c] = "subscribed" /\ c \in shut /\ chan[c] = <<>>
          /\ fin' = fin \cup {c} /\ at' = [at EXCEPT ![c] = "leaving"]
          /\ UNCHANGED <<build, written, subs, shut, slow>>
          /\ got' = got /\ chan' = chan /\ since' = since
        BY <1>8 DEF SeeClosed, Goto, writer
    <2>2. \A d \in Conn : Due(d)' = Due(d) /\ Seen(d)' = Seen(d)
        BY <2>1 DEF Due, Seen
    <2> QED
        BY <1>0, <2>1, <2>2
<1>9. ASSUME NEW c \in Conn, Unsubscribe(c) PROVE TailInv'
    <2>1. /\ at[c] = "leaving" /\ at' = [at EXCEPT ![c] = "ended"]
          /\ UNCHANGED <<build, written, slow, fin>>
          /\ got' = got /\ chan' = chan /\ since' = since
          /\ \/ c \in subs /\ shut' = shut \cup {c} /\ subs' = subs \ {c}
             \/ c \notin subs /\ shut' = shut /\ subs' = subs
        BY <1>9 DEF Unsubscribe, Goto
    <2>2. \A d \in Conn : Due(d)' = Due(d) /\ Seen(d)' = Seen(d)
        BY <2>1 DEF Due, Seen
    <2> QED
        BY <1>0, <2>1, <2>2
<1>10. CASE UNCHANGED vars
    BY <1>10 DEF vars, writer, conns, Due, Seen
<1> QED
    BY <1>1, <1>2, <1>3, <1>4, <1>5, <1>6, <1>7, <1>8, <1>9, <1>10 DEF Next, Build, Serve

(* A client that is told that the build finished got every write since it
   subscribed, unless its channel was full at one of them: the channel is
   closed after the last write and drained before the client is told.       *)
THEOREM LogTailComplete == Spec => []TailComplete
<1>1. Init => TailInv
    BY DEF Init, TailInv, Owed
<1>2. Data /\ TailInv => TailComplete
    <2> SUFFICES ASSUME Data, TailInv, NEW c \in fin \ slow, c \in shut
                 PROVE  Due(c) \subseteq ToSet(got[c])
        BY DEF TailComplete, Due
    <2>1. c \in Conn /\ chan[c] = <<>> /\ Due(c) \subseteq Seen(c)
        BY DEF Data, TailInv, Owed
    <2>2. ToSet(<<>>) = {}
        BY DEF ToSet
    <2> QED
        BY <2>1, <2>2 DEF Seen
<1>3. Init => ChannelInv /\ Data
    BY Parameters DEF Init, ChannelInv, Data
<1> QED
    BY <1>1, <1>2, <1>3, ChannelStep, DataStep, TailStep, PTL DEF Spec
=============================================================================
