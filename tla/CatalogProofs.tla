---------------------------- MODULE CatalogProofs ----------------------------
(***************************************************************************)
(* Proofs about GpgKeys and Catalog for any keys, requests, products and   *)
(* faults.                                                                 *)
(***************************************************************************)
EXTENDS Catalog, TLAPS

RequestRecord ==
    [op : {"none", "add", "drop"}, at : {"idle", "list", "look", "insert", "key", "row"},
     fp : Key \cup {None}, id : Id \cup {0}, clean : BOOLEAN]

(* A request is after a key from its first step to its last, and a deletion
   keeps the id of a row, which nobody uses for another key.                *)
Shape(c) ==
    /\ request[c].op # "none" <=> request[c].fp \in Key
    /\ request[c].at = "idle" => request[c] = Idle
    /\ request[c].at \in {"list", "look", "insert"} => request[c].op = "add"
    /\ request[c].at \in {"key", "row"} => request[c].op = "drop"
    /\ request[c].op = "drop" =>
          request[c].id \in 1..last /\ row[request[c].id] \in {request[c].fp, None}

KeyTypes ==
    /\ keyring \subseteq Key
    /\ row \in [Id -> Key \cup {None}] /\ last \in 0..MaxRows
    /\ generated \subseteq Own
    /\ request \in [Client -> RequestRecord]
    /\ mixed \subseteq Key
    /\ \A c \in Client : Shape(c)

(* Ids are given out in order, and a fingerprint has one row. *)
Table ==
    /\ \A i \in Rows : i <= last
    /\ \A i, j \in Rows : row[i] = row[j] => i = j

(* A key file has a first key, and names keys only. *)
LEMMA FileIs ==
    ASSUME NEW file \in File
    PROVE  ToSet(file) \subseteq Key /\ Reported(file) \in ToSet(file)
<1>1. CASE \E f \in Key : file = <<f>>
    BY <1>1 DEF ToSet, Reported
<1>2. CASE file \in {p \in Key \X Key : p[1] # p[2]}
    <2>1. PICK f \in Key, g \in Key : file = <<f, g>>
        BY <1>2
    <2> QED
        BY <2>1 DEF ToSet, Reported
<1> QED
    BY <1>1, <1>2 DEF File

(* What the start of a request does to the requests: the new one is after
   its key, and those it meets are no longer clean.                         *)
Begun(c, op, fs, at, f, i) ==
    /\ request[c] = Idle
    /\ request' \in [Client -> RequestRecord]
    /\ request'[c].op = op /\ request'[c].at = at
    /\ request'[c].fp = f /\ request'[c].id = i
    /\ request'[c].clean => \A d \in Client : request[d].fp \in fs => request[d].op = op
    /\ \A d \in Client : d # c =>
          /\ request'[d].op = request[d].op /\ request'[d].at = request[d].at
          /\ request'[d].fp = request[d].fp /\ request'[d].id = request[d].id
          /\ request'[d].clean =>
                request[d].clean /\ (request[d].fp \in fs => request[d].op = op)
          /\ request[d].at = "idle" => request'[d] = request[d]

(* What a step in which a request begins changes, put as facts about Begun. *)
LEMMA BeginDoes ==
    ASSUME KeyTypes, NEW c \in Client, NEW op \in {"add", "drop"}, NEW fs \in SUBSET Key,
           NEW r \in RequestRecord, NEW unlisted, Begin(c, op, fs, r, unlisted)
    PROVE  /\ Begun(c, op, fs, r.at, r.fp, r.id)
           /\ mixed' = mixed \cup unlisted \cup {request[d].fp : d \in Against(op, fs)}
           /\ {request[d].fp : d \in Against(op, fs)} \subseteq Key
<1> DEFINE met == Against(op, fs)
<1>0. request \in [Client -> RequestRecord] /\ \A d \in Client : Shape(d)
    BY DEF KeyTypes
<1>1. \A d \in Client : d \in met <=> request[d].fp \in fs /\ request[d].op # op
    BY DEF Against
<1>2. met \subseteq Client
    BY DEF Against
<1> HIDE DEF met
<1>3. /\ request[c] = Idle
      /\ request' = [d \in Client |->
            IF d = c THEN [r EXCEPT !.op = op, !.clean = (met = {})]
            ELSE [request[d] EXCEPT !.clean = request[d].clean /\ d \notin met]]
      /\ mixed' = mixed \cup unlisted \cup {request[d].fp : d \in met}
    BY DEF Begin, met
<1>5. /\ request'[c] \in RequestRecord
      /\ request'[c].op = op /\ request'[c].at = r.at
      /\ request'[c].fp = r.fp /\ request'[c].id = r.id
      /\ request'[c].clean = (met = {})
    <2> DEFINE empty == (met = {})
    <2>1. request'[c] = [r EXCEPT !.op = op, !.clean = empty] /\ empty \in BOOLEAN
        BY <1>3
    <2> HIDE DEF empty
    <2>2. /\ request'[c] \in RequestRecord
          /\ request'[c].op = op /\ request'[c].at = r.at
          /\ request'[c].fp = r.fp /\ request'[c].id = r.id
          /\ request'[c].clean = empty
        BY <2>1 DEF RequestRecord
    <2> QED
        BY <2>2 DEF empty
<1>6. ASSUME NEW d \in Client, d # c
      PROVE  /\ request'[d] \in RequestRecord
             /\ request'[d].op = request[d].op /\ request'[d].at = request[d].at
             /\ request'[d].fp = request[d].fp /\ request'[d].id = request[d].id
             /\ request'[d].clean => request[d].clean /\ d \notin met
             /\ request[d].at = "idle" => request'[d] = request[d]
    <2>1. request'[d] = [request[d] EXCEPT !.clean = request[d].clean /\ d \notin met]
        BY <1>3, <1>6
    <2>2. request[d] \in RequestRecord /\ (request[d].clean /\ d \notin met) \in BOOLEAN
        BY <1>0
    <2>3. request'[d].clean = (request[d].clean /\ d \notin met)
        BY <2>1, <2>2 DEF RequestRecord
    <2>4. /\ request'[d] \in RequestRecord
          /\ request'[d].op = request[d].op /\ request'[d].at = request[d].at
          /\ request'[d].fp = request[d].fp /\ request'[d].id = request[d].id
        BY <2>1, <2>2 DEF RequestRecord
    <2>5. ASSUME request[d].at = "idle" PROVE request'[d] = request[d]
        <3>1. request[d] = Idle
            BY <1>0, <2>5 DEF Shape
        <3>2. request[d].fp \notin Key
            BY <3>1, KeyParameters DEF Idle
        <3>3. d \notin met
            BY <1>1, <3>2
        <3>4. (request[d].clean /\ d \notin met) = TRUE
            BY <3>1, <3>3 DEF Idle
        <3> QED
            BY <2>1, <3>1, <3>4 DEF Idle
    <2> QED
        BY <2>3, <2>4, <2>5
<1>7. request' \in [Client -> RequestRecord]
    BY <1>3, <1>5, <1>6
<1>8. {request[d].fp : d \in met} \subseteq Key
    BY <1>1, <1>2
<1>9. request'[c].clean => \A d \in Client : request[d].fp \in fs => request[d].op = op
    <2>1. request'[c].clean => met = {}
        BY <1>5
    <2> QED
        BY <1>1, <2>1
<1>11. \A d \in Client : d \notin met => (request[d].fp \in fs => request[d].op = op)
    BY <1>1
<1>12. mixed' = mixed \cup unlisted \cup {request[d].fp : d \in Against(op, fs)}
       /\ {request[d].fp : d \in Against(op, fs)} \subseteq Key
    BY <1>3, <1>8 DEF met
<1> QED
    BY <1>3, <1>5, <1>6, <1>7, <1>9, <1>11, <1>12 DEF Begun

-----------------------------------------------------------------------------
(* What a request can rely on while it is clean or its key is not mixed:
   nobody works against it, an import finds its key in the keyring, and a
   deletion has removed it from there before it removes its only row.       *)
Sound(c) ==
    request[c].op # "none" /\ (request[c].clean \/ request[c].fp \notin mixed) =>
        /\ \A d \in Client : request[d].fp = request[c].fp => request[d].op = request[c].op
        /\ request[c].op = "add" => request[c].fp \in keyring
        /\ request[c].op = "drop" =>
              /\ request[c].at = "row" => request[c].fp \notin keyring
              /\ \A j \in Rows : row[j] = request[c].fp => j = request[c].id

(* The keys that nobody works on are in the keyring if they are listed. *)
Settled(f) ==
    f \notin mixed /\ (\A c \in Client : request[c].fp # f) => (f \in keyring <=> Listed(f))

KeyInv ==
    /\ KeyTypes /\ Table
    /\ \A c \in Client : Sound(c)
    /\ \A f \in Key : Settled(f)

(* The start of an import or a generation. *)
LEMMA StartAdd ==
    ASSUME KeyInv, NEW c \in Client, NEW fs \in SUBSET Key, NEW f \in fs, NEW unlisted \in SUBSET Key,
           \A g \in fs \ {f} : Listed(g) \/ g \in unlisted,
           Begin(c, "add", fs, Adding(f), unlisted),
           keyring' = keyring \cup fs, row' = row, last' = last, generated' \in SUBSET Own
    PROVE  KeyInv'
<1> DEFINE met == Against("add", fs)
<1>0. f \in Key
    OBVIOUS
<1>1. /\ Begun(c, "add", fs, "list", f, 0)
      /\ mixed' = mixed \cup unlisted \cup {request[d].fp : d \in met}
      /\ {request[d].fp : d \in met} \subseteq Key
    <2> DEFINE r == Adding(f)
    <2>1. r \in RequestRecord /\ r.at = "list" /\ r.fp = f /\ r.id = 0
        BY <1>0 DEF RequestRecord, Idle, Adding
    <2> HIDE DEF r
    <2>2. Begin(c, "add", fs, r, unlisted)
        BY <1>0 DEF r
    <2> QED
        BY <1>0, <2>1, <2>2, BeginDoes DEF KeyInv
<1> USE DEF Begun
<1>2. \A d \in Client : request[d].fp \in fs /\ request[d].op # "add" => request[d].fp \in mixed'
    BY <1>1 DEF Against
<1> HIDE DEF met
<1>3. request[c].fp = None /\ None \notin Key /\ request[c].op = "none"
    BY <1>1, KeyParameters DEF Idle
<1>4. Rows' = Rows /\ \A g : Listed(g)' <=> Listed(g)
    BY DEF Rows, Listed
<1>5. KeyTypes'
    <2>1. \A d \in Client : Shape(d)'
        BY <1>1, <1>3 DEF KeyInv, KeyTypes, Shape, Idle
    <2> QED
        BY <1>1, <2>1 DEF KeyInv, KeyTypes
<1>6. Table'
    BY <1>4 DEF KeyInv, Table
<1>7. Sound(c)'
    <2>1. ASSUME request'[c].clean \/ f \notin mixed', NEW d \in Client, request'[d].fp = f
          PROVE  request'[d].op = "add"
        BY <1>1, <1>2, <2>1
    <2> QED
        BY <1>1, <2>1 DEF Sound
<1>8. ASSUME NEW d \in Client, d # c PROVE Sound(d)'
    <2> SUFFICES ASSUME request[d].op # "none", request'[d].clean \/ request[d].fp \notin mixed'
                 PROVE  /\ \A e \in Client : request'[e].fp = request[d].fp => request'[e].op = request[d].op
                        /\ request[d].op = "add" => request[d].fp \in keyring'
                        /\ request[d].op = "drop" =>
                              /\ request[d].at = "row" => request[d].fp \notin keyring'
                              /\ \A j \in Rows : row[j] = request[d].fp => j = request[d].id
        BY <1>1, <1>4, <1>8 DEF Sound
    <2>1. request[d].clean \/ request[d].fp \notin mixed
        BY <1>1, <1>8
    <2>2. request[d].fp \in fs => request[d].op = "add"
        BY <1>1, <1>2, <1>8
    <2>3. /\ \A e \in Client : request[e].fp = request[d].fp => request[e].op = request[d].op
          /\ request[d].op = "add" => request[d].fp \in keyring
          /\ request[d].op = "drop" =>
                /\ request[d].at = "row" => request[d].fp \notin keyring
                /\ \A j \in Rows : row[j] = request[d].fp => j = request[d].id
        BY <2>1 DEF KeyInv, Sound
    <2> QED
        BY <1>1, <2>2, <2>3
<1>9. ASSUME NEW g \in Key PROVE Settled(g)'
    <2> SUFFICES ASSUME g \notin mixed', \A d \in Client : request'[d].fp # g
                 PROVE  g \in keyring' <=> Listed(g)
        BY <1>4 DEF Settled
    <2>1. g # f /\ g \notin mixed /\ g \notin unlisted /\ \A d \in Client : request[d].fp # g
        BY <1>1, <1>3
    <2>2. g \in keyring <=> Listed(g)
        BY <2>1 DEF KeyInv, Settled
    <2> QED
        BY <2>1, <2>2
<1> QED
    BY <1>5, <1>6, <1>7, <1>8, <1>9 DEF KeyInv

(* The start of a deletion. *)
LEMMA StartDrop ==
    ASSUME KeyInv, NEW c \in Client, NEW i \in Id, ReadRow(c, i)
    PROVE  KeyInv'
<1> DEFINE f == row[i]
<1>0. /\ i \in Rows /\ f \in Key /\ keyring' = keyring /\ row' = row /\ last' = last
      /\ generated' = generated
      /\ Begin(c, "drop", {f}, [Idle EXCEPT !.at = "key", !.fp = f, !.id = i], {})
    BY DEF ReadRow, Rows, KeyInv, KeyTypes
<1> HIDE DEF f
<1> DEFINE met == Against("drop", {f})
<1>1. /\ Begun(c, "drop", {f}, "key", f, i)
      /\ mixed' = mixed \cup {} \cup {request[d].fp : d \in met}
      /\ {request[d].fp : d \in met} \subseteq Key
    <2> DEFINE r == [Idle EXCEPT !.at = "key", !.fp = f, !.id = i]
    <2>1. r \in RequestRecord /\ r.at = "key" /\ r.fp = f /\ r.id = i
        BY <1>0 DEF RequestRecord, Idle, Adding
    <2> HIDE DEF r
    <2>2. Begin(c, "drop", {f}, r, {})
        BY <1>0 DEF r
    <2>3. KeyTypes /\ {f} \in SUBSET Key
        BY <1>0 DEF KeyInv
    <2>4. /\ Begun(c, "drop", {f}, r.at, r.fp, r.id)
          /\ mixed' = mixed \cup {} \cup {request[d].fp : d \in met}
          /\ {request[d].fp : d \in met} \subseteq Key
        BY <2>1, <2>2, <2>3, BeginDoes
    <2> QED
        BY <2>1, <2>4
<1> USE DEF Begun
<1>2. \A d \in Client : request[d].fp = f /\ request[d].op # "drop" => f \in mixed'
    BY <1>1 DEF Against
<1> HIDE DEF met
<1>3. request[c].fp = None /\ None \notin Key /\ request[c].op = "none"
    BY <1>1, KeyParameters DEF Idle
<1>4. Rows' = Rows /\ \A g : Listed(g)' <=> Listed(g)
    BY <1>0 DEF Rows, Listed
<1>5. KeyTypes'
    <2>1. i \in 1..last
        BY <1>0 DEF KeyInv, Table, Rows, Id
    <2>2. \A d \in Client : Shape(d)'
        BY <1>0, <1>1, <1>3, <2>1 DEF KeyInv, KeyTypes, Shape, Idle, f
    <2> QED
        BY <1>0, <1>1, <2>2 DEF KeyInv, KeyTypes
<1>6. Table'
    BY <1>0, <1>4 DEF KeyInv, Table
<1>7. Sound(c)'
    <2>1. ASSUME request'[c].clean \/ f \notin mixed', NEW d \in Client, request'[d].fp = f
          PROVE  request'[d].op = "drop"
        BY <1>1, <1>2, <2>1
    <2>2. \A j \in Rows : row[j] = f => j = i
        BY <1>0 DEF KeyInv, Table, f
    <2> QED
        BY <1>0, <1>1, <1>4, <2>1, <2>2 DEF Sound
<1>8. ASSUME NEW d \in Client, d # c PROVE Sound(d)'
    <2> SUFFICES ASSUME request[d].op # "none", request'[d].clean \/ request[d].fp \notin mixed'
                 PROVE  /\ \A e \in Client : request'[e].fp = request[d].fp => request'[e].op = request[d].op
                        /\ request[d].op = "add" => request[d].fp \in keyring
                        /\ request[d].op = "drop" =>
                              /\ request[d].at = "row" => request[d].fp \notin keyring
                              /\ \A j \in Rows : row[j] = request[d].fp => j = request[d].id
        BY <1>0, <1>1, <1>4, <1>8 DEF Sound
    <2>1. request[d].clean \/ request[d].fp \notin mixed
        BY <1>1, <1>8
    <2>2. request[d].fp = f => request[d].op = "drop"
        BY <1>1, <1>2, <1>8
    <2>3. /\ \A e \in Client : request[e].fp = request[d].fp => request[e].op = request[d].op
          /\ request[d].op = "add" => request[d].fp \in keyring
          /\ request[d].op = "drop" =>
                /\ request[d].at = "row" => request[d].fp \notin keyring
                /\ \A j \in Rows : row[j] = request[d].fp => j = request[d].id
        BY <2>1 DEF KeyInv, Sound
    <2> QED
        BY <1>1, <2>2, <2>3
<1>9. ASSUME NEW g \in Key PROVE Settled(g)'
    <2> SUFFICES ASSUME g \notin mixed', \A d \in Client : request'[d].fp # g
                 PROVE  g \in keyring <=> Listed(g)
        BY <1>0, <1>4 DEF Settled
    <2>1. g \notin mixed /\ \A d \in Client : request[d].fp # g
        BY <1>1, <1>3
    <2> QED
        BY <2>1 DEF KeyInv, Settled
<1> QED
    BY <1>5, <1>6, <1>7, <1>8, <1>9 DEF KeyInv

(* A request goes on to its next step, ... *)
LEMMA GotoDoes ==
    ASSUME KeyTypes, NEW c \in Client, NEW w \in {"look", "insert", "row"}, Goto(c, w)
    PROVE  /\ request' \in [Client -> RequestRecord] /\ mixed' = mixed
           /\ request'[c].at = w
           /\ \A d \in Client : /\ request'[d].op = request[d].op /\ request'[d].fp = request[d].fp
                                /\ request'[d].id = request[d].id /\ request'[d].clean = request[d].clean
                                /\ d # c => request'[d] = request[d]
<1>1. request' = [request EXCEPT ![c].at = w] /\ mixed' = mixed
    BY DEF Goto
<1>2. request \in [Client -> RequestRecord]
    BY DEF KeyTypes
<1>3. request'[c] = [request[c] EXCEPT !.at = w] /\ \A d \in Client : d # c => request'[d] = request[d]
    BY <1>1, <1>2
<1>4. /\ request'[c] \in RequestRecord /\ request'[c].at = w /\ request'[c].op = request[c].op
      /\ request'[c].fp = request[c].fp /\ request'[c].id = request[c].id
      /\ request'[c].clean = request[c].clean
    BY <1>2, <1>3 DEF RequestRecord
<1>5. request' \in [Client -> RequestRecord]
    BY <1>1, <1>2, <1>3, <1>4
<1> QED
    BY <1>1, <1>3, <1>4, <1>5

(* ... or is over. *)
LEMMA EndDoes ==
    ASSUME KeyTypes, NEW c \in Client, Return(c) \/ ReturnError(c)
    PROVE  /\ request' \in [Client -> RequestRecord]
           /\ request'[c] = Idle /\ Idle.op = "none" /\ Idle.fp = None /\ Idle.at = "idle"
           /\ None \notin Key
           /\ \A d \in Client : d # c => request'[d] = request[d]
           /\ Return(c) => mixed' = IF request[c].clean THEN mixed \ {request[c].fp} ELSE mixed
           /\ ReturnError(c) => mixed' = mixed \cup {request[c].fp}
<1>1. request' = [request EXCEPT ![c] = Idle]
    BY DEF Return, ReturnError
<1>2. Idle \in RequestRecord /\ Idle.op = "none" /\ Idle.fp = None /\ Idle.at = "idle"
    BY DEF Idle, RequestRecord
<1>3. request \in [Client -> RequestRecord]
    BY DEF KeyTypes
<1> QED
    BY <1>1, <1>2, <1>3, KeyParameters DEF Return, ReturnError

(* An import goes on. *)
LEMMA MoveAdd ==
    ASSUME KeyInv, NEW c \in Client, NEW w \in {"look", "insert"}, request[c].op = "add", Goto(c, w),
           keyring' = keyring, row' = row, last' = last, generated' = generated
    PROVE  KeyInv'
<1>1. /\ request' \in [Client -> RequestRecord] /\ mixed' = mixed
      /\ request'[c].at = w
      /\ \A d \in Client : /\ request'[d].op = request[d].op /\ request'[d].fp = request[d].fp
                           /\ request'[d].id = request[d].id /\ request'[d].clean = request[d].clean
                           /\ d # c => request'[d] = request[d]
    BY GotoDoes DEF KeyInv
<1>2. Rows' = Rows /\ \A g : Listed(g)' <=> Listed(g)
    BY DEF Rows, Listed
<1>3. KeyTypes'
    BY <1>1 DEF KeyInv, KeyTypes, Shape
<1>4. Table'
    BY <1>2 DEF KeyInv, Table
<1>5. \A d \in Client : Sound(d)'
    BY <1>1, <1>2 DEF KeyInv, Sound
<1>6. \A g \in Key : Settled(g)'
    BY <1>1, <1>2 DEF KeyInv, Settled
<1> QED
    BY <1>3, <1>4, <1>5, <1>6 DEF KeyInv

(* A request fails: its key is mixed. *)
LEMMA FailRequest ==
    ASSUME KeyInv, NEW c \in Client, request[c].op \in {"add", "drop"}, ReturnError(c),
           keyring' = keyring, row' = row, last' = last, generated' = generated
    PROVE  KeyInv'
<1>1. /\ request' \in [Client -> RequestRecord]
      /\ request'[c] = Idle /\ Idle.op = "none" /\ Idle.fp = None /\ Idle.at = "idle"
      /\ None \notin Key
      /\ \A d \in Client : d # c => request'[d] = request[d]
      /\ mixed' = mixed \cup {request[c].fp}
    BY EndDoes DEF KeyInv
<1>2. Rows' = Rows /\ \A g : Listed(g)' <=> Listed(g)
    BY DEF Rows, Listed
<1>3. request[c].fp \in Key
    BY DEF KeyInv, KeyTypes, Shape
<1>4. KeyTypes'
    BY <1>1, <1>3 DEF KeyInv, KeyTypes, Shape
<1>5. Table'
    BY <1>2 DEF KeyInv, Table
<1>6. ASSUME NEW d \in Client PROVE Sound(d)'
    <2>1. CASE d = c
        BY <1>1, <2>1 DEF Sound
    <2>2. CASE d # c
        BY <1>1, <1>2, <2>2 DEF KeyInv, KeyTypes, Shape, Sound
    <2> QED
        BY <2>1, <2>2
<1>7. \A g \in Key : Settled(g)'
    BY <1>1, <1>2 DEF KeyInv, Settled
<1> QED
    BY <1>4, <1>5, <1>6, <1>7 DEF KeyInv

(* An import succeeds: its key is listed, and the rows of others stay. *)
LEMMA DoneAdd ==
    ASSUME KeyInv, NEW c \in Client, request[c].op = "add", Return(c),
           keyring' = keyring, generated' = generated,
           \/ row' = row /\ last' = last /\ Listed(request[c].fp)
           \/ /\ ~Listed(request[c].fp) /\ last < MaxRows
              /\ row' = [row EXCEPT ![last + 1] = request[c].fp] /\ last' = last + 1
    PROVE  KeyInv'
<1>0. PICK f \in Key : f = request[c].fp
    BY DEF KeyInv, KeyTypes, Shape
<1>1. /\ request' \in [Client -> RequestRecord]
      /\ request'[c] = Idle /\ Idle.op = "none" /\ Idle.fp = None /\ Idle.at = "idle"
      /\ None \notin Key
      /\ \A d \in Client : d # c => request'[d] = request[d]
      /\ mixed' = IF request[c].clean THEN mixed \ {f} ELSE mixed
    BY <1>0, EndDoes DEF KeyInv
<1>3. /\ row \in [Id -> Key \cup {None}] /\ last \in 0..MaxRows /\ MaxRows \in Nat
      /\ \A i \in Rows : i <= last
    BY KeyParameters DEF KeyInv, KeyTypes, Table
<1>4. /\ row' \in [Id -> Key \cup {None}] /\ last' \in 0..MaxRows /\ last <= last'
      /\ \A i \in 1..last : row'[i] = row[i]
      /\ Rows \subseteq Rows' /\ \A i \in Rows : row'[i] = row[i]
      /\ \A i \in Rows' : i \in Rows \/ (row'[i] = f /\ i = last' /\ ~Listed(f))
      /\ Listed(f)'
      /\ \A i \in Rows' : i <= last'
    <2>1. CASE row' = row /\ last' = last /\ Listed(f)
        <3>1. Rows' = Rows
            BY <2>1 DEF Rows
        <3> QED
            BY <1>3, <2>1, <3>1 DEF Listed
    <2>2. CASE /\ ~Listed(f) /\ last < MaxRows
               /\ row' = [row EXCEPT ![last + 1] = f] /\ last' = last + 1
        <3>1. last + 1 \in Id /\ last + 1 \notin Rows
            BY <1>3, <2>2 DEF Id
        <3>2. \A i \in Id : row'[i] = IF i = last + 1 THEN f ELSE row[i]
            BY <1>3, <2>2
        <3>3. Rows' = Rows \cup {last + 1}
            BY <1>1, <3>1, <3>2 DEF Rows
        <3>4. row' \in [Id -> Key \cup {None}]
            BY <1>3, <2>2
        <3>5. \A i \in 1..last : row'[i] = row[i]
            BY <1>3, <3>2 DEF Id
        <3>6. \A i \in Rows : i \in Id /\ i # last + 1
            BY <3>1 DEF Rows
        <3>7. Listed(f)'
            BY <3>1, <3>2, <3>3 DEF Listed
        <3>8. last' \in 0..MaxRows /\ last <= last' /\ \A i \in Rows' : i <= last'
            BY <1>3, <2>2, <3>3, <3>6 DEF Id
        <3> QED
            BY <2>2, <3>1, <3>2, <3>3, <3>4, <3>5, <3>6, <3>7, <3>8
    <2> QED
        BY <1>0, <2>1, <2>2
<1>5. \A g \in Key : g # f => (Listed(g)' <=> Listed(g))
    BY <1>4 DEF Listed
<1>6. KeyTypes'
    <2>1. Shape(c)'
        BY <1>1 DEF Shape
    <2>2. ASSUME NEW d \in Client, d # c PROVE Shape(d)'
        <3>1. request'[d] = request[d] /\ Shape(d)
            BY <1>1, <2>2 DEF KeyInv, KeyTypes
        <3>2. request[d].id \in 1..last => request[d].id \in 1..last' /\ row'[request[d].id] = row[request[d].id]
            BY <1>3, <1>4
        <3> QED
            BY <3>1, <3>2 DEF Shape
    <2> QED
        BY <1>1, <1>4, <2>1, <2>2 DEF KeyInv, KeyTypes
<1>7. Table'
    BY <1>4 DEF KeyInv, Table, Listed
<1>8. ASSUME NEW d \in Client, d # c, request[d].op # "none",
             request[d].clean \/ request[d].fp \notin mixed'
      PROVE  /\ \A e \in Client : request[e].fp = request[d].fp => request[e].op = request[d].op
             /\ request[d].op = "add" => request[d].fp \in keyring
             /\ request[d].op = "drop" => request[d].fp # f
             /\ request[d].op = "drop" =>
                   /\ request[d].at = "row" => request[d].fp \notin keyring
                   /\ \A j \in Rows : row[j] = request[d].fp => j = request[d].id
    <2>1. CASE request[d].clean \/ request[d].fp \notin mixed
        BY <1>0, <1>8, <2>1 DEF KeyInv, Sound
    <2>2. CASE request[d].fp = f /\ request[c].clean
        BY <1>0, <1>8, <2>2 DEF KeyInv, Sound
    <2> QED
        BY <1>1, <1>8, <2>1, <2>2
<1>9. ASSUME NEW d \in Client PROVE Sound(d)'
    <2>1. CASE d = c
        BY <1>1, <2>1 DEF Sound
    <2>2. CASE d # c
        <3> SUFFICES ASSUME request[d].op # "none", request[d].clean \/ request[d].fp \notin mixed'
                     PROVE  /\ \A e \in Client : request'[e].fp = request[d].fp => request'[e].op = request[d].op
                            /\ request[d].op = "add" => request[d].fp \in keyring
                            /\ request[d].op = "drop" =>
                                  /\ request[d].at = "row" => request[d].fp \notin keyring
                                  /\ \A j \in Rows' : row'[j] = request[d].fp => j = request[d].id
            BY <1>1, <2>2 DEF Sound
        <3>1. request[d].fp \in Key
            BY DEF KeyInv, KeyTypes, Shape
        <3> QED
            BY <1>1, <1>4, <1>8, <2>2, <3>1
    <2> QED
        BY <2>1, <2>2
<1>10. ASSUME NEW g \in Key PROVE Settled(g)'
    <2>1. CASE g = f
        <3> SUFFICES ASSUME f \notin mixed' PROVE f \in keyring
            BY <1>4, <2>1 DEF Settled
        <3>2. request[c].clean \/ f \notin mixed
            BY <1>1
        <3> QED
            BY <1>0, <3>2 DEF KeyInv, Sound
    <2>2. CASE g # f
        <3>1. Listed(g)' <=> Listed(g)
            BY <1>5, <2>2
        <3>2. (\A d \in Client : request'[d].fp # g) => (\A d \in Client : request[d].fp # g)
            BY <1>0, <1>1, <2>2
        <3>3. g \notin mixed' => g \notin mixed
            BY <1>1, <2>2
        <3> QED
            BY <3>1, <3>2, <3>3 DEF KeyInv, Settled
    <2> QED
        BY <2>1, <2>2
<1> QED
    BY <1>6, <1>7, <1>9, <1>10 DEF KeyInv

(* gpg deletes the key of a request, or fails to: then the key is mixed. *)
LEMMA KeyDropped ==
    ASSUME KeyInv, NEW c \in Client, DropKey(c)
    PROVE  KeyInv'
<1>0. /\ request[c].at = "key" /\ row' = row /\ last' = last /\ generated' = generated
      /\ request[c].op = "drop"
    BY DEF DropKey, At, KeyInv, KeyTypes, Shape
<1>1. PICK f \in Key : f = request[c].fp
    BY <1>0 DEF KeyInv, KeyTypes, Shape
<1>2. Rows' = Rows /\ \A g : Listed(g)' <=> Listed(g)
    BY <1>0 DEF Rows, Listed
<1>3. CASE keyring' = keyring \ {f} /\ Goto(c, "row")
    <2>1. /\ request' \in [Client -> RequestRecord] /\ mixed' = mixed
          /\ request'[c].at = "row"
          /\ \A d \in Client : /\ request'[d].op = request[d].op /\ request'[d].fp = request[d].fp
                               /\ request'[d].id = request[d].id /\ request'[d].clean = request[d].clean
                               /\ d # c => request'[d] = request[d]
        BY <1>3, GotoDoes DEF KeyInv
    <2>2. KeyTypes'
        BY <1>0, <1>3, <2>1 DEF KeyInv, KeyTypes, Shape
    <2>3. Table'
        BY <1>0, <1>2 DEF KeyInv, Table
    <2>4. \A d \in Client : Sound(d)'
        BY <1>0, <1>1, <1>2, <1>3, <2>1 DEF KeyInv, Sound
    <2>5. \A g \in Key : Settled(g)'
        BY <1>1, <1>2, <1>3, <2>1 DEF KeyInv, Settled
    <2> QED
        BY <2>2, <2>3, <2>4, <2>5 DEF KeyInv
<1>4. CASE /\ request' = [request EXCEPT ![c].at = "row", ![c].clean = FALSE]
           /\ mixed' = mixed \cup {f} /\ keyring' = keyring
    <2>1. request \in [Client -> RequestRecord]
        BY DEF KeyInv, KeyTypes
    <2>2. /\ request'[c] = [request[c] EXCEPT !.at = "row", !.clean = FALSE]
          /\ \A d \in Client : d # c => request'[d] = request[d]
        BY <1>4, <2>1
    <2>3. /\ request'[c] \in RequestRecord /\ request'[c].op = request[c].op
          /\ request'[c].at = "row" /\ request'[c].fp = request[c].fp
          /\ request'[c].id = request[c].id /\ ~request'[c].clean
        <3>1. PICK r \in RequestRecord : r = request[c]
            BY <2>1
        <3>2. PICK no \in BOOLEAN : no = FALSE
            OBVIOUS
        <3>3. request'[c] = [r EXCEPT !.at = "row", !.clean = no]
            BY <2>2, <3>1, <3>2
        <3>4. /\ request'[c] \in RequestRecord /\ request'[c].op = r.op
              /\ request'[c].at = "row" /\ request'[c].fp = r.fp
              /\ request'[c].id = r.id /\ request'[c].clean = no
            BY <3>3 DEF RequestRecord
        <3> QED
            BY <3>1, <3>2, <3>4
    <2>4. request' \in [Client -> RequestRecord]
        BY <1>4, <2>1, <2>2, <2>3
    <2>5. KeyTypes'
        BY <1>0, <1>1, <1>4, <2>2, <2>3, <2>4 DEF KeyInv, KeyTypes, Shape
    <2>6. Table'
        BY <1>0, <1>2 DEF KeyInv, Table
    <2>7. Sound(c)'
        BY <1>1, <1>4, <2>3 DEF Sound
    <2>8. ASSUME NEW d \in Client, d # c PROVE Sound(d)'
        <3> SUFFICES ASSUME request[d].op # "none", request[d].clean \/ request[d].fp \notin mixed'
                     PROVE  /\ \A e \in Client : request'[e].fp = request[d].fp => request'[e].op = request[d].op
                            /\ request[d].op = "add" => request[d].fp \in keyring
                            /\ request[d].op = "drop" =>
                                  /\ request[d].at = "row" => request[d].fp \notin keyring
                                  /\ \A j \in Rows : row[j] = request[d].fp => j = request[d].id
            <4>0. request'[d] = request[d] /\ Rows' = Rows /\ row' = row /\ keyring' = keyring
                BY <1>0, <1>2, <1>4, <2>2, <2>8
            <4> QED
                BY <4>0 DEF Sound
        <3>1. request[d].clean \/ request[d].fp \notin mixed
            BY <1>4
        <3>2. /\ \A e \in Client : request[e].fp = request[d].fp => request[e].op = request[d].op
              /\ request[d].op = "add" => request[d].fp \in keyring
              /\ request[d].op = "drop" =>
                    /\ request[d].at = "row" => request[d].fp \notin keyring
                    /\ \A j \in Rows : row[j] = request[d].fp => j = request[d].id
            BY <3>1 DEF KeyInv, Sound
        <3>3. \A e \in Client : request'[e].fp = request[e].fp /\ request'[e].op = request[e].op
            BY <2>2, <2>3
        <3> QED
            BY <3>2, <3>3
    <2>9. \A g \in Key : Settled(g)'
        BY <1>1, <1>2, <1>4, <2>2, <2>3 DEF KeyInv, Settled
    <2> QED
        BY <2>5, <2>6, <2>7, <2>8, <2>9 DEF KeyInv
<1> QED
    BY <1>1, <1>3, <1>4 DEF DropKey

(* The row of the key goes, and nothing is left of it if the request is sound. *)
LEMMA RowDropped ==
    ASSUME KeyInv, NEW c \in Client, DropRow(c)
    PROVE  /\ KeyInv' /\ last' = last
           /\ request[c].id \in Id /\ Rows' = Rows \ {request[c].id}
           /\ \A i \in Rows' : row'[i] = row[i]
<1>0. /\ request[c].at = "row" /\ row' = [row EXCEPT ![request[c].id] = None] /\ last' = last
      /\ generated' = generated /\ keyring' = keyring /\ Return(c)
    BY DEF DropRow, At
<1>1. PICK f \in Key : f = request[c].fp
    BY <1>0 DEF KeyInv, KeyTypes, Shape
<1>2. PICK i \in 1..last : i = request[c].id /\ row[i] \in {f, None}
    BY <1>0, <1>1 DEF KeyInv, KeyTypes, Shape
<1>3. /\ request' \in [Client -> RequestRecord]
      /\ request'[c] = Idle /\ Idle.op = "none" /\ Idle.fp = None /\ Idle.at = "idle"
      /\ None \notin Key
      /\ \A d \in Client : d # c => request'[d] = request[d]
      /\ mixed' = IF request[c].clean THEN mixed \ {f} ELSE mixed
    BY <1>0, <1>1, EndDoes DEF KeyInv
<1>4. /\ i \in Id /\ row' \in [Id -> Key \cup {None}]
      /\ \A j \in Id : row'[j] = IF j = i THEN None ELSE row[j]
    BY <1>0, <1>2, KeyParameters DEF KeyInv, KeyTypes, Id
<1>5. Rows' = Rows \ {i} /\ \A j \in Rows' : row'[j] = row[j]
    BY <1>4 DEF Rows
<1>6. \A g \in Key : g # f => (Listed(g)' <=> Listed(g))
    BY <1>2, <1>3, <1>4, <1>5 DEF Listed, Rows
<1>7. KeyTypes'
    <2>1. Shape(c)'
        BY <1>3 DEF Shape
    <2>2. ASSUME NEW d \in Client, d # c PROVE Shape(d)'
        <3>1. request'[d] = request[d] /\ Shape(d)
            BY <1>3, <2>2 DEF KeyInv, KeyTypes
        <3>2. request[d].id \in 1..last => row'[request[d].id] \in {row[request[d].id], None}
            BY <1>4, KeyParameters DEF KeyInv, KeyTypes, Id
        <3> QED
            BY <1>0, <3>1, <3>2 DEF Shape
    <2> QED
        BY <1>0, <1>3, <1>4, <2>1, <2>2 DEF KeyInv, KeyTypes
<1>8. Table'
    BY <1>0, <1>5 DEF KeyInv, Table
<1>9. request[c].clean \/ f \notin mixed =>
          /\ \A d \in Client : request[d].fp = f => request[d].op = "drop"
          /\ f \notin keyring /\ ~Listed(f)'
    <2>1. request[c].op = "drop"
        BY <1>0 DEF KeyInv, KeyTypes, Shape
    <2> QED
        BY <1>0, <1>1, <1>2, <1>5, <2>1 DEF KeyInv, Sound, Listed
<1>10. ASSUME NEW d \in Client PROVE Sound(d)'
    <2>1. CASE d = c
        BY <1>3, <2>1 DEF Sound
    <2>2. CASE d # c
        <3> SUFFICES ASSUME request[d].op # "none", request[d].clean \/ request[d].fp \notin mixed'
                     PROVE  /\ \A e \in Client : request'[e].fp = request[d].fp => request'[e].op = request[d].op
                            /\ request[d].op = "add" => request[d].fp \in keyring
                            /\ request[d].op = "drop" =>
                                  /\ request[d].at = "row" => request[d].fp \notin keyring
                                  /\ \A j \in Rows' : row'[j] = request[d].fp => j = request[d].id
            BY <1>0, <1>3, <2>2 DEF Sound
        <3>1. request[d].fp \in Key
            BY DEF KeyInv, KeyTypes, Shape
        <3>2. CASE request[d].fp = f /\ (request[c].clean \/ f \notin mixed)
            BY <1>3, <1>5, <1>9, <2>2, <3>1, <3>2 DEF Listed
        <3>3. CASE request[d].clean \/ request[d].fp \notin mixed
            BY <1>3, <1>5, <2>2, <3>1, <3>3 DEF KeyInv, Sound
        <3> QED
            BY <1>3, <3>2, <3>3
    <2> QED
        BY <2>1, <2>2
<1>11. ASSUME NEW g \in Key PROVE Settled(g)'
    <2>1. CASE g = f
        <3>1. f \notin mixed' => request[c].clean \/ f \notin mixed
            BY <1>3
        <3> QED
            BY <1>0, <1>9, <2>1, <3>1 DEF Settled
    <2>2. CASE g # f
        <3>1. Listed(g)' <=> Listed(g)
            BY <1>6, <2>2
        <3>2. (\A d \in Client : request'[d].fp # g) => (\A d \in Client : request[d].fp # g)
            BY <1>1, <1>3, <2>2
        <3>3. g \notin mixed' => g \notin mixed
            BY <1>3, <2>2
        <3> QED
            BY <1>0, <3>1, <3>2, <3>3 DEF KeyInv, Settled
    <2> QED
        BY <2>1, <2>2
<1> QED
    BY <1>0, <1>2, <1>4, <1>5, <1>7, <1>8, <1>10, <1>11 DEF KeyInv

-----------------------------------------------------------------------------
(* Rows only come with new ids, until their key is deleted. *)
RowsStay ==
    /\ last <= last' /\ Rows \subseteq Rows' /\ \A i \in Rows : row'[i] = row[i]
    /\ \A i \in Rows' \ Rows : last < i

(* The steps of imports and generations keep the invariant, ... *)
LEMMA AddSteps ==
    ASSUME KeyInv, NEW c \in Client,
           \/ \E file \in File : Import(c, file)
           \/ \E f \in Own : Generate(c, f)
           \/ ListKey(c) \/ LookUp(c) \/ InsertRow(c)
    PROVE  KeyInv' /\ RowsStay /\ dflt' = dflt
<1> USE DEF KeyInv, KeyTypes
<1>1. /\ row \in [Id -> Key \cup {None}] /\ last \in 0..MaxRows /\ MaxRows \in Nat
      /\ \A i \in Rows : i <= last
    BY KeyParameters DEF Table
<1>2. row' = row /\ last' = last => RowsStay
    BY <1>1 DEF RowsStay, Rows
<1>3. ASSUME NEW file \in File, Import(c, file) PROVE KeyInv' /\ RowsStay /\ dflt' = dflt
    <2> DEFINE fs == ToSet(file)
               f == Reported(file)
               unlisted == {g \in fs \ {f} : ~Listed(g)}
    <2>1. fs \in SUBSET Key /\ f \in fs
        BY FileIs
    <2>2. /\ Begin(c, "add", fs, Adding(f), unlisted)
          /\ keyring' = keyring \cup fs /\ row' = row /\ last' = last /\ generated' = generated
          /\ dflt' = dflt
        BY <1>3 DEF Import
    <2>3. \A g \in fs \ {f} : Listed(g) \/ g \in unlisted
        OBVIOUS
    <2>4. unlisted \in SUBSET Key /\ generated' \in SUBSET Own
        BY <2>1, <2>2
    <2> HIDE DEF fs, f, unlisted
    <2> QED
        BY <1>2, <2>1, <2>2, <2>3, <2>4, StartAdd
<1>4. ASSUME NEW f \in Own, Generate(c, f) PROVE KeyInv' /\ RowsStay /\ dflt' = dflt
    <2> DEFINE fs == {f}
               unlisted == {}
    <2>1. fs \in SUBSET Key /\ f \in fs /\ unlisted \in SUBSET Key
        BY KeyParameters
    <2>2. /\ Begin(c, "add", fs, Adding(f), unlisted)
          /\ keyring' = keyring \cup fs /\ row' = row /\ last' = last
          /\ generated' \in SUBSET Own /\ dflt' = dflt
        BY <1>4 DEF Generate
    <2>3. \A g \in fs \ {f} : Listed(g) \/ g \in unlisted
        OBVIOUS
    <2> HIDE DEF fs, unlisted
    <2> QED
        BY <1>2, <2>1, <2>2, <2>3, StartAdd
<1>5. request[c].at \in {"list", "look", "insert"} => request[c].op = "add"
    BY DEF Shape
<1>6. CASE ListKey(c)
    <2>1. /\ keyring' = keyring /\ row' = row /\ last' = last /\ generated' = generated /\ dflt' = dflt
          /\ Goto(c, "look") \/ ReturnError(c)
        BY <1>6 DEF ListKey
    <2> QED
        BY <1>2, <1>5, <1>6, <2>1, MoveAdd, FailRequest DEF ListKey, At
<1>7. CASE LookUp(c)
    <2>1. /\ keyring' = keyring /\ row' = row /\ last' = last /\ generated' = generated /\ dflt' = dflt
          /\ Goto(c, "insert") \/ (Listed(request[c].fp) /\ Return(c))
        BY <1>7 DEF LookUp
    <2> QED
        BY <1>2, <1>5, <1>7, <2>1, MoveAdd, DoneAdd DEF LookUp, At
<1>8. CASE InsertRow(c)
    <2>0. request[c].op = "add" /\ keyring' = keyring /\ generated' = generated /\ dflt' = dflt
        BY <1>5, <1>8 DEF InsertRow, At
    <2>1. CASE ReturnError(c) /\ row' = row /\ last' = last
        BY <1>2, <2>0, <2>1, FailRequest
    <2>2. CASE /\ ~Listed(request[c].fp) /\ last < MaxRows /\ last' = last + 1
               /\ row' = [row EXCEPT ![last'] = request[c].fp] /\ Return(c)
        <3>1. /\ last < MaxRows /\ last' = last + 1 /\ Return(c)
              /\ row' = [row EXCEPT ![last + 1] = request[c].fp]
            BY <2>2
        <3>2. request[c].fp \in Key /\ request[c].fp # None
            BY <2>0, KeyParameters DEF Shape
        <3>3. last + 1 \in Id /\ \A i \in Id : row'[i] = IF i = last + 1 THEN request[c].fp ELSE row[i]
            BY <1>1, <3>1 DEF Id
        <3>4. Rows' = Rows \cup {last + 1} /\ \A i \in Rows : i # last + 1 /\ row'[i] = row[i]
            BY <1>1, <3>2, <3>3 DEF Rows
        <3>5. RowsStay
            BY <1>1, <3>1, <3>4 DEF RowsStay
        <3> QED
            BY <2>0, <2>2, <3>1, <3>5, DoneAdd
    <2> QED
        BY <1>8, <2>1, <2>2 DEF InsertRow
<1> QED
    BY <1>3, <1>4, <1>6, <1>7, <1>8

(* ... and so does every step that leaves the rows of keys and products. *)
LEMMA KeySteps ==
    ASSUME KeyInv, dflt \subseteq Rows, KStep
    PROVE  KeyInv' /\ RowsStay /\ (dflt \subseteq Rows)'
<1>1. \A i \in Rows : i <= last
    BY DEF KeyInv, Table
<1>2. last \in Nat /\ (row' = row /\ last' = last => RowsStay /\ Rows' = Rows)
    BY KeyParameters DEF KeyInv, KeyTypes, RowsStay, Rows
<1>3. ASSUME NEW c \in Client,
             \/ \E file \in File : Import(c, file)
             \/ \E f \in Own : Generate(c, f)
             \/ ListKey(c) \/ LookUp(c) \/ InsertRow(c)
      PROVE  KeyInv' /\ RowsStay /\ (dflt \subseteq Rows)'
    <2>1. KeyInv' /\ RowsStay /\ dflt' = dflt
        BY <1>3, AddSteps
    <2> QED
        BY <2>1 DEF RowsStay
<1>4. ASSUME NEW c \in Client, NEW i \in Id, ReadRow(c, i)
      PROVE  KeyInv' /\ RowsStay /\ (dflt \subseteq Rows)'
    <2>1. KeyInv' /\ row' = row /\ last' = last /\ dflt' = dflt
        BY <1>4, StartDrop DEF ReadRow
    <2> QED
        BY <1>2, <2>1
<1>5. ASSUME NEW c \in Client, DropKey(c)
      PROVE  KeyInv' /\ RowsStay /\ (dflt \subseteq Rows)'
    <2>1. KeyInv' /\ row' = row /\ last' = last /\ dflt' = dflt
        BY <1>5, KeyDropped DEF DropKey
    <2> QED
        BY <1>2, <2>1
<1>6. ASSUME NEW c \in Client, DropRowFails(c)
      PROVE  KeyInv' /\ RowsStay /\ (dflt \subseteq Rows)'
    <2>1. /\ request[c].op \in {"add", "drop"} /\ ReturnError(c) /\ keyring' = keyring
          /\ row' = row /\ last' = last /\ dflt' = dflt /\ generated' = generated
        BY <1>6 DEF DropRowFails, At, KeyInv, KeyTypes, Shape
    <2> QED
        BY <1>2, <2>1, FailRequest
<1>7. ASSUME NEW i \in Id, SetDefault(i)
      PROVE  KeyInv' /\ RowsStay /\ (dflt \subseteq Rows)'
    <2>1. /\ row' = row /\ last' = last /\ keyring' = keyring /\ generated' = generated
          /\ request' = request /\ mixed' = mixed /\ dflt' \subseteq Rows
        BY <1>7 DEF SetDefault
    <2>2. Rows' = Rows /\ \A g : Listed(g)' <=> Listed(g)
        BY <2>1 DEF Rows, Listed
    <2>3. KeyTypes' /\ Table'
        BY <2>1, <2>2 DEF KeyInv, KeyTypes, Shape, Table
    <2>4. (\A c \in Client : Sound(c)') /\ (\A f \in Key : Settled(f)')
        BY <2>1, <2>2 DEF KeyInv, Sound, Settled
    <2> QED
        BY <1>2, <2>1, <2>2, <2>3, <2>4 DEF KeyInv
<1> QED
    BY <1>3, <1>4, <1>5, <1>6, <1>7 DEF KStep

(* A crash ends every request, and its keys are mixed. *)
LEMMA KeyCrash ==
    ASSUME KeyInv, KCrash
    PROVE  KeyInv' /\ Rows' = Rows
<1>1. /\ row' = row /\ last' = last /\ keyring' = keyring /\ generated' = generated
      /\ request' = [c \in Client |-> Idle]
      /\ mixed' = mixed \cup ({request[c].fp : c \in Client} \ {None})
    BY DEF KCrash
<1>2. Rows' = Rows /\ \A g : Listed(g)' <=> Listed(g)
    BY <1>1 DEF Rows, Listed
<1>3. Idle \in RequestRecord /\ Idle.op = "none" /\ Idle.fp = None /\ Idle.at = "idle" /\ None \notin Key
    BY KeyParameters DEF Idle, RequestRecord
<1>4. mixed' \subseteq Key
    BY <1>1 DEF KeyInv, KeyTypes, RequestRecord
<1>5. KeyTypes'
    BY <1>1, <1>3, <1>4 DEF KeyInv, KeyTypes, Shape
<1>6. Table'
    BY <1>1, <1>2 DEF KeyInv, Table
<1>7. \A c \in Client : Sound(c)'
    BY <1>1, <1>3 DEF Sound
<1>8. ASSUME NEW g \in Key PROVE Settled(g)'
    <2>1. g \notin mixed' => g \notin mixed /\ \A c \in Client : request[c].fp # g
        BY <1>1, <1>3
    <2> QED
        BY <1>1, <1>2, <2>1 DEF KeyInv, Settled
<1> QED
    BY <1>2, <1>5, <1>6, <1>7, <1>8 DEF KeyInv

-----------------------------------------------------------------------------
(* Products name rows that exist, or none.  A build keeps an id that was given
   out by then, so that it can only be the row that it was, or gone.        *)
BuildRecord ==
    [at : {"idle", "resolve", "sign", "signed"}, key : Name, fp : Key \cup {None}, misread : BOOLEAN]

Products ==
    /\ product \in [Product -> Name \cup {Unborn, Gone}]
    /\ \A p \in Product : Exists(p) => MayName(product[p])
    /\ \A p \in monitored : Exists(p) /\ p \in Product

(* What a build has read: the fingerprint of the row, or an error. *)
HasRead(b) ==
    /\ b.key <= last
    /\ b.at = "resolve" => b.fp = None /\ ~b.misread
    /\ b.at \in {"sign", "signed"} /\ b.key \in Rows =>
          b.fp = IF b.misread THEN None ELSE row[b.key]

Read(p) == HasRead(build[p])

Builds ==
    /\ build \in [Product -> BuildRecord]
    /\ \A p \in Product : Read(p)

CatalogInv == KeyInv /\ dflt \subseteq Rows /\ Products /\ Builds

(* An empty keyring, table and database satisfy the invariant. *)
LEMMA InitCatalog == Init => CatalogInv
<1> SUFFICES ASSUME Init PROVE CatalogInv
    OBVIOUS
<1>0. /\ keyring = {} /\ row = [i \in Id |-> None] /\ last = 0 /\ dflt = {}
      /\ generated = {} /\ request = [c \in Client |-> Idle] /\ mixed = {}
      /\ MaxRows \in Nat /\ None \notin Key
    BY KeyParameters DEF Init, KInit
<1>1. Rows = {}
    BY <1>0 DEF Rows
<1>2. Idle \in RequestRecord /\ Idle.op = "none" /\ Idle.fp = None /\ Idle.at = "idle"
    BY DEF Idle, RequestRecord
<1>3. KeyTypes
    BY <1>0, <1>2 DEF KeyTypes, Shape
<1>4. Table
    BY <1>1 DEF Table
<1>5. (\A c \in Client : Sound(c)) /\ \A f \in Key : Settled(f)
    BY <1>0, <1>1, <1>2 DEF Sound, Settled, Listed
<1>6. Products
    <2>1. Unborn \notin Name /\ Unborn \in Name \cup {Unborn, Gone}
        BY <1>0 DEF Unborn, Gone, Name, Id
    <2> QED
        BY <2>1 DEF Init, Products, Exists
<1>7. Builds
    <2>1. NoBuild \in BuildRecord /\ NoBuild.at = "idle" /\ NoBuild.key = 0
        BY DEF NoBuild, BuildRecord, Name
    <2> QED
        BY <1>0, <2>1 DEF Init, Builds, Read, HasRead
<1> QED
    BY <1>0, <1>3, <1>4, <1>5, <1>6, <1>7 DEF CatalogInv, KeyInv

(* Rows that stay where they are disturb neither products nor builds. *)
LEMMA OthersStay ==
    ASSUME CatalogInv, RowsStay, KeyInv'
    PROVE  /\ product' = product /\ monitored' = monitored => Products'
           /\ build' = build => Builds'
<1>1. ASSUME product' = product, monitored' = monitored PROVE Products'
    BY <1>1 DEF CatalogInv, Products, Exists, MayName, RowsStay
<1>2. ASSUME build' = build, NEW p \in Product PROVE Read(p)'
    <2>1. build[p].key \in Name /\ HasRead(build[p])
        BY DEF CatalogInv, Builds, BuildRecord, Read
    <2>2. last \in Int /\ last' \in Int /\ Name \subseteq Int
        BY KeyParameters DEF CatalogInv, KeyInv, KeyTypes, Name, Id
    <2> QED
        <3>1. PICK k \in Name : k = build[p].key
            BY <2>1
        <3>2. k <= last' /\ (k \in Rows' => k \in Rows /\ row'[k] = row[k])
            BY <2>1, <2>2, <3>1 DEF RowsStay, HasRead
        <3> QED
            BY <1>2, <2>1, <3>1, <3>2 DEF Read, HasRead
<1> QED
    BY <1>1, <1>2 DEF CatalogInv, Builds

(* The database's constraints keep the products in order. *)
LEMMA ProductSteps ==
    ASSUME CatalogInv, NEW p \in Product,
           \/ \E i \in Name : Create(p, i) \/ Update(p, i) \/ Duplicate(p, i)
           \/ Upsert(p) \/ Delete(p)
    PROVE  Products' /\ UNCHANGED <<kvars, build>>
<1>1. UNCHANGED <<kvars, build>> /\ Rows' = Rows
    BY DEF Create, Update, Duplicate, Upsert, Delete, kvars, Rows
<1>2. /\ Unborn \notin Name /\ Gone \notin Name
      /\ product \in [Product -> Name \cup {Unborn, Gone}]
    BY KeyParameters DEF Unborn, Gone, Name, Id, CatalogInv, Products
<1>3. ASSUME NEW i \in Name, Create(p, i) \/ Update(p, i) \/ Duplicate(p, i)
      PROVE  Products'
    <2>1. /\ MayName(i) /\ product' = [product EXCEPT ![p] = i]
          /\ monitored' \subseteq monitored \cup {p}
        BY <1>3 DEF Create, Update, Duplicate
    <2> QED
        BY <1>1, <1>2, <2>1 DEF CatalogInv, Products, Exists, MayName
<1>4. CASE Upsert(p)
    BY <1>1, <1>4 DEF Upsert, CatalogInv, Products, Exists, MayName
<1>5. CASE Delete(p)
    BY <1>1, <1>2, <1>5 DEF Delete, CatalogInv, Products, Exists, MayName
<1> QED
    BY <1>1, <1>3, <1>4, <1>5

(* A build reads an id that exists, and then the fingerprint of its row. *)
LEMMA BuildSteps ==
    ASSUME CatalogInv, NEW p \in Product, Trigger(p) \/ Resolve(p) \/ Sign(p) \/ Finish(p)
    PROVE  Builds' /\ UNCHANGED <<kvars, product, monitored>>
<1>0. PICK b : build' = [build EXCEPT ![p] = b] /\ UNCHANGED <<kvars, product, monitored>>
               /\ \/ Trigger(p) /\ b = [NoBuild EXCEPT !.at = "resolve", !.key = product[p]]
                  \/ Resolve(p) /\ b = [build[p] EXCEPT !.at = "sign", !.fp = Fingerprint(build[p].key)]
                  \/ Resolve(p) /\ b = [build[p] EXCEPT !.at = "sign", !.misread = TRUE]
                  \/ Sign(p) /\ b = [build[p] EXCEPT !.at = "signed"]
                  \/ Finish(p) /\ b = NoBuild
    BY DEF Trigger, Resolve, Sign, Finish, Build
<1>1. row' = row /\ last' = last /\ Rows' = Rows
    BY <1>0 DEF kvars, Rows
<1>2. /\ row \in [Id -> Key \cup {None}] /\ last \in Nat /\ Rows \subseteq Id
      /\ \A i \in Rows : i <= last
    BY KeyParameters DEF CatalogInv, KeyInv, KeyTypes, Table, Rows
<1>3. build \in [Product -> BuildRecord] /\ build[p] \in BuildRecord /\ HasRead(build[p])
    BY DEF CatalogInv, Builds, Read
<1>4. b \in BuildRecord /\ HasRead(b)
    <2>1. CASE Trigger(p) /\ b = [NoBuild EXCEPT !.at = "resolve", !.key = product[p]]
        <3>1. product[p] \in Name /\ product[p] <= last
            BY <1>2, <2>1 DEF Trigger, Exists, CatalogInv, Products, MayName
        <3>2. PICK k \in Name : k = product[p] /\ k <= last
            BY <3>1
        <3>3. b = [at |-> "resolve", key |-> k, fp |-> None, misread |-> FALSE]
            BY <2>1, <3>2 DEF NoBuild
        <3> QED
            BY <3>2, <3>3 DEF BuildRecord, HasRead
    <2>2. CASE b = [build[p] EXCEPT !.at = "sign", !.fp = Fingerprint(build[p].key)] /\ Resolve(p)
        <3>1. PICK f \in Key \cup {None} : f = Fingerprint(build[p].key)
            BY <1>2 DEF Fingerprint
        <3>2. b = [build[p] EXCEPT !.at = "sign", !.fp = f]
            BY <2>2, <3>1
        <3>3. /\ b \in BuildRecord /\ b.key = build[p].key /\ b.fp = f /\ b.at = "sign"
              /\ b.misread = build[p].misread
            BY <1>3, <3>2 DEF BuildRecord
        <3> QED
            BY <1>3, <2>2, <3>1, <3>3 DEF HasRead, Fingerprint, Resolve
    <2>3. CASE b = [build[p] EXCEPT !.at = "sign", !.misread = TRUE] /\ Resolve(p)
        <3>1. PICK yes \in BOOLEAN : yes = TRUE
            OBVIOUS
        <3>2. b = [build[p] EXCEPT !.at = "sign", !.misread = yes]
            BY <2>3, <3>1
        <3>3. /\ b \in BuildRecord /\ b.key = build[p].key /\ b.fp = build[p].fp /\ b.at = "sign"
              /\ b.misread = yes
            BY <1>3, <3>2 DEF BuildRecord
        <3> QED
            BY <1>3, <2>3, <3>1, <3>3 DEF HasRead, Resolve
    <2>4. CASE Sign(p) /\ b = [build[p] EXCEPT !.at = "signed"]
        <3>1. /\ b \in BuildRecord /\ b.key = build[p].key /\ b.fp = build[p].fp
              /\ b.misread = build[p].misread /\ b.at = "signed"
            BY <1>3, <2>4 DEF BuildRecord
        <3> QED
            BY <1>3, <2>4, <3>1 DEF HasRead, Sign
    <2>5. CASE b = NoBuild
        BY <1>2, <2>5 DEF NoBuild, BuildRecord, Name, HasRead
    <2> QED
        BY <1>0, <2>1, <2>2, <2>3, <2>4, <2>5
<1>5. build' \in [Product -> BuildRecord]
    BY <1>0, <1>3, <1>4
<1>6. ASSUME NEW q \in Product PROVE Read(q)'
    <2>1. build'[q] = IF q = p THEN b ELSE build[q]
        BY <1>0, <1>3
    <2> QED
        BY <1>1, <1>4, <2>1 DEF CatalogInv, Builds, Read, HasRead
<1> QED
    BY <1>0, <1>5, <1>6 DEF Builds

(* The row of a key goes: its products name none, and builds that read it stay. *)
LEMMA DropSteps ==
    ASSUME CatalogInv, NEW c \in Client, DropRowAndNames(c)
    PROVE  CatalogInv'
<1>1. /\ KeyInv' /\ last' = last
      /\ request[c].id \in Id /\ Rows' = Rows \ {request[c].id}
      /\ \A i \in Rows' : row'[i] = row[i]
    BY RowDropped DEF CatalogInv, DropRowAndNames
<1>2. PICK k \in Id : k = request[c].id
    BY <1>1
<1>3. /\ dflt' = dflt \ {k} /\ build' = build /\ monitored' = monitored
      /\ product' = [p \in Product |-> IF product[p] = k THEN 0 ELSE product[p]]
    BY <1>2 DEF DropRowAndNames, DropRow
<1>4. Products'
    <2>1. 0 \in Name /\ k \in Name
        BY DEF Name
    <2> QED
        BY <1>1, <1>2, <1>3, <2>1 DEF CatalogInv, Products, Exists, MayName
<1>5. Builds'
    BY <1>1, <1>3 DEF CatalogInv, Builds, Read, HasRead
<1> QED
    BY <1>1, <1>2, <1>3, <1>4, <1>5 DEF CatalogInv

(* Every step of Catalog keeps the invariant: products, keys and builds. *)
LEMMA NextCatalog == CatalogInv /\ [Next]_vars => CatalogInv'
<1> SUFFICES ASSUME CatalogInv, [Next]_vars PROVE CatalogInv'
    OBVIOUS
<1>0. ASSUME UNCHANGED kvars PROVE KeyInv' /\ RowsStay /\ (dflt \subseteq Rows)'
    <2>1. /\ keyring' = keyring /\ row' = row /\ last' = last /\ dflt' = dflt
          /\ generated' = generated /\ request' = request /\ mixed' = mixed
        BY <1>0 DEF kvars
    <2>2. Rows' = Rows /\ \A g : Listed(g)' <=> Listed(g)
        BY <2>1 DEF Rows, Listed
    <2>3. KeyTypes' /\ Table'
        BY <2>1, <2>2 DEF CatalogInv, KeyInv, KeyTypes, Shape, Table
    <2>4. (\A c \in Client : Sound(c)') /\ (\A f \in Key : Settled(f)')
        BY <2>1, <2>2 DEF CatalogInv, KeyInv, Sound, Settled
    <2>5. RowsStay /\ (dflt \subseteq Rows)'
        BY <2>1, <2>2, KeyParameters DEF CatalogInv, KeyInv, KeyTypes, RowsStay
    <2> QED
        BY <2>3, <2>4, <2>5 DEF KeyInv
<1>1. CASE KStep /\ UNCHANGED pvars
    <2>1. KeyInv' /\ RowsStay /\ (dflt \subseteq Rows)'
        BY <1>1, KeySteps DEF CatalogInv
    <2> QED
        BY <1>1, <2>1, OthersStay DEF pvars, CatalogInv
<1>2. ASSUME NEW c \in Client, DropRowAndNames(c) PROVE CatalogInv'
    BY <1>2, DropSteps
<1>3. ASSUME NEW p \in Product,
             \/ \E i \in Name : Create(p, i) \/ Update(p, i) \/ Duplicate(p, i)
             \/ Upsert(p) \/ Delete(p)
      PROVE  CatalogInv'
    <2>1. Products' /\ UNCHANGED kvars /\ build' = build
        BY <1>3, ProductSteps
    <2> QED
        BY <1>0, <2>1, OthersStay DEF CatalogInv
<1>4. ASSUME NEW p \in Product, Trigger(p) \/ Resolve(p) \/ Sign(p) \/ Finish(p)
      PROVE  CatalogInv'
    <2>1. Builds' /\ UNCHANGED kvars /\ product' = product /\ monitored' = monitored
        BY <1>4, BuildSteps
    <2> QED
        BY <1>0, <2>1, OthersStay DEF CatalogInv
<1>5. CASE CrashRestart
    <2>1. /\ KCrash /\ build' = [p \in Product |-> NoBuild]
          /\ product' = product /\ monitored' = monitored /\ dflt' = dflt
        BY <1>5 DEF CrashRestart, KCrash
    <2>2. KeyInv' /\ Rows' = Rows
        BY <2>1, KeyCrash DEF CatalogInv
    <2>3. NoBuild \in BuildRecord /\ NoBuild.at = "idle" /\ NoBuild.key = 0 /\ last' >= 0
        BY <2>2, KeyParameters DEF NoBuild, BuildRecord, Name, KeyInv, KeyTypes
    <2>4. Products' /\ Builds'
        BY <2>1, <2>2, <2>3 DEF CatalogInv, Products, Exists, MayName, Builds, Read, HasRead
    <2> QED
        BY <2>1, <2>2, <2>4 DEF CatalogInv
<1>6. CASE UNCHANGED vars
    BY <1>0, <1>6, OthersStay DEF vars, pvars, CatalogInv
<1> QED
    BY <1>1, <1>2, <1>3, <1>4, <1>5, <1>6 DEF Next

(* The invariant holds in every reachable state. *)
LEMMA CatalogInvHolds == Spec => []CatalogInv
BY InitCatalog, NextCatalog, PTL DEF Spec

-----------------------------------------------------------------------------
(* Types: ids are used once, a default key is a listed one, products name
   keys that are listed and monitors belong to products that exist: the
   UNIQUE, ON DELETE SET NULL and ON DELETE CASCADE of the schema.          *)
THEOREM CatalogTypes == Spec => []TypeOK
<1>1. CatalogInv => TypeOK
    <2> SUFFICES ASSUME CatalogInv PROVE TypeOK
        OBVIOUS
    <2>1. KTypeOK
        BY DEF CatalogInv, KeyInv, KeyTypes, KTypeOK, RequestRecord
    <2> QED
        BY <2>1 DEF CatalogInv, Products, Builds, BuildRecord, TypeOK
<1> QED
    BY <1>1, CatalogInvHolds, PTL

(* Once all requests for a key have returned, the table lists it if and only
   if the keyring has it, unless its last change failed or met another.     *)
THEOREM KeysListed == Spec => []TableIsKeyring
<1>1. CatalogInv => TableIsKeyring
    BY DEF CatalogInv, KeyInv, Settled, TableIsKeyring
<1> QED
    BY <1>1, CatalogInvHolds, PTL

(* A build has the key that its product named at the trigger as long as that
   key is listed, not being deleted and not mixed up; it has none if the row
   could not be read, and never another.                                    *)
THEOREM BuildsHaveTheirKey == Spec => []SignsWhileListed
<1>1. CatalogInv => SignsWhileListed
    <2> SUFFICES ASSUME CatalogInv, NEW p \in Product, build[p].at \in {"sign", "signed"},
                        build[p].key \in Rows, row[build[p].key] \notin mixed,
                        \A c \in Client : request[c].id # build[p].key
                 PROVE  IF build[p].misread THEN build[p].fp = None
                        ELSE build[p].fp = row[build[p].key] /\ build[p].fp \in keyring
        BY DEF SignsWhileListed
    <2>1. build[p].fp = IF build[p].misread THEN None ELSE row[build[p].key]
        BY DEF CatalogInv, Builds, Read, HasRead
    <2>2. PICK f \in Key : f = row[build[p].key] /\ Listed(f)
        BY DEF CatalogInv, KeyInv, KeyTypes, Rows, Listed
    <2>3. CASE \A c \in Client : request[c].fp # f
        BY <2>1, <2>2, <2>3 DEF CatalogInv, KeyInv, Settled
    <2>4. ASSUME NEW c \in Client, request[c].fp = f PROVE f \in keyring
        <3>1. Sound(c) /\ Shape(c) /\ request[c].op \in {"none", "add", "drop"}
            BY DEF CatalogInv, KeyInv, KeyTypes, RequestRecord
        <3>2. request[c].op # "none" /\ request[c].fp \notin mixed
            BY <2>2, <2>4, <3>1 DEF Shape
        <3> QED
            BY <2>2, <2>4, <3>1, <3>2 DEF Sound
    <2> QED
        BY <2>1, <2>2, <2>3, <2>4
<1> QED
    BY <1>1, CatalogInvHolds, PTL
=============================================================================
