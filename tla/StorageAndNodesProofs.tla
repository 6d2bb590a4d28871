------------------------ MODULE StorageAndNodesProofs ------------------------
(***************************************************************************)
(* Proofs about the storage of a host and its part among the nodes: the     *)
(* registry, remote actions, mounted targets, thin pools on LUNs, exports   *)
(* of snapshots.  For each an invariant is shown to hold of the component   *)
(* by itself, and then of the host, whose steps are theirs.                 *)
(***************************************************************************)
EXTENDS MCStorageAndNodes, TLAPS

(* The registry of nodes.                                                   *)
OpType == [kind : {"none", "save", "delete", "local"}, id : Ids \cup {NoId}, url : Urls]

RequestType == [pc : {"idle", "id", "writeId", "read", "open", "write", "replace"},
                op : OpType, nodes : SUBSET Records, fd : {"none", "tmp", "file", "lost"}]

(* What a request is for is known from its first step on, its id from when  *)
(* it is to read the registry.                                              *)
Purposeful ==
    \A t \in Threads :
       /\ th[t].pc \in {"id", "writeId"} => th[t].op.kind = "local"
       /\ th[t].pc \notin {"idle", "id"} =>
             th[t].op.kind \in {"save", "delete", "local"} /\ th[t].op.id \in Ids

(* Every list of records there is: what a file holds or a request has read. *)
IsList(X) == \/ X = Readable(file) \/ X = Readable(tmp)
             \/ \E t \in Threads : X = th[t].nodes

(* The id of a request's new record, until it has made its list.            *)
Pending(t) == th[t].pc \in {"writeId", "read"} /\ th[t].op.kind \in {"save", "local"}

(* The id of a node that is being added is nobody else's.                   *)
FreshId(t) ==
    /\ \A X \in SUBSET Records : IsList(X) => \A r \in X : r.id # th[t].op.id
    /\ th[t].op.id # idFile
    /\ \A q \in Threads \ {t} : Pending(q) => th[q].op.id # th[t].op.id

Drawn ==
    /\ \A X \in SUBSET Records : IsList(X) => Unique(X) /\ \A r \in X : r.id < nextId
    /\ idFile # NoId => idFile < nextId
    /\ \A t \in Threads : Pending(t) => th[t].op.id < nextId
    /\ \A t \in Threads : At(t, "read") /\ th[t].op.kind = "save" => FreshId(t)

(* Saves that do not overlap: the one under way has made its list of what   *)
(* the registry holds, and the temporary file is its own.                   *)
Alone ==
    ~overlap =>
       /\ Readable(file) = wanted
       /\ \A t, q \in Threads : Saving(t) /\ Saving(q) => t = q
       /\ \A t \in Threads : Saving(t) => th[t].nodes = Applied(th[t].op, wanted)
       /\ \A t \in Threads : At(t, "write") => th[t].fd = "tmp" /\ tmp = Torn
       /\ \A t \in Threads : At(t, "replace") => tmp = th[t].nodes

Inv == Purposeful /\ Drawn /\ Alone

LEMMA Types ==
    ASSUME TypeOK
    PROVE  /\ th \in [Threads -> RequestType]
           /\ \A t \in Threads : th[t] \in RequestType /\ th[t].op \in OpType
           /\ Readable(file) \in SUBSET Records /\ Readable(tmp) \in SUBSET Records
           /\ \A t \in Threads : th[t].nodes \in SUBSET Records
<1>1. th \in [Threads -> RequestType]
  BY DEF TypeOK, RequestType, OpType
<1>2. \A t \in Threads : th[t] \in RequestType
  BY <1>1
<1>3. \A t \in Threads : th[t].op \in OpType /\ th[t].nodes \in SUBSET Records
  BY <1>2 DEF RequestType
<1> QED
  BY <1>1, <1>2, <1>3 DEF TypeOK, Contents, Readable

LEMMA InvInit == Init => TypeOK /\ Inv
<1> SUFFICES ASSUME Init PROVE TypeOK /\ Inv
  OBVIOUS
<1>1. Idle \in RequestType
  BY ConstantsAssumption DEF Idle, NoOp, RequestType, OpType
<1>2. \A t \in Threads : th[t].pc = "idle" /\ th[t].fd = "none" /\ th[t].nodes = {}
  BY DEF Init, Idle
<1>3. TypeOK
  <2>1. th \in [Threads -> RequestType]
    BY <1>1 DEF Init
  <2>2. nextId \in 1..(MaxId + 1)
    BY ConstantsAssumption DEF Init
  <2> QED
    BY <1>2, <2>1, <2>2 DEF Init, TypeOK, RequestType, OpType, Contents
<1>4. Readable(file) = {} /\ Readable(tmp) = {} /\ wanted = {} /\ idFile = NoId
  BY DEF Init, Readable
<1>5. Drawn
  BY <1>2, <1>4 DEF Drawn, IsList, Unique, Pending, At
<1> QED
  BY <1>2, <1>3, <1>4, <1>5 DEF Inv, Purposeful, Alone, Saving, At

-----------------------------------------------------------------------------
(* What a request makes of a list.                                          *)

LEMMA AppliedType ==
    ASSUME NEW X \in SUBSET Records, NEW op \in OpType,
           op.kind \in {"save", "delete", "local"}, op.id \in Ids
    PROVE  /\ Applied(op, X) \in SUBSET Records
           /\ \A r \in Applied(op, X) : \/ \E s \in X : r.id = s.id
                                        \/ op.kind \in {"save", "local"} /\ r.id = op.id
<1>1. CASE op.kind = "save"
  <2> DEFINE new == [id |-> op.id, url |-> op.url, local |-> FALSE]
  <2>1. Applied(op, X) \in {X, X \cup {new}}
    BY <1>1 DEF Applied, Upserted
  <2>2. new \in Records /\ new.id = op.id
    BY DEF Records, OpType
  <2> HIDE DEF new
  <2> QED
    BY <1>1, <2>1, <2>2
<1>2. CASE op.kind = "delete"
  <2>1. Applied(op, X) = {r \in X : r.id # op.id}
    BY <1>2 DEF Applied
  <2> QED
    BY <2>1
<1>3. CASE op.kind = "local"
  <2>1. Applied(op, X) = WithLocal(X, op.id)
    BY <1>3 DEF Applied
  <2>2. CASE \E r \in X : r.id = op.id
    <3>1. Applied(op, X) = {[r EXCEPT !.local = r.local \/ r.id = op.id] : r \in X}
      BY <2>1, <2>2 DEF WithLocal
    <3>2. ASSUME NEW r \in X
          PROVE  /\ [r EXCEPT !.local = r.local \/ r.id = op.id] \in Records
                 /\ [r EXCEPT !.local = r.local \/ r.id = op.id].id = r.id
      BY DEF Records
    <3> QED
      BY <3>1, <3>2
  <2>3. CASE ~\E r \in X : r.id = op.id
    <3> DEFINE new == [id |-> op.id, url |-> Self, local |-> TRUE]
    <3>1. Applied(op, X) = X \cup {new}
      BY <2>1, <2>3 DEF WithLocal
    <3>2. new \in Records /\ new.id = op.id
      BY ConstantsAssumption DEF Records
    <3> HIDE DEF new
    <3> QED
      BY <1>3, <3>1, <3>2
  <2> QED
    BY <2>2, <2>3
<1> QED
  BY <1>1, <1>2, <1>3

LEMMA AppliedUnique ==
    ASSUME NEW X \in SUBSET Records, NEW op \in OpType, Unique(X),
           op.kind \in {"save", "delete", "local"}, op.id \in Ids,
           op.kind = "save" => \A r \in X : r.id # op.id
    PROVE  Unique(Applied(op, X))
<1>1. CASE op.kind = "save"
  <2> DEFINE new == [id |-> op.id, url |-> op.url, local |-> FALSE]
  <2>1. \/ Applied(op, X) = X
        \/ Applied(op, X) = X \cup {new} /\ \A r \in X : r.url # op.url
    BY <1>1 DEF Applied, Upserted
  <2>2. new.id = op.id /\ new.url = op.url
    OBVIOUS
  <2> HIDE DEF new
  <2> QED
    BY <1>1, <2>1, <2>2 DEF Unique
<1>2. CASE op.kind = "delete"
  <2>1. Applied(op, X) = {r \in X : r.id # op.id}
    BY <1>2 DEF Applied
  <2> QED
    BY <2>1 DEF Unique
<1>3. CASE op.kind = "local"
  <2>1. Applied(op, X) = WithLocal(X, op.id)
    BY <1>3 DEF Applied
  <2>2. CASE \E r \in X : r.id = op.id
    <3> DEFINE f(r) == [r EXCEPT !.local = r.local \/ r.id = op.id]
    <3>1. Applied(op, X) = {f(r) : r \in X}
      BY <2>1, <2>2 DEF WithLocal
    <3>2. ASSUME NEW r \in X
          PROVE  /\ f(r).id = r.id /\ f(r).url = r.url
                 /\ r.local => f(r).local
      BY DEF Records
    <3> HIDE DEF f
    <3> QED
      BY <3>1, <3>2 DEF Unique
  <2>3. CASE ~\E r \in X : r.id = op.id
    <3> DEFINE new == [id |-> op.id, url |-> Self, local |-> TRUE]
    <3>1. Applied(op, X) = X \cup {new}
      BY <2>1, <2>3 DEF WithLocal
    <3>2. new.id = op.id /\ new.local
      OBVIOUS
    <3> HIDE DEF new
    <3> QED
      BY <2>3, <3>1, <3>2 DEF Unique
  <2> QED
    BY <2>2, <2>3
<1> QED
  BY <1>1, <1>2, <1>3

-----------------------------------------------------------------------------
(* A step that makes no new list, draws no id and asks for nothing new.     *)
LEMMA DrawnKept ==
    ASSUME TypeOK, Drawn, UNCHANGED <<idFile, nextId>>,
           \A X \in SUBSET Records : IsList(X)' => IsList(X) \/ X = {},
           \A t \in Threads : \/ th'[t].pc = th[t].pc /\ th'[t].op = th[t].op
                              \/ th'[t].pc \notin {"id", "writeId", "read"}
    PROVE  Drawn'
<1>1. \A t \in Threads : Pending(t)' => Pending(t) /\ th'[t].op = th[t].op
  BY DEF Pending
<1>2. \A t \in Threads : At(t, "read")' => At(t, "read") /\ th'[t].op = th[t].op
  BY DEF At
<1>3. \A t \in Threads : At(t, "read")' /\ th'[t].op.kind = "save" => FreshId(t)'
  BY <1>1, <1>2 DEF Drawn, FreshId
<1>4. \A X \in SUBSET Records : IsList(X)' => Unique(X) /\ \A r \in X : r.id < nextId
  BY DEF Drawn, Unique
<1> QED
  BY <1>1, <1>3, <1>4 DEF Drawn

(* The list a request makes of the registry.                                *)
LEMMA ReadStep ==
    ASSUME TypeOK, Inv, NEW t \in Threads, ReadNodes(t)
    PROVE  TypeOK' /\ Inv'
<1> DEFINE op == th[t].op
           X == Readable(file)
           r == [th[t] EXCEPT !.pc = "open", !.nodes = Applied(op, X)]
<1>t. /\ th \in [Threads -> RequestType] /\ th[t] \in RequestType /\ op \in OpType
      /\ X \in SUBSET Records
  BY Types
<1>1. op.kind \in {"save", "delete", "local"} /\ op.id \in Ids /\ th[t].pc = "read"
  BY DEF ReadNodes, Inv, Purposeful, At
<1>2. /\ Applied(op, X) \in SUBSET Records
      /\ \A q \in Applied(op, X) : \/ \E s \in X : q.id = s.id
                                   \/ op.kind \in {"save", "local"} /\ q.id = op.id
  BY <1>t, <1>1, AppliedType
<1>3. IsList(X) /\ Unique(X) /\ \A q \in X : q.id < nextId
  BY <1>t DEF IsList, Inv, Drawn
<1>4. Unique(Applied(op, X)) /\ \A q \in Applied(op, X) : q.id < nextId
  <2>1. op.kind = "save" => \A q \in X : q.id # op.id
    BY <1>t, <1>1, <1>3 DEF Inv, Drawn, FreshId, At
  <2>2. Unique(Applied(op, X))
    BY <1>t, <1>1, <1>3, <2>1, AppliedUnique
  <2>3. op.kind \in {"save", "local"} => op.id < nextId
    BY <1>1 DEF Inv, Drawn, Pending
  <2> QED
    BY <1>2, <1>3, <2>2, <2>3
<1>5. /\ r \in RequestType /\ r.pc = "open" /\ r.op = op /\ r.nodes = Applied(op, X)
      /\ r.fd = th[t].fd
  BY <1>t, <1>2 DEF RequestType
<1>6. /\ th' = [th EXCEPT ![t] = r]
      /\ overlap' = (overlap \/ \E q \in Threads : Saving(q))
      /\ UNCHANGED <<file, tmp, idFile, nextId, wanted>>
  BY DEF ReadNodes, Goto
<1> HIDE DEF r, X
<1>7. \A q \in Threads : th'[q] = IF q = t THEN r ELSE th[q]
  BY <1>t, <1>6
<1>8. TypeOK'
  <2>1. th' \in [Threads -> RequestType] /\ overlap' \in BOOLEAN
    BY <1>t, <1>5, <1>6 DEF TypeOK
  <2>2. \A q \in Threads : th'[q].pc = "write" <=> th'[q].fd # "none"
    BY <1>1, <1>5, <1>7 DEF TypeOK
  <2> QED
    BY <1>6, <2>1, <2>2 DEF TypeOK, RequestType, OpType
<1>9. Purposeful'
  BY <1>1, <1>5, <1>7 DEF Inv, Purposeful
<1>10. \A q \in Threads : /\ Pending(q)' => q # t /\ Pending(q) /\ th'[q].op = th[q].op
                          /\ At(q, "read")' => q # t /\ At(q, "read") /\ th'[q].op = th[q].op
  BY <1>5, <1>7 DEF Pending, At
<1>11. \A Y \in SUBSET Records : IsList(Y)' => IsList(Y) \/ Y = Applied(op, X)
  BY <1>5, <1>6, <1>7 DEF IsList, Readable
<1>12. Drawn'
  <2>1. ASSUME NEW q \in Threads, At(q, "read")', th'[q].op.kind = "save" PROVE FreshId(q)'
    <3>1. q # t /\ At(q, "read") /\ th'[q].op = th[q].op /\ FreshId(q)
      BY <1>10, <2>1 DEF Inv, Drawn
    <3>2. \A s \in Applied(op, X) : s.id # th[q].op.id
      <4>1. \A s \in X : s.id # th[q].op.id
        BY <1>t, <1>3, <3>1 DEF FreshId
      <4>2. op.kind \in {"save", "local"} => op.id # th[q].op.id
        BY <1>1, <3>1 DEF FreshId, Pending
      <4> QED
        BY <1>2, <4>1, <4>2
    <3> QED
      BY <1>6, <1>10, <1>11, <3>1, <3>2 DEF FreshId
  <2>2. \A Y \in SUBSET Records : IsList(Y)' => Unique(Y)' /\ \A s \in Y : s.id < nextId'
    BY <1>4, <1>6, <1>11 DEF Inv, Drawn, Unique
  <2>3. \A q \in Threads : Pending(q)' => th'[q].op.id < nextId'
    BY <1>6, <1>10 DEF Inv, Drawn
  <2> QED
    BY <1>6, <2>1, <2>2, <2>3 DEF Inv, Drawn
<1>13. Alone'
  <2> SUFFICES ASSUME ~overlap'
               PROVE  /\ Readable(file)' = wanted'
                      /\ \A p, q \in Threads : Saving(p)' /\ Saving(q)' => p = q
                      /\ \A q \in Threads : Saving(q)' =>
                            th'[q].nodes = Applied(th'[q].op, wanted')
                      /\ \A q \in Threads : At(q, "write")' => th'[q].fd = "tmp" /\ tmp' = Torn
                      /\ \A q \in Threads : At(q, "replace")' => tmp' = th'[q].nodes
    BY DEF Alone, Applied, Upserted, WithLocal
  <2>1. ~overlap /\ \A q \in Threads : ~Saving(q)
    BY <1>6, <1>8 DEF TypeOK
  <2>2. Readable(file) = wanted /\ X = wanted
    BY <2>1 DEF Inv, Alone, X
  <2>3. \A q \in Threads : th'[q].pc \in {"open", "write", "replace"} => q = t /\ th'[q] = r
    BY <1>7, <2>1 DEF Saving
  <2> QED
    BY <1>5, <1>6, <2>2, <2>3 DEF Saving, At, Readable
<1> QED
  BY <1>8, <1>9, <1>12, <1>13 DEF Inv

-----------------------------------------------------------------------------
(* The other steps.                                                         *)

(* A request begins, or draws the id it is for.                             *)
LEMMA AskStep ==
    ASSUME TypeOK, Inv, NEW t \in Threads, NEW r \in RequestType, Goto(t, r),
           th[t].pc \in {"idle", "id"}, r.pc \in {"id", "writeId", "read"},
           r.nodes \in {{}, th[t].nodes}, r.fd = "none",
           r.pc \in {"id", "writeId"} => r.op.kind = "local",
           r.pc # "id" => r.op.kind \in {"save", "delete", "local"} /\ r.op.id \in Ids,
           nextId' \in Nat, nextId' <= MaxId + 1,
           \/ r.op.kind \in {"save", "local"} /\ r.op.id = nextId /\ nextId' = nextId + 1
           \/ r.op.kind = "delete" /\ nextId' = nextId
           \/ r.op.kind = "local" /\ r.op.id = idFile /\ nextId' = nextId
           \/ r.pc = "id" /\ nextId' = nextId,
           UNCHANGED <<file, tmp, idFile, wanted, overlap>>
    PROVE  TypeOK' /\ Inv'
<1>t. /\ th \in [Threads -> RequestType] /\ nextId \in Nat /\ nextId >= 1
      /\ idFile \in Ids \cup {NoId} /\ MaxId \in Nat
  BY Types, ConstantsAssumption DEF TypeOK
<1>1. th' = [th EXCEPT ![t] = r] /\ th' \in [Threads -> RequestType]
  BY <1>t DEF Goto
<1>2. \A q \in Threads : th'[q] = IF q = t THEN r ELSE th[q]
  BY <1>t, <1>1
<1>3. TypeOK'
  <2>1. \A q \in Threads : th'[q].pc = "write" <=> th'[q].fd # "none"
    BY <1>2 DEF TypeOK
  <2>2. nextId' \in 1..(MaxId + 1)
    BY <1>t
  <2> QED
    BY <1>1, <2>1, <2>2 DEF TypeOK, RequestType, OpType, Contents
<1>4. Purposeful'
  BY <1>2 DEF Inv, Purposeful
<1>5. \A q \in Threads : /\ Saving(q)' <=> Saving(q)
                         /\ Saving(q) => th'[q] = th[q]
                         /\ At(q, "write")' => At(q, "write") /\ th'[q] = th[q]
                         /\ At(q, "replace")' => At(q, "replace") /\ th'[q] = th[q]
  BY <1>2 DEF Saving, At
<1>6. Alone'
  <2> SUFFICES ASSUME ~overlap
               PROVE  /\ Readable(file)' = wanted
                      /\ \A p, q \in Threads : Saving(p)' /\ Saving(q)' => p = q
                      /\ \A q \in Threads : Saving(q)' =>
                            th'[q].nodes = Applied(th'[q].op, wanted)
                      /\ \A q \in Threads : At(q, "write")' => th'[q].fd = "tmp" /\ tmp = Torn
                      /\ \A q \in Threads : At(q, "replace")' => tmp = th'[q].nodes
    BY DEF Alone, Applied, Upserted, WithLocal
  <2>1. Readable(file)' = Readable(file)
    BY DEF Readable
  <2> QED
    BY <1>5, <2>1 DEF Inv, Alone
<1>7. \A X \in SUBSET Records : IsList(X)' => IsList(X) \/ X = {}
  BY <1>2 DEF IsList, Readable
<1>8. nextId <= nextId' /\ \A X \in SUBSET Records : \A q \in X : q.id \in Nat
  BY <1>t, ConstantsAssumption DEF Records, Ids
<1>9. \A q \in Threads : /\ Pending(q)' /\ q # t => Pending(q) /\ th'[q].op = th[q].op
                         /\ At(q, "read")' /\ q # t => At(q, "read") /\ th'[q].op = th[q].op
                         /\ th[q].pc \notin {"idle", "id"} => th[q].op.id \in Nat
  BY <1>2, ConstantsAssumption DEF Pending, At, Inv, Purposeful, Ids
<1>10. idFile # NoId => idFile \in Nat /\ idFile < nextId
  BY <1>t, ConstantsAssumption DEF Inv, Drawn, Ids
<1>11. Pending(t)' => r.op.id \in Nat /\ r.op.id < nextId'
  <2> SUFFICES ASSUME Pending(t)' PROVE r.op.id \in Nat /\ r.op.id < nextId'
    OBVIOUS
  <2>1. r.pc \in {"writeId", "read"} /\ r.op.kind \in {"save", "local"} /\ r.op.id \in Ids
    BY <1>2 DEF Pending
  <2>2. \/ r.op.id = nextId /\ nextId' = nextId + 1
        \/ r.op.id = idFile /\ nextId' = nextId
    BY <2>1
  <2> QED
    BY <1>t, <1>10, <2>1, <2>2, ConstantsAssumption
<1>12. Drawn'
  <2>1. \A X \in SUBSET Records : IsList(X)' => Unique(X) /\ \A q \in X : q.id < nextId'
    <3> SUFFICES ASSUME NEW X \in SUBSET Records, IsList(X)', NEW q \in X
                 PROVE  Unique(X) /\ q.id < nextId'
      BY <1>7 DEF Inv, Drawn, Unique
    <3>1. IsList(X)
      BY <1>7
    <3>2. Unique(X) /\ q.id < nextId
      BY <3>1 DEF Inv, Drawn
    <3> QED
      BY <1>t, <1>8, <3>2
  <2>2. idFile # NoId => idFile < nextId'
    BY <1>t, <1>8, <1>10
  <2>3. ASSUME NEW q \in Threads, Pending(q)' PROVE th'[q].op.id < nextId'
    <3>1. CASE q = t
      BY <3>1, <1>2, <1>11, <2>3
    <3>2. CASE q # t
      <4>1. Pending(q) /\ th'[q].op = th[q].op /\ th[q].op.id \in Nat
        BY <3>2, <2>3, <1>9 DEF Pending
      <4>2. th[q].op.id < nextId
        BY <4>1 DEF Inv, Drawn
      <4> QED
        BY <1>t, <1>8, <4>1, <4>2
    <3> QED
      BY <3>1, <3>2
  <2>4. ASSUME NEW q \in Threads, At(q, "read")', th'[q].op.kind = "save" PROVE FreshId(q)'
    <3>1. CASE q = t
      <4>1. r.op.kind = "save" /\ r.pc = "read"
        BY <3>1, <1>2, <2>4 DEF At
      <4>2. r.op.id = nextId
        BY <4>1
      <4>3. \A X \in SUBSET Records : IsList(X)' => \A s \in X : s.id # nextId
        <5> SUFFICES ASSUME NEW X \in SUBSET Records, IsList(X)', NEW s \in X
                     PROVE  s.id # nextId
          OBVIOUS
        <5>1. s.id < nextId /\ s.id \in Nat
          BY <1>7, <1>8 DEF Inv, Drawn
        <5> QED
          BY <1>t, <5>1
      <4>4. \A p \in Threads \ {t} : Pending(p)' => th'[p].op.id # nextId
        <5> SUFFICES ASSUME NEW p \in Threads \ {t}, Pending(p)' PROVE th'[p].op.id # nextId
          OBVIOUS
        <5>1. Pending(p) /\ th'[p].op = th[p].op /\ th[p].op.id \in Nat
          BY <1>9 DEF Pending
        <5>2. th[p].op.id < nextId
          BY <5>1 DEF Inv, Drawn
        <5> QED
          BY <1>t, <5>1, <5>2
      <4>5. nextId # idFile
        BY <1>t, <1>10, ConstantsAssumption, <4>1, <4>2
      <4> QED
        BY <3>1, <1>2, <4>2, <4>3, <4>4, <4>5 DEF FreshId
    <3>2. CASE q # t
      <4>1. At(q, "read") /\ th'[q].op = th[q].op /\ Pending(q)
        BY <3>2, <1>9, <2>4 DEF Pending, At
      <4>2. FreshId(q) /\ th[q].op.id < nextId /\ th[q].op.id \in Nat
        BY <4>1, <1>9, <2>4 DEF Inv, Drawn, At
      <4>3. Pending(t)' => r.op.id # th[q].op.id
        <5> SUFFICES ASSUME Pending(t)' PROVE r.op.id # th[q].op.id
          OBVIOUS
        <5>1. r.pc \in {"writeId", "read"} /\ r.op.kind \in {"save", "local"}
          BY <1>2 DEF Pending
        <5>2. r.op.id = nextId \/ r.op.id = idFile
          BY <5>1
        <5> QED
          BY <1>t, <4>2, <5>2 DEF FreshId
      <4> QED
        BY <1>2, <1>7, <1>9, <4>1, <4>2, <4>3 DEF FreshId
    <3> QED
      BY <3>1, <3>2
  <2> QED
    BY <2>1, <2>2, <2>3, <2>4 DEF Drawn, Unique
<1> QED
  BY <1>3, <1>4, <1>6, <1>12 DEF Inv

LEMMA AskSteps ==
    ASSUME TypeOK, Inv, NEW t \in Threads,
           \/ \E url \in Urls : SaveNode(t, url)
           \/ \E id \in Ids : DeleteNode(t, id)
           \/ RegisterLocal(t) \/ ReadId(t)
    PROVE  TypeOK' /\ Inv'
<1>t. /\ nextId \in Nat /\ nextId <= MaxId + 1 /\ MaxId \in Nat
      /\ nextId \in Ids => nextId + 1 \in Nat /\ nextId + 1 <= MaxId + 1
      /\ th[t] \in RequestType /\ th[t].op \in OpType /\ Self \in Urls
  BY Types, ConstantsAssumption DEF TypeOK, Ids
<1>1. ASSUME NEW url \in Urls, SaveNode(t, url) PROVE TypeOK' /\ Inv'
  <2> DEFINE r == [Idle EXCEPT !.pc = "read",
                               !.op = [kind |-> "save", id |-> nextId, url |-> url]]
  <2>1. /\ At(t, "idle") /\ nextId \in Ids /\ nextId' = nextId + 1 /\ Goto(t, r)
        /\ UNCHANGED <<file, tmp, idFile, wanted, overlap>>
    BY <1>1 DEF SaveNode
  <2>2. /\ r \in RequestType /\ r.pc = "read" /\ r.nodes = {} /\ r.fd = "none"
        /\ r.op.kind = "save" /\ r.op.id = nextId
    BY <2>1 DEF Idle, RequestType, OpType
  <2> HIDE DEF r
  <2> QED
    BY <1>t, <2>1, <2>2, AskStep DEF At
<1>2. ASSUME NEW id \in Ids, DeleteNode(t, id) PROVE TypeOK' /\ Inv'
  <2> DEFINE o == [NoOp EXCEPT !.kind = "delete", !.id = id]
             r == [Idle EXCEPT !.pc = "read", !.op = o]
  <2>1. /\ At(t, "idle") /\ nextId' = nextId /\ Goto(t, r)
        /\ UNCHANGED <<file, tmp, idFile, wanted, overlap>>
    BY <1>2 DEF DeleteNode
  <2>2. o \in OpType /\ o.kind = "delete" /\ o.id = id
    BY <1>t DEF NoOp, OpType
  <2> HIDE DEF o
  <2>3. /\ r \in RequestType /\ r.pc = "read" /\ r.nodes = {} /\ r.fd = "none"
        /\ r.op = o
    BY <2>2 DEF Idle, RequestType
  <2> HIDE DEF r
  <2> QED
    BY <1>t, <2>1, <2>2, <2>3, AskStep DEF At
<1>3. ASSUME RegisterLocal(t) PROVE TypeOK' /\ Inv'
  <2> DEFINE o == [NoOp EXCEPT !.kind = "local"]
             r == [Idle EXCEPT !.pc = "id", !.op = o]
  <2>1. /\ At(t, "idle") /\ nextId' = nextId /\ Goto(t, r)
        /\ UNCHANGED <<file, tmp, idFile, wanted, overlap>>
    BY <1>3 DEF RegisterLocal, Idle
  <2>2. o \in OpType /\ o.kind = "local"
    BY <1>t DEF NoOp, OpType
  <2> HIDE DEF o
  <2>3. /\ r \in RequestType /\ r.pc = "id" /\ r.nodes = {} /\ r.fd = "none"
        /\ r.op = o
    BY <2>2 DEF Idle, RequestType
  <2> HIDE DEF r
  <2> QED
    BY <1>t, <2>1, <2>2, <2>3, AskStep DEF At
<1>4. ASSUME ReadId(t) PROVE TypeOK' /\ Inv'
  <2>1. th[t].pc = "id" /\ th[t].op.kind = "local" /\ th[t].fd = "none"
    BY <1>4 DEF ReadId, At, Inv, Purposeful, TypeOK
  <2>2. UNCHANGED <<file, tmp, idFile, wanted, overlap>>
    BY <1>4 DEF ReadId
  <2>3. CASE idFile # NoId /\ Goto(t, [th[t] EXCEPT !.pc = "read", !.op.id = idFile])
             /\ UNCHANGED nextId
    <3> DEFINE o == [th[t].op EXCEPT !.id = idFile]
               r == [th[t] EXCEPT !.pc = "read", !.op = o]
    <3>1. Goto(t, r)
      BY <2>3, <1>t DEF RequestType, OpType
    <3>2. o \in OpType /\ o.kind = "local" /\ o.id = idFile /\ idFile \in Ids
      BY <1>t, <2>1, <2>3 DEF OpType, TypeOK
    <3> HIDE DEF o
    <3>3. /\ r \in RequestType /\ r.pc = "read" /\ r.nodes = th[t].nodes /\ r.fd = "none"
          /\ r.op = o
      BY <1>t, <2>1, <3>2 DEF RequestType
    <3> HIDE DEF r
    <3> QED
      BY <1>t, <2>1, <2>2, <2>3, <3>1, <3>2, <3>3, AskStep
  <2>4. CASE nextId \in Ids /\ Goto(t, [th[t] EXCEPT !.pc = "writeId", !.op.id = nextId])
             /\ nextId' = nextId + 1
    <3> DEFINE o == [th[t].op EXCEPT !.id = nextId]
               r == [th[t] EXCEPT !.pc = "writeId", !.op = o]
    <3>1. Goto(t, r)
      BY <2>4, <1>t DEF RequestType, OpType
    <3>2. o \in OpType /\ o.kind = "local" /\ o.id = nextId
      BY <1>t, <2>1, <2>4 DEF OpType
    <3> HIDE DEF o
    <3>3. /\ r \in RequestType /\ r.pc = "writeId" /\ r.nodes = th[t].nodes /\ r.fd = "none"
          /\ r.op = o
      BY <1>t, <2>1, <3>2 DEF RequestType
    <3> HIDE DEF r
    <3> QED
      BY <1>t, <2>1, <2>2, <2>4, <3>1, <3>2, <3>3, AskStep
  <2> QED
    BY <1>4, <2>3, <2>4 DEF ReadId
<1> QED
  BY <1>1, <1>2, <1>3, <1>4

(* The new id is written: the request that drew it is the only one it is    *)
(* pending for, but for registrations of this node.                         *)
LEMMA WriteIdStep ==
    ASSUME TypeOK, Inv, NEW t \in Threads, WriteId(t)
    PROVE  TypeOK' /\ Inv'
<1> DEFINE r == [th[t] EXCEPT !.pc = "read"]
<1>t. /\ th \in [Threads -> RequestType] /\ th[t] \in RequestType
  BY Types
<1>1. /\ th[t].pc = "writeId" /\ idFile' = th[t].op.id /\ th' = [th EXCEPT ![t] = r]
      /\ UNCHANGED <<file, tmp, nextId, wanted, overlap>>
  BY DEF WriteId, At, Goto
<1>2. th[t].op.kind = "local" /\ th[t].op.id \in Ids
  BY <1>1 DEF Inv, Purposeful
<1>3. /\ r \in RequestType /\ r.pc = "read" /\ r.op = th[t].op /\ r.nodes = th[t].nodes
      /\ r.fd = th[t].fd
  BY <1>t DEF RequestType
<1> HIDE DEF r
<1>4. \A q \in Threads : th'[q] = IF q = t THEN r ELSE th[q]
  BY <1>t, <1>1
<1>5. TypeOK'
  <2>1. th' \in [Threads -> RequestType]
    BY <1>t, <1>1, <1>3
  <2>2. \A q \in Threads : th'[q].pc = "write" <=> th'[q].fd # "none"
    BY <1>1, <1>3, <1>4 DEF TypeOK
  <2> QED
    BY <1>1, <1>2, <2>1, <2>2 DEF TypeOK, RequestType, OpType
<1>6. Purposeful'
  BY <1>2, <1>3, <1>4 DEF Inv, Purposeful
<1>7. \A q \in Threads : /\ Pending(q)' <=> Pending(q)
                         /\ At(q, "read") => At(q, "read")'
                         /\ At(q, "read")' => At(q, "read") \/ th[q].op.kind = "local"
                         /\ th'[q].op = th[q].op /\ th'[q].nodes = th[q].nodes
  BY <1>1, <1>2, <1>3, <1>4 DEF Pending, At
<1>8. \A X : IsList(X)' <=> IsList(X)
  BY <1>1, <1>7 DEF IsList, Readable
<1>9. Pending(t)
  BY <1>1, <1>2 DEF Pending
<1>10. Drawn'
  <2>1. ASSUME NEW q \in Threads, At(q, "read")', th'[q].op.kind = "save" PROVE FreshId(q)'
    <3>1. q # t /\ At(q, "read") /\ th[q].op.kind = "save"
      BY <1>2, <1>7, <2>1
    <3>2. FreshId(q)
      BY <3>1 DEF Inv, Drawn
    <3>3. th[q].op.id # th[t].op.id
      BY <3>1, <3>2, <1>9 DEF FreshId
    <3> QED
      BY <1>1, <1>7, <1>8, <3>2, <3>3 DEF FreshId
  <2>2. idFile' < nextId
    BY <1>1, <1>9 DEF Inv, Drawn
  <2> QED
    BY <1>1, <1>7, <1>8, <2>1, <2>2 DEF Inv, Drawn, Unique
<1>11. Alone'
  <2>1. \A q \in Threads : /\ Saving(q)' <=> Saving(q)
                           /\ At(q, "write")' => At(q, "write") /\ th'[q] = th[q]
                           /\ At(q, "replace")' => At(q, "replace")
    BY <1>1, <1>3, <1>4 DEF Saving, At
  <2> SUFFICES ASSUME ~overlap
               PROVE  /\ Readable(file)' = wanted
                      /\ \A p, q \in Threads : Saving(p)' /\ Saving(q)' => p = q
                      /\ \A q \in Threads : Saving(q)' =>
                            th'[q].nodes = Applied(th'[q].op, wanted)
                      /\ \A q \in Threads : At(q, "write")' => th'[q].fd = "tmp" /\ tmp = Torn
                      /\ \A q \in Threads : At(q, "replace")' => tmp = th'[q].nodes
    BY <1>1 DEF Alone, Applied, Upserted, WithLocal
  <2>2. Readable(file)' = Readable(file)
    BY <1>1 DEF Readable
  <2> QED
    BY <1>7, <2>1, <2>2 DEF Inv, Alone
<1> QED
  BY <1>5, <1>6, <1>10, <1>11 DEF Inv

(* The steps that write the files.                                          *)
LEMMA WriteSteps ==
    ASSUME TypeOK, Inv, NEW t \in Threads, OpenTmp(t) \/ WriteTmp(t)
    PROVE  TypeOK' /\ Inv'
<1> DEFINE r == IF At(t, "open") THEN [th[t] EXCEPT !.pc = "write", !.fd = "tmp"]
                ELSE [th[t] EXCEPT !.pc = "replace", !.fd = "none"]
<1>t. /\ th \in [Threads -> RequestType] /\ th[t] \in RequestType
      /\ th[t].nodes \in SUBSET Records
  BY Types
<1>1. /\ th' = [th EXCEPT ![t] = r] /\ th[t].pc \in {"open", "write"}
      /\ UNCHANGED <<idFile, nextId, wanted, overlap>>
  BY DEF OpenTmp, WriteTmp, At, Goto
<1>2. /\ r \in RequestType /\ r.op = th[t].op /\ r.nodes = th[t].nodes
      /\ \/ th[t].pc = "open" /\ r.pc = "write" /\ r.fd = "tmp"
         \/ th[t].pc = "write" /\ r.pc = "replace" /\ r.fd = "none"
  <2>1. CASE th[t].pc = "open"
    <3>1. r = [th[t] EXCEPT !.pc = "write", !.fd = "tmp"]
      BY <2>1 DEF At
    <3> HIDE DEF r
    <3> QED
      BY <1>t, <2>1, <3>1 DEF RequestType
  <2>2. CASE th[t].pc = "write"
    <3>1. r = [th[t] EXCEPT !.pc = "replace", !.fd = "none"]
      BY <2>2 DEF At
    <3> HIDE DEF r
    <3> QED
      BY <1>t, <2>2, <3>1 DEF RequestType
  <2> QED
    BY <1>1, <2>1, <2>2
<1> HIDE DEF r
<1>3. \A q \in Threads : th'[q] = IF q = t THEN r ELSE th[q]
  BY <1>t, <1>1
<1>4. file' \in {file, Torn, th[t].nodes} /\ tmp' \in {tmp, Torn, th[t].nodes}
  <2>1. CASE OpenTmp(t)
    BY <2>1 DEF OpenTmp
  <2>2. CASE WriteTmp(t)
    <3>1. th[t].fd \in {"tmp", "file", "lost"}
      BY <2>2, <1>t DEF WriteTmp, At, TypeOK, RequestType
    <3> QED
      BY <2>2, <3>1 DEF WriteTmp, Overwritten
  <2> QED
    BY <2>1, <2>2
<1>5. file' \in Contents /\ tmp' \in Contents
  BY <1>t, <1>4 DEF TypeOK, Contents
<1>6. TypeOK'
  <2>1. th' \in [Threads -> RequestType]
    BY <1>t, <1>1, <1>2
  <2>2. \A q \in Threads : th'[q].pc = "write" <=> th'[q].fd # "none"
    BY <1>2, <1>3 DEF TypeOK
  <2> QED
    BY <1>1, <1>5, <2>1, <2>2 DEF TypeOK, RequestType, OpType
<1>7. Purposeful'
  BY <1>2, <1>3 DEF Inv, Purposeful
<1>8. Drawn'
  <2>1. \A X \in SUBSET Records : IsList(X)' => IsList(X) \/ X = {}
    <3>1. \A q \in Threads : th'[q].nodes = th[q].nodes
      BY <1>2, <1>3
    <3>2. /\ Readable(file)' \in {Readable(file), {}, th[t].nodes}
          /\ Readable(tmp)' \in {Readable(tmp), {}, th[t].nodes}
      BY <1>4 DEF Readable
    <3> QED
      BY <3>1, <3>2 DEF IsList
  <2>2. \A q \in Threads : \/ th'[q].pc = th[q].pc /\ th'[q].op = th[q].op
                           \/ th'[q].pc \notin {"id", "writeId", "read"}
    BY <1>2, <1>3
  <2> QED
    BY <1>1, <2>1, <2>2, DrawnKept DEF Inv
<1>9. Alone'
  <2> SUFFICES ASSUME ~overlap
               PROVE  /\ Readable(file)' = wanted
                      /\ \A p, q \in Threads : Saving(p)' /\ Saving(q)' => p = q
                      /\ \A q \in Threads : Saving(q)' =>
                            th'[q].nodes = Applied(th'[q].op, wanted)
                      /\ \A q \in Threads : At(q, "write")' => th'[q].fd = "tmp" /\ tmp' = Torn
                      /\ \A q \in Threads : At(q, "replace")' => tmp' = th'[q].nodes
    BY <1>1 DEF Alone, Applied, Upserted, WithLocal
  <2>1. /\ Readable(file) = wanted
        /\ \A q \in Threads : Saving(q) => q = t
        /\ th[t].nodes = Applied(th[t].op, wanted)
        /\ At(t, "write") => th[t].fd = "tmp" /\ tmp = Torn
    BY <1>1 DEF Inv, Alone, Saving
  <2>2. \A q \in Threads : Saving(q)' => q = t
    BY <1>1, <1>3, <2>1 DEF Saving
  <2>3. \A q \in Threads : At(q, "write")' \/ At(q, "replace")' => q = t /\ th'[q].pc = r.pc
    BY <1>3, <2>2 DEF At, Saving
  <2>4. CASE OpenTmp(t)
    <3>1. file' = file /\ tmp' = Torn /\ r.pc = "write"
      BY <2>4, <1>2 DEF OpenTmp, At
    <3> QED
      BY <3>1, <1>2, <1>3, <2>1, <2>2, <2>3 DEF Readable, At
  <2>5. CASE WriteTmp(t)
    <3>1. file' = file /\ tmp' = th[t].nodes /\ r.pc = "replace"
      BY <2>5, <1>2, <2>1 DEF WriteTmp, At, Overwritten
    <3> QED
      BY <3>1, <1>2, <1>3, <2>1, <2>2, <2>3 DEF Readable, At
  <2> QED
    BY <2>4, <2>5
<1> QED
  BY <1>6, <1>7, <1>8, <1>9 DEF Inv

(* The temporary file becomes the registry, or is gone already.             *)
LEMMA ReplaceStep ==
    ASSUME TypeOK, Inv, NEW t \in Threads, Replace(t)
    PROVE  TypeOK' /\ Inv'
<1>t. /\ th \in [Threads -> RequestType]
      /\ \A q \in Threads : th[q] \in RequestType /\ th[q].op \in OpType
      /\ th[t].pc = "replace" /\ th[t].fd = "none"
  BY Types DEF Replace, At, TypeOK
<1>0. Idle \in RequestType /\ Idle.pc = "idle" /\ Idle.nodes = {} /\ Idle.fd = "none"
  BY ConstantsAssumption DEF Idle, NoOp, RequestType, OpType
<1>1. CASE tmp = NoFile
  <2>1. th' = [th EXCEPT ![t] = Idle] /\ UNCHANGED <<file, tmp, idFile, nextId, wanted, overlap>>
    BY <1>1 DEF Replace, Goto
  <2>2. \A q \in Threads : th'[q] = IF q = t THEN Idle ELSE th[q]
    BY <1>t, <2>1
  <2>3. TypeOK'
    <3>1. th' \in [Threads -> RequestType]
      BY <1>t, <1>0, <2>1
    <3>2. \A q \in Threads : th'[q].pc = "write" <=> th'[q].fd # "none"
      BY <1>0, <2>2 DEF TypeOK
    <3> QED
      BY <2>1, <3>1, <3>2 DEF TypeOK, RequestType, OpType, Contents
  <2>4. Purposeful'
    BY <1>0, <2>2 DEF Inv, Purposeful
  <2>5. Drawn'
    <3>1. \A X \in SUBSET Records : IsList(X)' => IsList(X) \/ X = {}
      BY <1>0, <2>1, <2>2 DEF IsList, Readable
    <3>2. \A q \in Threads : \/ th'[q].pc = th[q].pc /\ th'[q].op = th[q].op
                             \/ th'[q].pc \notin {"id", "writeId", "read"}
      BY <1>0, <2>2
    <3> QED
      BY <2>1, <3>1, <3>2, DrawnKept DEF Inv
  <2>6. overlap
    <3>1. th[t].nodes \in SUBSET Records /\ NoFile # th[t].nodes
      BY <1>t, ConstantsAssumption DEF RequestType
    <3> QED
      BY <1>1, <1>t, <3>1 DEF Inv, Alone, At
  <2>7. Alone'
    BY <2>1, <2>6 DEF Alone
  <2> QED
    BY <2>3, <2>4, <2>5, <2>7 DEF Inv
<1>2. CASE tmp # NoFile
  <2> DEFINE moved(fd) == IF fd = "tmp" THEN "file" ELSE IF fd = "file" THEN "lost" ELSE fd
  <2>1. /\ file' = tmp /\ tmp' = NoFile
        /\ th' = [q \in Threads |-> IF q = t THEN Idle
                                    ELSE [th[q] EXCEPT !.fd = moved(th[q].fd)]]
        /\ wanted' = Applied(th[t].op, wanted)
        /\ UNCHANGED <<idFile, nextId, overlap>>
    BY <1>2 DEF Replace
  <2>2. \A q \in Threads : /\ moved(th[q].fd) \in {"none", "tmp", "file", "lost"}
                           /\ moved(th[q].fd) = "none" <=> th[q].fd = "none"
    BY <1>t DEF RequestType
  <2> HIDE DEF moved
  <2>3. ASSUME NEW q \in Threads, q # t
        PROVE  /\ th'[q] \in RequestType /\ th'[q].pc = th[q].pc /\ th'[q].op = th[q].op
               /\ th'[q].nodes = th[q].nodes /\ th'[q].fd = moved(th[q].fd)
    <3>1. th'[q] = [th[q] EXCEPT !.fd = moved(th[q].fd)]
      BY <2>1, <2>3
    <3> QED
      BY <1>t, <2>2, <3>1 DEF RequestType
  <2>4. th'[t] = Idle
    BY <2>1
  <2>5. th' \in [Threads -> RequestType]
    BY <1>0, <2>1, <2>3, <2>4
  <2>6. th[t].op.kind \in {"save", "delete", "local"} /\ th[t].op.id \in Ids
    BY <1>t DEF Inv, Purposeful
  <2>7. TypeOK'
    <3>1. wanted' \in SUBSET Records
      BY <1>t, <2>1, <2>6, AppliedType DEF TypeOK
    <3>2. \A q \in Threads : th'[q].pc = "write" <=> th'[q].fd # "none"
      BY <1>0, <2>2, <2>3, <2>4 DEF TypeOK
    <3> QED
      BY <2>1, <2>5, <3>1, <3>2 DEF TypeOK, RequestType, OpType, Contents
  <2>8. Purposeful'
    BY <1>0, <2>3, <2>4 DEF Inv, Purposeful
  <2>9. Drawn'
    <3>1. \A X \in SUBSET Records : IsList(X)' => IsList(X) \/ X = {}
      BY <1>0, <2>1, <2>3, <2>4 DEF IsList, Readable
    <3>2. \A q \in Threads : \/ th'[q].pc = th[q].pc /\ th'[q].op = th[q].op
                             \/ th'[q].pc \notin {"id", "writeId", "read"}
      BY <1>0, <2>3, <2>4
    <3> QED
      BY <2>1, <3>1, <3>2, DrawnKept DEF Inv
  <2>10. Alone'
    <3> SUFFICES ASSUME ~overlap
                 PROVE  Readable(file)' = wanted' /\ \A q \in Threads : ~Saving(q)'
      BY <2>1 DEF Alone, Saving, At
    <3>1. /\ \A q \in Threads : Saving(q) => q = t
          /\ tmp = th[t].nodes /\ th[t].nodes = Applied(th[t].op, wanted)
      BY <1>t DEF Inv, Alone, Saving, At
    <3>2. \A q \in Threads : ~Saving(q)'
      BY <1>0, <2>3, <2>4, <3>1 DEF Saving
    <3>3. tmp \notin {Torn, NoFile}
      BY <1>t, <3>1, ConstantsAssumption DEF RequestType
    <3>4. Readable(file)' = tmp
      BY <2>1, <3>3 DEF Readable
    <3> QED
      BY <2>1, <3>1, <3>2, <3>4
  <2> QED
    BY <2>7, <2>8, <2>9, <2>10 DEF Inv
<1> QED
  BY <1>1, <1>2

LEMMA CrashStep ==
    ASSUME TypeOK, Inv, Crash
    PROVE  TypeOK' /\ Inv'
<1>1. /\ \A t \in Threads : th'[t] = Idle
      /\ th' = [t \in Threads |-> Idle]
      /\ UNCHANGED <<file, tmp, idFile, nextId, wanted, overlap>>
  BY DEF Crash
<1>2. Idle \in RequestType /\ Idle.pc = "idle" /\ Idle.nodes = {} /\ Idle.fd = "none"
  BY ConstantsAssumption DEF Idle, NoOp, RequestType, OpType
<1>3. TypeOK'
  <2>1. th' \in [Threads -> RequestType]
    BY <1>1, <1>2
  <2> QED
    BY <1>1, <1>2, <2>1 DEF TypeOK, RequestType, OpType, Contents
<1>4. Purposeful'
  BY <1>1, <1>2 DEF Purposeful
<1>5. Drawn'
  <2>1. \A X \in SUBSET Records : IsList(X)' => IsList(X) \/ X = {}
    BY <1>1, <1>2 DEF IsList, Readable
  <2> QED
    BY <1>1, <1>2, <2>1, DrawnKept DEF Inv
<1>6. Alone'
  <2>1. Readable(file)' = Readable(file)
    BY <1>1 DEF Readable
  <2> QED
    BY <1>1, <1>2, <2>1 DEF Inv, Alone, Saving, At
<1> QED
  BY <1>3, <1>4, <1>5, <1>6 DEF Inv

LEMMA RegistryStep == TypeOK /\ Inv /\ [Next]_vars => TypeOK' /\ Inv'
<1> SUFFICES ASSUME TypeOK, Inv, [Next]_vars PROVE TypeOK' /\ Inv'
  OBVIOUS
<1>1. CASE \E t \in Threads : \/ \E url \in Urls : SaveNode(t, url)
                              \/ \E id \in Ids : DeleteNode(t, id)
                              \/ RegisterLocal(t) \/ ReadId(t)
  BY <1>1, AskSteps
<1>2. CASE \E t \in Threads : WriteId(t)
  BY <1>2, WriteIdStep
<1>3. CASE \E t \in Threads : ReadNodes(t)
  BY <1>3, ReadStep
<1>4. CASE \E t \in Threads : OpenTmp(t) \/ WriteTmp(t)
  BY <1>4, WriteSteps
<1>5. CASE \E t \in Threads : Replace(t)
  BY <1>5, ReplaceStep
<1>6. CASE Crash
  BY <1>6, CrashStep
<1>7. CASE UNCHANGED vars
  <2>1. UNCHANGED <<file, tmp, idFile, nextId, th, wanted, overlap>>
    BY <1>7 DEF vars
  <2>2. TypeOK' /\ Purposeful'
    BY <2>1 DEF TypeOK, Contents, Inv, Purposeful
  <2>3. Readable(file)' = Readable(file) /\ Readable(tmp)' = Readable(tmp)
    BY <2>1 DEF Readable
  <2>4. Drawn'
    BY <2>1, <2>3, DrawnKept DEF Inv, IsList
  <2>5. Alone'
    BY <2>1, <2>3 DEF Inv, Alone, Saving, At
  <2> QED
    BY <2>2, <2>4, <2>5 DEF Inv
<1> QED
  BY <1>1, <1>2, <1>3, <1>4, <1>5, <1>6, <1>7 DEF Next

-----------------------------------------------------------------------------
(* Remote actions.                                                          *)
Quiet(c)   == ran[c] = [h \in Urls |-> 0]
Once(c, h) == ran[c] = [g \in Urls |-> IF g = h THEN 1 ELSE 0]

Messages == {"none", "request", "200", "400", "401"}

ClickType == [pc : {"idle", "local", "waiting"} \cup R!Told,
              url : Urls \cup {NoHost}, token : Tokens \cup {NoToken}]

(* Where a click stands tells whether libvirt has been called for it.       *)
Stands(c) ==
    /\ click[c].pc \in {"waiting", "unanswered"} => click[c].url \in Urls
    /\ click[c].pc \in {"idle", "local", "refused"} => Quiet(c)
    /\ click[c].pc = "done" => \E h \in {click[c].url, Self} : h \in Urls /\ Once(c, h)
    /\ message[c] \in {"request", "400", "401"} => Quiet(c)
    /\ message[c] = "200" => Once(c, click[c].url)
    /\ Quiet(c) \/ \E h \in Urls : Once(c, h)

Standing == \A c \in Threads : Stands(c)

LEMMA RemoteStart == R!Init => R!TypeOK /\ Standing
BY DEF R!Init, R!TypeOK, Standing, Stands, R!Fresh, Quiet, R!Told

LEMMA StandingImplies == R!TypeOK /\ Standing => R!RemoteRight
<1> SUFFICES ASSUME R!TypeOK, Standing PROVE R!RemoteRight
  OBVIOUS
<1>1. ASSUME NEW c \in Threads, NEW h \in Urls, Quiet(c) PROVE ran[c][h] = 0
  BY <1>1 DEF Quiet
<1>2. ASSUME NEW c \in Threads, NEW h \in Urls, NEW g \in Urls, Once(c, h)
      PROVE  ran[c][g] = IF g = h THEN 1 ELSE 0
  BY <1>2 DEF Once
<1>3. R!AnswersTrue
  BY <1>1, <1>2 DEF R!AnswersTrue, Standing, Stands
<1>4. R!AtMostOnce
  <2> SUFFICES ASSUME NEW c \in Threads, NEW g \in Urls, NEW h \in Urls
               PROVE  ran[c][g] <= 1 /\ (ran[c][g] > 0 /\ ran[c][h] > 0 => g = h)
    BY DEF R!AtMostOnce
  <2>1. CASE Quiet(c)
    BY <2>1, <1>1
  <2>2. CASE \E k \in Urls : Once(c, k)
    BY <2>2, <1>2
  <2> QED
    BY <2>1, <2>2 DEF Standing, Stands
<1> QED
  BY <1>3, <1>4 DEF R!RemoteRight

(* A step of one click leaves the others where they stand.                  *)
LEMMA OneClick ==
    ASSUME R!ConstantsAssumption, R!TypeOK, Standing,
           NEW c \in Threads, NEW k \in ClickType, NEW m \in Messages, NEW r \in [Urls -> 0..2],
           click' = [click EXCEPT ![c] = k], message' = [message EXCEPT ![c] = m],
           ran' = [ran EXCEPT ![c] = r],
           UNCHANGED <<nodes, secret>>,
           m # "none" => k.pc \in {"waiting", "unanswered"},
           Stands(c)'
    PROVE  R!TypeOK' /\ Standing'
<1>1. /\ click \in [Threads -> ClickType]
      /\ message \in [Threads -> Messages]
      /\ ran \in [Threads -> [Urls -> 0..2]]
      /\ \A d \in Threads : message[d] # "none" => click[d].pc \in {"waiting", "unanswered"}
  BY DEF R!TypeOK, ClickType, Messages
<1>2. /\ click' \in [Threads -> ClickType]
      /\ message' \in [Threads -> Messages]
      /\ ran' \in [Threads -> [Urls -> 0..2]]
  BY <1>1
<1>3. \A d \in Threads : message'[d] # "none" => click'[d].pc \in {"waiting", "unanswered"}
  BY <1>1
<1>4. R!TypeOK'
  BY <1>2, <1>3 DEF R!TypeOK, ClickType, Messages
<1>5. ASSUME NEW d \in Threads, d # c PROVE Stands(d)'
  <2>1. click'[d] = click[d] /\ message'[d] = message[d] /\ ran'[d] = ran[d]
    BY <1>1, <1>5
  <2>2. Stands(d)
    BY DEF Standing
  <2> QED
    BY <2>1, <2>2 DEF Stands, Quiet, Once
<1> QED
  BY <1>4, <1>5 DEF Standing

LEMMA ClickStep ==
    ASSUME R!ConstantsAssumption, R!TypeOK, Standing, NEW c \in Threads,
           \/ \E n \in Nodes : R!Click(c, n)
           \/ R!Unsupported(c) \/ R!Local(c)
           \/ R!Serve(c) \/ R!Lose(c) \/ R!Answer(c) \/ R!GiveUp(c)
    PROVE  R!TypeOK' /\ Standing'
<1>1. /\ click \in [Threads -> ClickType]
      /\ message \in [Threads -> Messages]
      /\ ran \in [Threads -> [Urls -> 0..2]]
      /\ nodes \in [Nodes -> R!Record \cup {NoNode}]
      /\ \A d \in Threads : message[d] # "none" => click[d].pc \in {"waiting", "unanswered"}
  BY DEF R!TypeOK, ClickType, Messages
<1>0. click[c] \in ClickType /\ ran[c] \in [Urls -> 0..2] /\ message[c] \in Messages
  BY <1>1
<1>s. Stands(c)
  BY DEF Standing
<1>t. ASSUME NEW told \in R!Told, R!Tell(c, told)
      PROVE  \E k \in ClickType : /\ click' = [click EXCEPT ![c] = k]
                                  /\ k.pc = told /\ k.url = click[c].url
  <2> DEFINE k == [click[c] EXCEPT !.pc = told]
  <2>1. click' = [click EXCEPT ![c] = k]
    BY <1>t, <1>1 DEF R!Tell
  <2>2. k \in ClickType /\ k.pc = told /\ k.url = click[c].url
    BY <1>0 DEF ClickType
  <2> QED
    BY <2>1, <2>2
<1>m. ASSUME UNCHANGED message PROVE message' = [message EXCEPT ![c] = message[c]]
  BY <1>m, <1>1
<1>r. ASSUME UNCHANGED ran PROVE ran' = [ran EXCEPT ![c] = ran[c]]
  BY <1>r, <1>1
<1>k. ASSUME UNCHANGED click PROVE click' = [click EXCEPT ![c] = click[c]]
  BY <1>k, <1>1
<1>c. ASSUME NEW h \in Urls, Quiet(c), R!Carry(c, h)
      PROVE  /\ ran' = [ran EXCEPT ![c] = [g \in Urls |-> IF g = h THEN 1 ELSE 0]]
             /\ Once(c, h)'
  <2>1. ran[c] = [g \in Urls |-> 0]
    BY <1>c DEF Quiet
  <2>2. [ran[c] EXCEPT ![h] = @ + 1] = [g \in Urls |-> IF g = h THEN 1 ELSE 0]
    BY <2>1
  <2>3. ran' = [ran EXCEPT ![c] = [ran[c] EXCEPT ![h] = @ + 1]]
    BY <1>c DEF R!Carry
  <2> QED
    BY <2>2, <2>3, <1>1 DEF Once
<1> DEFINE One(h) == [g \in Urls |-> IF g = h THEN 1 ELSE 0]
<1>o. \A h \in Urls : One(h) \in [Urls -> 0..2]
  OBVIOUS
<1> HIDE DEF One
<1>2. ASSUME NEW n \in Nodes, R!Click(c, n) PROVE R!TypeOK' /\ Standing'
  <2>1. CASE nodes[n] = NoNode
    <3>1. R!Tell(c, "refused") /\ UNCHANGED <<message, ran, nodes, secret>>
      BY <1>2, <2>1 DEF R!Click
    <3>2. PICK k \in ClickType : /\ click' = [click EXCEPT ![c] = k] /\ k.pc = "refused"
      BY <3>1, <1>t DEF R!Told
    <3>3. message[c] = "none" /\ Quiet(c)
      BY <1>2, <1>1, <1>s DEF R!Click, Stands
    <3>4. Stands(c)'
      BY <3>1, <3>2, <3>3, <1>1 DEF Stands, Quiet, Once
    <3> QED
      BY <3>1, <3>2, <3>3, <3>4, <1>0, <1>m, <1>r, OneClick
  <2>2. CASE nodes[n] # NoNode
    <3> DEFINE k == [pc |-> IF nodes[n].local THEN "local" ELSE "waiting",
                     url |-> nodes[n].url, token |-> nodes[n].token]
               m == IF nodes[n].local THEN "none" ELSE "request"
    <3>1. nodes[n] \in R!Record
      BY <2>2, <1>1
    <3>2. k \in ClickType /\ k.url \in Urls /\ k.pc \in {"local", "waiting"}
          /\ (m # "none" => k.pc = "waiting")
      BY <3>1 DEF R!Record, ClickType
    <3>3. message[c] = "none" /\ Quiet(c)
      BY <1>2, <1>1, <1>s DEF R!Click, Stands
    <3>4. /\ click' = [click EXCEPT ![c] = k] /\ message' = [message EXCEPT ![c] = m]
          /\ UNCHANGED <<ran, nodes, secret>>
      BY <1>2, <2>2, <3>3 DEF R!Click
    <3>5. m \in {"none", "request"} /\ m \in Messages
      BY DEF Messages
    <3> HIDE DEF k, m
    <3>6. click'[c] = k /\ message'[c] = m
      BY <3>4, <1>1
    <3>7. Stands(c)'
      BY <3>2, <3>3, <3>4, <3>5, <3>6 DEF Stands, Quiet, Once
    <3> QED
      BY <3>2, <3>4, <3>5, <3>7, <1>0, <1>r, OneClick
  <2> QED
    BY <2>1, <2>2
<1>3. ASSUME R!Unsupported(c) PROVE R!TypeOK' /\ Standing'
  <2>1. PICK k \in ClickType : /\ click' = [click EXCEPT ![c] = k] /\ k.pc = "refused"
    BY <1>3, <1>t DEF R!Unsupported, R!Told
  <2>2. message[c] = "none" /\ Quiet(c) /\ UNCHANGED <<message, ran, nodes, secret>>
    BY <1>3, <1>1, <1>s DEF R!Unsupported, Stands
  <2>3. Stands(c)'
    BY <2>1, <2>2, <1>1 DEF Stands, Quiet, Once
  <2> QED
    BY <2>1, <2>2, <2>3, <1>0, <1>m, <1>r, OneClick
<1>4. ASSUME R!Local(c) PROVE R!TypeOK' /\ Standing'
  <2>1. message[c] = "none" /\ Quiet(c) /\ UNCHANGED <<message, nodes, secret>>
    BY <1>4, <1>1, <1>s DEF R!Local, Stands
  <2>2. CASE R!Carry(c, Self) /\ R!Tell(c, "done")
    <3>1. PICK k \in ClickType : /\ click' = [click EXCEPT ![c] = k] /\ k.pc = "done"
      BY <2>2, <1>t DEF R!Told
    <3>2. ran' = [ran EXCEPT ![c] = One(Self)] /\ Once(c, Self)'
      BY <2>1, <2>2, <1>c DEF R!ConstantsAssumption, One
    <3>3. Stands(c)'
      BY <3>1, <3>2, <2>1, <1>1 DEF Stands, R!ConstantsAssumption
    <3> QED
      BY <3>1, <3>2, <3>3, <2>1, <1>0, <1>o, <1>m, OneClick DEF R!ConstantsAssumption
  <2>3. CASE R!Tell(c, "refused") /\ UNCHANGED ran
    <3>1. PICK k \in ClickType : /\ click' = [click EXCEPT ![c] = k] /\ k.pc = "refused"
      BY <2>3, <1>t DEF R!Told
    <3>2. Stands(c)'
      BY <3>1, <2>3, <2>1, <1>1 DEF Stands, Quiet, Once
    <3> QED
      BY <3>1, <3>2, <2>1, <2>3, <1>0, <1>m, <1>r, OneClick
  <2> QED
    BY <1>4, <2>2, <2>3 DEF R!Local
<1>5. ASSUME R!Serve(c) PROVE R!TypeOK' /\ Standing'
  <2>1. /\ message[c] = "request" /\ Quiet(c) /\ UNCHANGED <<nodes, secret, click>>
        /\ click[c].pc \in {"waiting", "unanswered"} /\ click[c].url \in Urls
    BY <1>5, <1>1, <1>s DEF R!Serve, Stands
  <2>2. ASSUME NEW m \in {"400", "401"}, message' = [message EXCEPT ![c] = m], UNCHANGED ran
        PROVE  R!TypeOK' /\ Standing'
    <3>1. Stands(c)'
      BY <2>1, <2>2, <1>1 DEF Stands, Quiet, Once
    <3> QED
      BY <3>1, <2>1, <2>2, <1>0, <1>k, <1>r, OneClick DEF Messages
  <2>3. ASSUME message' = [message EXCEPT ![c] = "200"], R!Carry(c, click[c].url)
        PROVE  R!TypeOK' /\ Standing'
    <3>1. ran' = [ran EXCEPT ![c] = One(click[c].url)] /\ Once(c, click[c].url)'
      BY <2>1, <2>3, <1>c DEF One
    <3>2. Stands(c)'
      BY <3>1, <2>1, <2>3, <1>1 DEF Stands, Once
    <3> QED
      BY <3>1, <3>2, <2>1, <2>3, <1>0, <1>o, <1>k, OneClick DEF Messages
  <2> QED
    BY <1>5, <2>2, <2>3 DEF R!Serve
<1>6. ASSUME R!Lose(c) PROVE R!TypeOK' /\ Standing'
  <2>1. message' = [message EXCEPT ![c] = "none"] /\ UNCHANGED <<nodes, secret, click, ran>>
    BY <1>6 DEF R!Lose
  <2>2. Stands(c)'
    BY <2>1, <1>1, <1>s DEF Stands, Quiet, Once
  <2> QED
    BY <2>1, <2>2, <1>0, <1>k, <1>r, OneClick DEF Messages
<1>7. ASSUME R!Answer(c) PROVE R!TypeOK' /\ Standing'
  <2> DEFINE told == IF message[c] = "200" THEN "done" ELSE "refused"
  <2>1. R!Tell(c, told) /\ told \in R!Told
        /\ message' = [message EXCEPT ![c] = "none"] /\ UNCHANGED <<nodes, secret, ran>>
    BY <1>7 DEF R!Answer, R!Told
  <2>2. PICK k \in ClickType : /\ click' = [click EXCEPT ![c] = k] /\ k.pc = told
                               /\ k.url = click[c].url
    BY <2>1, <1>t
  <2>3. /\ message[c] \in {"200", "400", "401"} /\ click[c].pc = "waiting"
        /\ click[c].url \in Urls
    BY <1>7, <1>s DEF R!Answer, Stands
  <2>4. Stands(c)'
    BY <2>1, <2>2, <2>3, <1>1, <1>s DEF Stands, Quiet, Once
  <2> QED
    BY <2>1, <2>2, <2>4, <1>0, <1>r, OneClick DEF Messages
<1>8. ASSUME R!GiveUp(c) PROVE R!TypeOK' /\ Standing'
  <2>1. PICK k \in ClickType : /\ click' = [click EXCEPT ![c] = k] /\ k.pc = "unanswered"
                               /\ k.url = click[c].url
    BY <1>8, <1>t DEF R!GiveUp, R!Told
  <2>2. click[c].url \in Urls /\ UNCHANGED <<message, ran, nodes, secret>>
    BY <1>8, <1>s DEF R!GiveUp, Stands
  <2>3. Stands(c)'
    BY <2>1, <2>2, <1>1, <1>s DEF Stands, Quiet, Once
  <2> QED
    BY <2>1, <2>2, <2>3, <1>0, <1>1, <1>m, <1>r, OneClick
<1> QED
  BY <1>2, <1>3, <1>4, <1>5, <1>6, <1>7, <1>8

LEMMA RemoteStep ==
    ASSUME R!ConstantsAssumption, R!TypeOK, Standing, [R!Next]_(R!vars)
    PROVE  R!TypeOK' /\ Standing'
<1>1. ASSUME UNCHANGED <<click, message, ran>>,
             nodes' \in [Nodes -> R!Record \cup {NoNode}], secret' \in [Urls -> Tokens]
      PROVE  R!TypeOK' /\ Standing'
  BY <1>1 DEF R!TypeOK, Standing, Stands, Quiet, Once
<1>2. ASSUME NEW n \in Nodes, NEW h \in Urls, NEW k \in Tokens \cup {NoToken},
             NEW local \in BOOLEAN, R!SaveNode(n, h, k, local)
      PROVE  R!TypeOK' /\ Standing'
  <2>1. CASE nodes[n] = NoNode
    <3>1. nodes' = [nodes EXCEPT ![n] = [url |-> h, token |-> k, local |-> local]]
      BY <1>2, <2>1 DEF R!SaveNode
    <3>2. nodes' \in [Nodes -> R!Record \cup {NoNode}]
      BY <3>1 DEF R!TypeOK, R!Record
    <3> QED
      BY <1>1, <1>2, <3>2 DEF R!SaveNode, R!TypeOK
  <2>2. CASE nodes[n] # NoNode
    <3> DEFINE new == [url |-> h, token |-> k, local |-> local]
               r == IF k = NoToken THEN nodes[n] ELSE [nodes[n] EXCEPT !.token = k]
    <3>1. nodes' = [nodes EXCEPT ![n] = IF nodes[n] = NoNode THEN new ELSE r]
      BY <1>2 DEF R!SaveNode
    <3>2. nodes[n] \in R!Record
      BY <2>2 DEF R!TypeOK
    <3>3. r \in R!Record
      BY <3>2 DEF R!Record
    <3>4. nodes' \in [Nodes -> R!Record \cup {NoNode}]
      BY <2>2, <3>1, <3>3 DEF R!TypeOK
    <3> QED
      BY <1>1, <1>2, <3>4 DEF R!SaveNode, R!TypeOK
  <2> QED
    BY <2>1, <2>2
<1>3. ASSUME NEW n \in Nodes, R!DeleteNode(n) PROVE R!TypeOK' /\ Standing'
  BY <1>1, <1>3 DEF R!DeleteNode, R!TypeOK
<1>4. ASSUME NEW h \in Urls, R!NewToken(h) PROVE R!TypeOK' /\ Standing'
  BY <1>1, <1>4 DEF R!NewToken, R!TypeOK
<1>5. CASE UNCHANGED R!vars
  BY <1>1, <1>5 DEF R!vars, R!TypeOK
<1> QED
  BY <1>2, <1>3, <1>4, <1>5, ClickStep DEF R!Next

-----------------------------------------------------------------------------
(* Mounted targets: only a target whose record names a path touches its     *)
(* unit, so what that target's last request has left is what a record says, *)
(* as long as no two records name the path.                                 *)
OnePerPath ==
    \A s, t \in M!Targets :
       s # t /\ rec[s] # NoRec /\ rec[t] # NoRec /\ rec[s].path = rec[t].path =>
          s \in shared

MountsInv == M!TypeOK /\ OnePerPath /\ M!MountsRight

(* What a target's record says of its unit, for one target.                 *)
TellsBoot(t) ==
    M!Own(t) /\ rec[t].says = "mounted" =>
        /\ t \notin half => unit[rec[t].path].enabled
        /\ unit[rec[t].path].what = rec[t].src
        /\ M!Names(t) <=> unit[rec[t].path].cred # Guest
        /\ t \in WithPool => t \in pool

StaysDown(t) ==
    t \notin half /\ M!Own(t) /\ rec[t].says = "unmounted" => ~unit[rec[t].path].enabled

MountUnits == [what : M!Srcs \cup {NoSrc}, cred : Smb \cup {Guest}, enabled : BOOLEAN]
Sayings    == {"none", "mounted", "unmounted"}

LEMMA MountsStart == M!ConstantsAssumption /\ M!Init => MountsInv
  BY DEF M!ConstantsAssumption, M!Init, MountsInv, OnePerPath, M!TypeOK, M!MountsRight, M!Own,
         M!RecordTellsBoot, M!UnmountedStaysDown, M!SecretsKept, M!Targets, M!NoUnit, M!Names

LEMMA MountTypes ==
    ASSUME M!ConstantsAssumption, MountsInv
    PROVE  /\ rec \in [M!Targets -> M!Records \cup {NoRec}] /\ NoRec \notin M!Records
           /\ unit \in [Twins -> MountUnits] /\ credfile \in [Smb -> BOOLEAN]
           /\ \A q \in Twins : unit[q].enabled => unit[q].what # NoSrc
           /\ mnt \subseteq Twins /\ NoSrc \notin M!Srcs
           /\ pool \subseteq M!Targets /\ shared \subseteq M!Targets
           /\ half \subseteq M!Targets /\ torn \subseteq Smb
           /\ \A s \in Nfs : rec[s] # NoRec => rec[s].cred = "none"
           /\ M!Targets = Nfs \cup Smb /\ Nfs \cap Smb = {} /\ Guest \notin M!Targets
           /\ \A s \in M!Targets : rec[s] # NoRec => rec[s].path \in Twins
  BY DEF MountsInv, M!TypeOK, M!ConstantsAssumption, M!Targets, M!Records, MountUnits

(* A request of one target: it answers for its own record and unit, and     *)
(* what the others' records say stays so.                                   *)
LEMMA RequestStep ==
    ASSUME MountsInv, NEW t \in M!Targets,
           M!TypeOK', OnePerPath', M!SecretsKept', TellsBoot(t)', StaysDown(t)',
           \A s \in M!Targets : s # t =>
              /\ rec'[s] = rec[s] /\ (s \in half => s \in half')
              /\ s \in pool => s \in pool'
              /\ s \in shared => s \in shared'
              /\ rec[s] # NoRec /\ s \notin shared' =>
                    unit'[rec[s].path] = unit[rec[s].path]
    PROVE  MountsInv'
<1>1. ASSUME NEW s \in M!Targets, s # t PROVE TellsBoot(s)' /\ StaysDown(s)'
  <2>1. TellsBoot(s) /\ StaysDown(s)
    BY DEF MountsInv, M!MountsRight, M!RecordTellsBoot, M!UnmountedStaysDown, TellsBoot, StaysDown
  <2> QED
    BY <1>1, <2>1 DEF TellsBoot, StaysDown, M!Own, M!Names
<1>2. \A s \in M!Targets : TellsBoot(s)' /\ StaysDown(s)'
  BY <1>1
<1>3. M!RecordTellsBoot' /\ M!UnmountedStaysDown'
  BY <1>2 DEF M!RecordTellsBoot, M!UnmountedStaysDown, TellsBoot, StaysDown, M!Targets, M!Own,
              M!Names
<1> QED
  BY <1>3 DEF MountsInv, M!MountsRight

(* Saving: the record is new, and who names its path too is noted.          *)
LEMMA PutStep ==
    ASSUME M!ConstantsAssumption, MountsInv, NEW t \in M!Targets, NEW r \in M!Records,
           r.says = "none", M!Put(t, r), UNCHANGED <<unit, mnt, pool>>,
           t \in Nfs => r.cred = "none",
           credfile' \in [Smb -> BOOLEAN], torn' \subseteq Smb, M!SecretsKept'
    PROVE  MountsInv'
<1> DEFINE others == {s \in M!Targets \ {t} : rec[s] # NoRec /\ rec[s].path = r.path}
<1>1. /\ rec' = [rec EXCEPT ![t] = r] /\ half' = half \ {t}
      /\ shared' = IF others = {} THEN shared \ {t} ELSE shared \cup others \cup {t}
  BY DEF M!Put
<1>2. /\ others \subseteq M!Targets
      /\ \A s \in M!Targets : s # t => (s \in shared => s \in shared')
      /\ \A s \in others : s \in shared' /\ t \in shared'
  BY <1>1
<1>3. rec'[t] = r /\ \A s \in M!Targets : s # t => rec'[s] = rec[s]
  BY <1>1, MountTypes
<1>4. rec' \in [M!Targets -> M!Records \cup {NoRec}] /\ shared' \subseteq M!Targets
      /\ half' \subseteq M!Targets
  BY <1>1, <1>2, MountTypes
<1>5. M!TypeOK'
  BY <1>3, <1>4, MountTypes DEF MountsInv, M!TypeOK
<1>6. OnePerPath'
  <2> SUFFICES ASSUME NEW s \in M!Targets, NEW q \in M!Targets, s # q, rec'[s] # NoRec,
                      rec'[q] # NoRec, rec'[s].path = rec'[q].path
               PROVE  s \in shared'
    BY DEF OnePerPath, M!Targets
  <2>1. CASE s = t
    BY <1>2, <1>3, <2>1
  <2>2. CASE q = t
    BY <1>2, <1>3, <2>2
  <2>3. CASE s # t /\ q # t
    BY <1>2, <1>3, <2>3 DEF MountsInv, OnePerPath
  <2> QED
    BY <2>1, <2>2, <2>3
<1>7. TellsBoot(t)' /\ StaysDown(t)'
  BY <1>3 DEF TellsBoot, StaysDown
<1> QED
  BY <1>1, <1>2, <1>3, <1>5, <1>6, <1>7, RequestStep

(* Deleting: the record goes, units and mounts stay.                        *)
LEMMA DropStep ==
    ASSUME M!ConstantsAssumption, MountsInv, NEW t \in M!Targets,
           M!Drop(t), UNCHANGED <<unit, mnt, pool>>,
           credfile' \in [Smb -> BOOLEAN], torn' \subseteq Smb, M!SecretsKept'
    PROVE  MountsInv'
<1>1. /\ rec' = [rec EXCEPT ![t] = NoRec]
      /\ shared' = shared \ {t} /\ half' = half \ {t}
  BY DEF M!Drop
<1>2. /\ rec'[t] = NoRec /\ \A s \in M!Targets : s # t => rec'[s] = rec[s]
      /\ rec' \in [M!Targets -> M!Records \cup {NoRec}]
  BY <1>1, MountTypes
<1>3. M!TypeOK'
  BY <1>1, <1>2, MountTypes DEF MountsInv, M!TypeOK
<1>4. OnePerPath'
  BY <1>1, <1>2 DEF MountsInv, OnePerPath, M!Targets
<1>5. TellsBoot(t)' /\ StaysDown(t)'
  BY <1>2 DEF TellsBoot, StaysDown, M!Own
<1> QED
  BY <1>1, <1>2, <1>3, <1>4, <1>5, RequestStep

(* Only credentials change.                                                 *)
LEMMA CredentialsStep ==
    ASSUME M!ConstantsAssumption, MountsInv,
           UNCHANGED <<rec, unit, mnt, pool, shared, half>>,
           credfile' \in [Smb -> BOOLEAN], torn' \subseteq Smb, M!SecretsKept'
    PROVE  MountsInv'
  BY DEF MountsInv, M!TypeOK, OnePerPath, M!MountsRight, M!RecordTellsBoot,
         M!UnmountedStaysDown, M!Own, M!Names, M!Targets

(* Applying and unmounting: the record's path has the unit u, and of the    *)
(* record only what it says of the mount changes, or nothing.               *)
LEMMA UnitStep ==
    ASSUME M!ConstantsAssumption, MountsInv, NEW t \in M!Targets, rec[t] # NoRec,
           NEW u \in MountUnits, u.enabled => u.what # NoSrc,
           unit' = [unit EXCEPT ![rec[t].path] = u], mnt' \subseteq Twins,
           NEW says \in Sayings, rec' = [rec EXCEPT ![t].says = says],
           half' \in {half \ {t}, half \cup {t}},
           pool \subseteq pool', pool' \subseteq M!Targets,
           says = "mounted" /\ t \notin shared =>
              /\ t \notin half' => u.enabled
              /\ u.what = rec[t].src /\ (rec[t].cred = "file" <=> u.cred # Guest)
              /\ t \in WithPool => t \in pool',
           says = "unmounted" /\ t \notin shared /\ t \notin half' => ~u.enabled,
           UNCHANGED <<credfile, shared, torn>>
    PROVE  MountsInv'
<1> DEFINE r == [rec[t] EXCEPT !.says = says]
<1>1. rec[t] \in M!Records /\ rec[t].path \in Twins
  BY MountTypes
<1>2. /\ r \in M!Records /\ r.says = says /\ r.path = rec[t].path
      /\ r.src = rec[t].src /\ r.cred = rec[t].cred
  BY <1>1 DEF M!Records, Sayings
<1>3. rec' = [rec EXCEPT ![t] = r]
  BY MountTypes
<1> HIDE DEF r
<1>4. rec'[t] = r /\ r # NoRec /\ \A s \in M!Targets : s # t => rec'[s] = rec[s]
  BY <1>2, <1>3, MountTypes
<1>5. rec' \in [M!Targets -> M!Records \cup {NoRec}]
  BY <1>2, <1>3, MountTypes
<1>6. /\ unit'[rec[t].path] = u
      /\ \A q \in Twins : q # rec[t].path => unit'[q] = unit[q]
  BY <1>1, MountTypes
<1>7. /\ unit' \in [Twins -> MountUnits]
      /\ \A q \in Twins : unit'[q].enabled => unit'[q].what # NoSrc
  BY <1>1, <1>6, MountTypes
<1>8. M!TypeOK'
  <2>1. \A s \in Nfs : rec'[s] # NoRec => rec'[s].cred = "none"
    BY <1>2, <1>4, MountTypes
  <2>2. half' \subseteq M!Targets
    BY MountTypes
  <2> QED
    BY <1>5, <1>7, <2>1, <2>2 DEF MountsInv, M!TypeOK, MountUnits
<1>9. OnePerPath'
  <2>1. \A s \in M!Targets : /\ rec'[s] # NoRec <=> rec[s] # NoRec
                             /\ rec[s] # NoRec => rec'[s].path = rec[s].path
    BY <1>2, <1>4
  <2>2. OnePerPath /\ shared' = shared
    BY DEF MountsInv
  <2> QED
    BY <2>1, <2>2 DEF OnePerPath, M!Targets
<1>10. TellsBoot(t)' /\ StaysDown(t)'
  BY <1>2, <1>4, <1>6 DEF TellsBoot, StaysDown, M!Own, M!Names
<1>11. ASSUME NEW s \in M!Targets, s # t, rec[s] # NoRec, s \notin shared'
       PROVE  unit'[rec[s].path] = unit[rec[s].path]
  <2>1. rec[s].path # rec[t].path
    BY <1>11 DEF MountsInv, OnePerPath
  <2>2. rec[s].path \in Twins
    BY <1>11, MountTypes
  <2> QED
    BY <1>6, <2>1, <2>2
<1>12. M!SecretsKept'
  BY <1>2, <1>4, MountTypes DEF MountsInv, M!MountsRight, M!SecretsKept, M!Names
<1>13. \A s \in M!Targets : s # t => (s \in half => s \in half') /\ (s \in pool => s \in pool')
  OBVIOUS
<1> QED
  BY <1>4, <1>8, <1>9, <1>10, <1>11, <1>12, <1>13, RequestStep

(* A request that ends before the record leaves it as it was.               *)
LEMMA RecordAsItWas ==
    ASSUME M!ConstantsAssumption, MountsInv, NEW t \in M!Targets, rec[t] # NoRec
    PROVE  rec = [rec EXCEPT ![t].says = rec[t].says] /\ rec[t].says \in Sayings
<1>1. rec[t] \in M!Records
  BY MountTypes
<1>2. rec[t] = [rec[t] EXCEPT !.says = rec[t].says] /\ rec[t].says \in Sayings
  BY <1>1 DEF M!Records, Sayings
<1> QED
  BY <1>2, MountTypes

LEMMA ApplyStep ==
    ASSUME M!ConstantsAssumption, MountsInv, NEW t \in M!Targets, rec[t] # NoRec,
           NEW u \in MountUnits, u.what = rec[t].src, rec[t].cred = "file" <=> u.cred # Guest,
           M!MountAndRecord(t, u)
    PROVE  MountsInv'
<1> DEFINE p  == rec[t].path
           up == p \in mnt'
           pooled == IF up /\ t \in WithPool THEN pool \cup {t} ELSE pool
<1>1. p \in Twins /\ rec[t] \in M!Records /\ rec[t].src \in M!Srcs /\ u.what # NoSrc
  BY MountTypes DEF M!Records
<1>2. PICK enabled \in {TRUE, unit[p].enabled} :
       /\ unit' = [unit EXCEPT ![p] = [u EXCEPT !.enabled = enabled]]
       /\ mnt' \in {mnt, mnt \ {p}} \cup (IF M!Mountable(u) THEN {mnt \cup {p}} ELSE {})
       /\ \/ /\ rec' = [rec EXCEPT ![t].says = IF up THEN "mounted" ELSE "none"]
             /\ IF enabled THEN half' = half \ {t} ELSE M!Halve(t)
             /\ pool' = pooled
          \/ UNCHANGED rec /\ M!Halve(t) /\ pool' \in {pool, pooled}
       /\ UNCHANGED <<credfile, shared, torn>>
  BY DEF M!MountAndRecord
<1>3. mnt' \subseteq Twins
  BY <1>1, <1>2, MountTypes
<1>4. PICK x : x = [u EXCEPT !.enabled = enabled]
  OBVIOUS
<1>5. /\ x \in MountUnits /\ x.what = u.what /\ x.cred = u.cred /\ x.enabled = enabled
      /\ unit' = [unit EXCEPT ![p] = x]
  <2>1. enabled \in BOOLEAN
    BY <1>1, <1>2, MountTypes DEF MountUnits
  <2> QED
    BY <1>2, <1>4, <2>1 DEF MountUnits
<1>6. /\ half' \in {half \ {t}, half \cup {t}}
      /\ M!Halve(t) => rec'[t].says = "none" \/ t \in half'
  BY <1>2 DEF M!Halve
<1>7. /\ pool \subseteq pool' /\ pool' \subseteq M!Targets
      /\ pool' = pooled /\ up /\ t \in WithPool => t \in pool'
  BY <1>2, MountTypes
<1>8. CASE /\ rec' = [rec EXCEPT ![t].says = IF up THEN "mounted" ELSE "none"]
           /\ IF enabled THEN half' = half \ {t} ELSE M!Halve(t)
           /\ pool' = pooled
  <2>1. PICK says : says = IF up THEN "mounted" ELSE "none"
    OBVIOUS
  <2>2. /\ rec' = [rec EXCEPT ![t].says = says] /\ says \in Sayings /\ says # "unmounted"
        /\ says = "mounted" => up
    BY <1>8, <2>1 DEF Sayings
  <2>3. rec'[t].says = says
    BY <1>1, <2>2, MountTypes DEF M!Records
  <2>4. says = "mounted" => (t \notin half' => enabled)
    BY <1>6, <1>8, <2>3
  <2>5. says = "mounted" => (t \in WithPool => t \in pool')
    BY <1>7, <1>8, <2>2
  <2>6. UNCHANGED <<credfile, shared, torn>>
    BY <1>2
  <2> HIDE DEF up, pooled
  <2> QED
    BY <1>1, <1>3, <1>5, <1>6, <1>7, <2>2, <2>4, <2>5, <2>6, UnitStep
<1>9. CASE UNCHANGED rec /\ M!Halve(t) /\ pool' \in {pool, pooled}
  <2>1. PICK says \in Sayings : says = rec[t].says /\ rec' = [rec EXCEPT ![t].says = says]
    BY <1>9, RecordAsItWas
  <2>2. says \in {"mounted", "unmounted"} => t \in half'
    BY <1>6, <1>9, <2>1 DEF Sayings
  <2>3. says = "mounted" /\ t \notin shared => (t \in WithPool => t \in pool')
    BY <1>7, <2>1 DEF MountsInv, M!MountsRight, M!RecordTellsBoot, M!Own
  <2> QED
    BY <1>1, <1>2, <1>3, <1>5, <1>6, <1>7, <2>1, <2>2, <2>3, UnitStep
<1> QED
  BY <1>2, <1>8, <1>9

LEMMA DisableStep ==
    ASSUME M!ConstantsAssumption, MountsInv, NEW t \in M!Targets, rec[t] # NoRec,
           M!DisableAndRecord(t)
    PROVE  MountsInv'
<1> DEFINE p == rec[t].path
<1>1. p \in Twins /\ rec[t] \in M!Records /\ unit[p] \in MountUnits
  BY MountTypes
<1>2. PICK enabled \in {FALSE, unit[p].enabled} :
         /\ unit' = [unit EXCEPT ![p].enabled = enabled]
         /\ \/ /\ rec' = [rec EXCEPT ![t].says = "unmounted"]
               /\ IF enabled THEN M!Halve(t) ELSE half' = half \ {t}
            \/ UNCHANGED rec /\ M!Halve(t)
  BY DEF M!DisableAndRecord
<1>3. /\ mnt' \subseteq Twins /\ UNCHANGED <<credfile, pool, shared, torn>>
      /\ pool \subseteq pool' /\ pool' \subseteq M!Targets
  BY MountTypes DEF M!DisableAndRecord
<1>4. PICK x : x = [unit[p] EXCEPT !.enabled = enabled]
  OBVIOUS
<1>5. /\ x \in MountUnits /\ x.what = unit[p].what /\ x.cred = unit[p].cred
      /\ x.enabled = enabled /\ unit' = [unit EXCEPT ![p] = x]
      /\ x.enabled => x.what # NoSrc
  <2>1. enabled \in BOOLEAN /\ (enabled => unit[p].enabled)
    BY <1>1, <1>2 DEF MountUnits
  <2>2. x \in MountUnits /\ x.what = unit[p].what /\ x.cred = unit[p].cred /\ x.enabled = enabled
    BY <1>1, <1>4, <2>1 DEF MountUnits
  <2>3. unit' = [unit EXCEPT ![p] = x]
    BY <1>1, <1>2, <1>4, MountTypes
  <2> QED
    BY <1>1, <2>1, <2>2, <2>3, MountTypes
<1>6. /\ half' \in {half \ {t}, half \cup {t}}
      /\ M!Halve(t) => rec'[t].says = "none" \/ t \in half'
  BY <1>2 DEF M!Halve
<1>7. CASE /\ rec' = [rec EXCEPT ![t].says = "unmounted"]
           /\ IF enabled THEN M!Halve(t) ELSE half' = half \ {t}
  <2>1. rec'[t].says = "unmounted"
    BY <1>1, <1>7, MountTypes DEF M!Records
  <2>2. t \notin half' => ~enabled
    BY <1>6, <1>7, <2>1
  <2>3. "unmounted" \in Sayings
    BY DEF Sayings
  <2> QED
    BY <1>1, <1>3, <1>5, <1>6, <1>7, <2>2, <2>3, UnitStep
<1>8. CASE UNCHANGED rec /\ M!Halve(t)
  <2>1. PICK says \in Sayings : says = rec[t].says /\ rec' = [rec EXCEPT ![t].says = says]
    BY <1>8, RecordAsItWas
  <2>2. says \in {"mounted", "unmounted"} => t \in half'
    BY <1>6, <1>8, <2>1 DEF Sayings
  <2>3. says = "mounted" /\ t \notin shared =>
           /\ x.what = rec[t].src /\ (rec[t].cred = "file" <=> x.cred # Guest)
           /\ t \in WithPool => t \in pool'
    BY <1>3, <1>5, <2>1 DEF MountsInv, M!MountsRight, M!RecordTellsBoot, M!Own, M!Names
  <2> QED
    BY <1>1, <1>3, <1>5, <1>6, <2>1, <2>2, <2>3, UnitStep
<1> QED
  BY <1>2, <1>7, <1>8

LEMMA MountsStep ==
    ASSUME M!ConstantsAssumption, MountsInv, [M!Next]_(M!vars)
    PROVE  MountsInv'
<1>t. \A s \in Smb \ torn : credfile[s] <=> M!Names(s)
  BY DEF MountsInv, M!MountsRight, M!SecretsKept
<1>1. ASSUME NEW t \in Nfs, NEW s \in Pair, NEW q \in Twins, M!SaveNfs(t, s, q)
      PROVE  MountsInv'
  <2> DEFINE r == M!Saved(s, q, "none")
  <2>1. r \in M!Records /\ r.says = "none" /\ r.cred = "none"
    BY DEF M!Saved, M!Records, M!Srcs
  <2>2. M!Put(t, r) /\ UNCHANGED <<credfile, unit, mnt, pool, torn>>
    BY <1>1 DEF M!SaveNfs
  <2>3. M!SecretsKept'
    BY <1>t, <2>2, MountTypes DEF M!Put, M!SecretsKept, M!Names
  <2> HIDE DEF r
  <2> QED
    BY <2>1, <2>2, <2>3, MountTypes, PutStep
<1>2. ASSUME NEW t \in Smb, NEW s \in Shares, NEW q \in Twins, NEW user \in BOOLEAN,
             NEW password \in {FALSE, user}, M!SaveSmb(t, s, q, user, password)
      PROVE  MountsInv'
  <2>0. PICK c \in {"file", "missing", "none"} :
           c = M!Credentials(user, password \/ M!Names(t))
    BY DEF M!Credentials
  <2> DEFINE r == M!Saved(s, q, c)
  <2>1. r \in M!Records /\ r.says = "none" /\ r.cred = c
    BY DEF M!Saved, M!Records, M!Srcs
  <2>2. /\ M!Put(t, r) /\ UNCHANGED <<unit, mnt, pool>>
        /\ credfile' = [credfile EXCEPT ![t] = @ \/ password]
        /\ torn' = IF password THEN torn \ {t} ELSE torn
    BY <1>2, <2>0 DEF M!SaveSmb
  <2>3. rec' = [rec EXCEPT ![t] = r] /\ t \in M!Targets /\ t \notin Nfs
    BY <2>2, MountTypes DEF M!Put
  <2> HIDE DEF r
  <2>4. rec'[t] = r /\ r # NoRec /\ \A x \in Smb : x # t => rec'[x] = rec[x]
    BY <2>1, <2>3, MountTypes
  <2>5. /\ credfile' \in [Smb -> BOOLEAN] /\ (credfile'[t] <=> credfile[t] \/ password)
        /\ \A x \in Smb : x # t => credfile'[x] = credfile[x]
        /\ torn' \subseteq Smb
    BY <2>2, MountTypes
  <2>6. c = "file" <=> password \/ M!Names(t)
    BY <2>0 DEF M!Credentials
  <2>7. M!SecretsKept'
    <3> SUFFICES ASSUME NEW x \in Smb, x \notin torn' PROVE credfile'[x] <=> M!Names(x)'
      BY DEF M!SecretsKept, M!Names
    <3>1. CASE x = t
      BY <1>t, <2>1, <2>2, <2>4, <2>5, <2>6, <3>1 DEF M!Names
    <3>2. CASE x # t
      BY <1>t, <2>2, <2>4, <2>5, <3>2 DEF M!Names
    <3> QED
      BY <3>1, <3>2
  <2> QED
    BY <2>1, <2>2, <2>3, <2>5, <2>7, PutStep
<1>3. ASSUME NEW t \in Smb, M!SaveSmbBreaks(t) PROVE MountsInv'
  <2>1. /\ credfile' = [credfile EXCEPT ![t] = TRUE]
        /\ torn' = IF M!Names(t) THEN torn ELSE torn \cup {t}
        /\ UNCHANGED <<rec, unit, mnt, pool, shared, half>>
    BY <1>3 DEF M!SaveSmbBreaks
  <2>2. /\ credfile' \in [Smb -> BOOLEAN] /\ credfile'[t]
        /\ \A x \in Smb : x # t => credfile'[x] = credfile[x]
        /\ torn' \subseteq Smb
    BY <2>1, MountTypes
  <2>3. M!SecretsKept'
    BY <1>t, <2>1, <2>2 DEF M!SecretsKept, M!Names
  <2> QED
    BY <2>1, <2>2, <2>3, CredentialsStep
<1>4. ASSUME NEW t \in Nfs, M!DeleteNfs(t) PROVE MountsInv'
  <2>1. M!Drop(t) /\ UNCHANGED <<credfile, unit, mnt, pool, torn>>
    BY <1>4 DEF M!DeleteNfs
  <2>2. M!SecretsKept'
    BY <1>t, <2>1, MountTypes DEF M!Drop, M!SecretsKept, M!Names
  <2> QED
    BY <2>1, <2>2, MountTypes, DropStep
<1>5. ASSUME NEW t \in Smb, M!DeleteSmb(t) PROVE MountsInv'
  <2>1. PICK removed \in BOOLEAN, dropped \in BOOLEAN :
         /\ removed \/ dropped
         /\ credfile' = [credfile EXCEPT ![t] = @ /\ ~(removed /\ M!Names(t))]
         /\ IF dropped THEN M!Drop(t) ELSE UNCHANGED <<rec, shared, half>>
         /\ torn' = IF ~M!Names(t) THEN torn
                    ELSE IF removed /\ dropped THEN torn \ {t} ELSE torn \cup {t}
         /\ UNCHANGED <<unit, mnt, pool>>
    BY <1>5 DEF M!DeleteSmb
  <2>2. /\ credfile' \in [Smb -> BOOLEAN]
        /\ credfile'[t] <=> credfile[t] /\ ~(removed /\ M!Names(t))
        /\ \A x \in Smb : x # t => credfile'[x] = credfile[x]
        /\ torn' \subseteq Smb /\ t \in M!Targets
    BY <2>1, MountTypes
  <2>3. /\ \A x \in Smb : x # t => rec'[x] = rec[x]
        /\ IF dropped THEN rec'[t] = NoRec ELSE rec' = rec
    BY <2>1, <2>2, MountTypes DEF M!Drop
  <2>4. M!SecretsKept'
    <3> SUFFICES ASSUME NEW x \in Smb, x \notin torn' PROVE credfile'[x] <=> M!Names(x)'
      BY DEF M!SecretsKept, M!Names
    <3>1. CASE x = t
      BY <1>t, <2>1, <2>2, <2>3, <3>1 DEF M!Names
    <3>2. CASE x # t
      BY <1>t, <2>1, <2>2, <2>3, <3>2 DEF M!Names
    <3> QED
      BY <3>1, <3>2
  <2> QED
    BY <2>1, <2>2, <2>4, DropStep, CredentialsStep
<1>6. ASSUME NEW t \in Nfs, M!ApplyNfs(t) PROVE MountsInv'
  <2>1. t \in M!Targets /\ rec[t] \in M!Records /\ rec[t] # NoRec /\ rec[t].cred = "none"
    BY <1>6, MountTypes DEF M!ApplyNfs
  <2>2. PICK u : u = M!NfsUnit(rec[t])
    OBVIOUS
  <2>3. u \in MountUnits /\ u.what = rec[t].src /\ u.cred = Guest
    BY <2>1, <2>2 DEF M!NfsUnit, M!Records, MountUnits
  <2>4. M!MountAndRecord(t, u)
    BY <1>6, <2>2 DEF M!ApplyNfs
  <2> QED
    BY <2>1, <2>3, <2>4, ApplyStep
<1>7. ASSUME NEW t \in Smb, M!ApplySmb(t) PROVE MountsInv'
  <2>1. t \in M!Targets /\ rec[t] \in M!Records /\ rec[t] # NoRec
    BY <1>7, MountTypes DEF M!ApplySmb
  <2>2. PICK u : u = M!SmbUnit(t, rec[t])
    OBVIOUS
  <2>3. u \in MountUnits /\ u.what = rec[t].src /\ (rec[t].cred = "file" <=> u.cred # Guest)
    BY <2>1, <2>2, MountTypes DEF M!SmbUnit, M!Records, MountUnits
  <2>4. M!MountAndRecord(t, u)
    BY <1>7, <2>2 DEF M!ApplySmb
  <2> QED
    BY <2>1, <2>3, <2>4, ApplyStep
<1>8. ASSUME NEW t \in M!Targets, M!UnmountNfs(t) \/ M!UnmountSmb(t) PROVE MountsInv'
  BY <1>8, DisableStep DEF M!UnmountNfs, M!UnmountSmb
<1>9. CASE M!Reboot
  <2>1. mnt' \subseteq Twins
    BY <1>9 DEF M!Reboot
  <2> QED
    BY <1>9, <2>1 DEF M!Reboot, MountsInv, M!TypeOK, OnePerPath, M!MountsRight,
              M!RecordTellsBoot, M!UnmountedStaysDown, M!SecretsKept, M!Own, M!Names, M!Targets
<1>10. CASE UNCHANGED M!vars
  BY <1>10 DEF M!vars, MountsInv, M!TypeOK, OnePerPath, M!MountsRight, M!RecordTellsBoot,
              M!UnmountedStaysDown, M!SecretsKept, M!Own, M!Names, M!Targets
<1>11. CASE M!NfsRequests
  <2>1. Nfs \subseteq M!Targets
    BY MountTypes
  <2> QED
    BY <1>11, <1>1, <1>4, <1>6, <1>8, <2>1 DEF M!NfsRequests
<1>12. CASE M!SmbRequests
  <2>1. Smb \subseteq M!Targets
    BY MountTypes
  <2>2. PICK t \in Smb :
          \/ \E s \in Shares, q \in Twins, user \in BOOLEAN : \E password \in {FALSE, user} :
                M!SaveSmb(t, s, q, user, password)
          \/ M!SaveSmbBreaks(t) \/ M!ApplySmb(t) \/ M!UnmountSmb(t) \/ M!DeleteSmb(t)
    BY <1>12 DEF M!SmbRequests
  <2>3. CASE \E s \in Shares, q \in Twins, user \in BOOLEAN : \E password \in {FALSE, user} :
                M!SaveSmb(t, s, q, user, password)
    BY <1>2, <2>3
  <2>4. CASE M!SaveSmbBreaks(t) \/ M!ApplySmb(t) \/ M!UnmountSmb(t) \/ M!DeleteSmb(t)
    BY <1>3, <1>5, <1>7, <1>8, <2>1, <2>4
  <2> QED
    BY <2>2, <2>3, <2>4
<1> QED
  BY <1>9, <1>10, <1>11, <1>12 DEF M!Next

-----------------------------------------------------------------------------
(* Exports: what is so of a path that nobody has given or taken away under  *)
(* a job.  One job at most works on it; its file is what that job has made  *)
(* of it so far, or what a job has reported.                                *)
JobType == {Z!Idle} \cup [pc : {"open", "send", "meta"}, snap : Pair, path : Z!Paths]

ExportTypes == Z!TypeOK /\ job \in [Threads -> JobType]

Whole(p, s) == files[p] # NoFile /\ files[p].whole /\ files[p].snap = s

Stage(j, p) ==
    /\ job[j].pc = "open" => files[p] = NoFile
    /\ job[j].pc = "send" => /\ files[p] # NoFile /\ ~files[p].whole
                             /\ files[p].writer = j /\ files[p].snap = job[j].snap
    /\ job[j].pc = "meta" => Whole(p, job[j].snap)
    /\ \A s \in Pair : <<p, s>> \notin made

Settled(p) ==
    /\ \A i, j \in Threads : job[i].path = p /\ job[j].path = p => i = j
    /\ \A j \in Threads : job[j].path = p => Stage(j, p)
    /\ \A s \in Pair : <<p, s>> \in made => Whole(p, s)
    /\ files[p] # NoFile /\ ~files[p].whole => \E j \in Threads : job[j].path = p

ExportsSettled == \A p \in Z!Paths \ disturbed : Settled(p)

LEMMA ExportsStart == Z!ConstantsAssumption /\ Z!Init => ExportTypes /\ ExportsSettled
  BY DEF Z!ConstantsAssumption, Z!Init, ExportTypes, Z!TypeOK, JobType, ExportsSettled, Settled,
         Z!Idle, Stage, Whole

LEMMA ExportTypesStep ==
    ASSUME Z!ConstantsAssumption, ExportTypes, [Z!Next]_(Z!vars)
    PROVE  ExportTypes'
<1> USE DEF ExportTypes, Z!TypeOK, JobType, Z!Idle, Z!At, Z!Return, Z!Files
<1>0. ASSUME NEW j \in Threads, job[j].pc # "idle"
      PROVE  /\ job[j] \in [pc : {"open", "send", "meta"}, snap : Pair, path : Z!Paths]
             /\ \A l \in {"open", "send", "meta"} :
                   [job[j] EXCEPT !.pc = l] \in [pc : {"open", "send", "meta"},
                                                 snap : Pair, path : Z!Paths]
  BY <1>0
<1>1. ASSUME NEW s \in Pair, Z!CreateSnapshot(s) \/ Z!DestroySnapshot(s)
      PROVE  ExportTypes'
  BY <1>1 DEF Z!CreateSnapshot, Z!DestroySnapshot
<1>2. ASSUME NEW j \in Threads, NEW s \in snaps, NEW k \in Stamps, Z!Send(j, s, k)
      PROVE  ExportTypes'
  <2> DEFINE p == Z!ChosenPath(s, k)
  <2>1. p \in Z!Paths /\ s \in Pair
    BY DEF Z!ChosenPath, Z!Paths, Z!Plain
  <2>2. job' \in [Threads -> JobType] /\ \A i \in Threads : i = j \/ job'[i] = job[i]
    BY <1>2, <2>1 DEF Z!Send
  <2>3. job'[j] = [pc |-> "open", snap |-> s, path |-> p]
    BY <1>2 DEF Z!Send
  <2> QED
    BY <1>2, <2>1, <2>2, <2>3 DEF Z!Send
<1>3. ASSUME NEW j \in Threads, Z!OpenExport(j) PROVE ExportTypes'
  <2> DEFINE f == [snap |-> job[j].snap, writer |-> j, whole |-> FALSE]
  <2>1. files' = [files EXCEPT ![job[j].path] = f] /\ f \in Z!Files
    BY <1>3, <1>0 DEF Z!OpenExport
  <2>2. files' \in [Z!Paths -> Z!Files \cup {NoFile}]
    BY <2>1
  <2>3. job' = [job EXCEPT ![j] = [job[j] EXCEPT !.pc = "send"]]
    BY <1>3 DEF Z!OpenExport
  <2>4. job' \in [Threads -> JobType]
    BY <1>3, <1>0, <2>3 DEF Z!OpenExport
  <2>5. UNCHANGED <<baseOf, snaps, meta, made, disturbed>>
    BY <1>3 DEF Z!OpenExport
  <2> HIDE DEF f
  <2> QED
    BY <2>2, <2>4, <2>5
<1>4. ASSUME NEW j \in Threads, Z!Sent(j) PROVE ExportTypes'
  <2> DEFINE p == job[j].path
  <2>1. p \in Z!Paths /\ job[j].pc = "send"
    BY <1>4, <1>0 DEF Z!Sent
  <2>2. files[p] # NoFile => [files[p] EXCEPT !.whole = TRUE] \in Z!Files
    BY <2>1
  <2>3. files' \in [Z!Paths -> Z!Files \cup {NoFile}]
    <3> HIDE DEF Z!Files
    <3>1. \/ files' = files
          \/ files[p] # NoFile /\ files' = [files EXCEPT ![p] = [files[p] EXCEPT !.whole = TRUE]]
      BY <1>4 DEF Z!Sent
    <3> QED
      BY <2>1, <2>2, <3>1
  <2>4. job' = [job EXCEPT ![j] = [job[j] EXCEPT !.pc = "meta"]]
    BY <1>4 DEF Z!Sent
  <2>5. job' \in [Threads -> JobType]
    BY <2>1, <1>0, <2>4
  <2>6. UNCHANGED <<baseOf, snaps, meta, made, disturbed>>
    BY <1>4 DEF Z!Sent
  <2> QED
    BY <2>3, <2>5, <2>6
<1>5. ASSUME NEW j \in Threads, Z!SendFails(j) PROVE ExportTypes'
  BY <1>5, <1>0 DEF Z!SendFails
<1>6. ASSUME NEW j \in Threads, Z!WriteMeta(j) PROVE ExportTypes'
  BY <1>6, <1>0 DEF Z!WriteMeta
<1>7. ASSUME NEW p \in Z!Paths, NEW dies \in BOOLEAN, Z!DeleteExport(p, dies)
      PROVE  ExportTypes'
  BY <1>7 DEF Z!DeleteExport
<1>8. CASE Z!Crash
  BY <1>8 DEF Z!Crash
<1>9. CASE UNCHANGED Z!vars
  BY <1>9 DEF Z!vars
<1> QED
  BY <1>1, <1>2, <1>3, <1>4, <1>5, <1>6, <1>7, <1>8, <1>9 DEF Z!Next

(* A path that a step leaves alone is as it was.                            *)
LEMMA PathKept ==
    ASSUME NEW p, Settled(p), UNCHANGED files[p],
           \A s \in Pair : <<p, s>> \in made' <=> <<p, s>> \in made,
           \A j \in Threads : \/ job'[j] = job[j]
                              \/ job[j].path # p /\ job'[j].path # p
    PROVE  Settled(p)'
  BY DEF Settled, Stage, Whole

LEMMA ExportsStep ==
    ASSUME Z!ConstantsAssumption, ExportTypes, ExportsSettled, [Z!Next]_(Z!vars)
    PROVE  ExportsSettled'
<1> SUFFICES ASSUME NEW p \in Z!Paths, p \notin disturbed' PROVE Settled(p)'
  BY ExportTypesStep DEF ExportsSettled, Z!Paths
<1> USE DEF Z!Idle, Z!At, Z!Return
<1>t. /\ job \in [Threads -> JobType] /\ files \in [Z!Paths -> Z!Files \cup {NoFile}]
      /\ snaps \subseteq Pair /\ baseOf \in [Pair -> Bases]
      /\ NoPath \notin Z!Paths /\ NoFile \notin Z!Files /\ NoStamp \notin Stamps
  BY DEF ExportTypes, Z!TypeOK, Z!ConstantsAssumption
<1>j. ASSUME NEW j \in Threads
      PROVE  /\ job[j].pc = "idle" => job[j].path = NoPath
             /\ job[j].pc # "idle" => job[j].path \in Z!Paths /\ job[j].snap \in Pair
                  /\ job[j].pc \in {"open", "send", "meta"}
             /\ job[j].pc # "idle" => \A l : /\ [job[j] EXCEPT !.pc = l].pc = l
                                             /\ [job[j] EXCEPT !.pc = l].path = job[j].path
                                             /\ [job[j] EXCEPT !.pc = l].snap = job[j].snap
  BY <1>t DEF JobType
<1>d. disturbed \subseteq disturbed' => Settled(p)
  BY DEF ExportsSettled
<1>1. ASSUME NEW s \in Pair, Z!CreateSnapshot(s) \/ Z!DestroySnapshot(s)
      PROVE  Settled(p)'
  BY <1>1, <1>d, PathKept DEF Z!CreateSnapshot, Z!DestroySnapshot
<1>2. ASSUME NEW j \in Threads, NEW s \in snaps, NEW k \in Stamps, Z!Send(j, s, k)
      PROVE  Settled(p)'
  <2> DEFINE c == Z!ChosenPath(s, k)
  <2>1. /\ Settled(p) /\ job[j].path = NoPath /\ UNCHANGED <<files, made>>
        /\ job'[j] = [pc |-> "open", snap |-> s, path |-> c]
        /\ \A i \in Threads : i = j \/ job'[i] = job[i]
    BY <1>2, <1>d, <1>t, <1>j DEF Z!Send
  <2>2. CASE p # c
    BY <2>1, <2>2, <1>t, PathKept
  <2>3. CASE p = c
    <3>1. /\ \A i \in Threads : job[i].path # p
          /\ p = Z!Plain(baseOf[s]) \/ files[p] = NoFile
      BY <1>2, <2>3 DEF Z!Send, Z!Working
    <3>2. files[p] = NoFile
      BY <3>1, <2>3, <1>t DEF Z!ChosenPath, Z!Plain
    <3> QED
      BY <2>1, <2>3, <3>1, <3>2 DEF Settled, Stage, Whole
  <2> QED
    BY <2>2, <2>3
<1>3. ASSUME NEW j \in Threads, Z!OpenExport(j) PROVE Settled(p)'
  <2>1. /\ Settled(p) /\ job[j].pc = "open" /\ UNCHANGED made
        /\ job' = [job EXCEPT ![j].pc = "send"]
        /\ files' = [files EXCEPT ![job[j].path] =
                       [snap |-> job[j].snap, writer |-> j, whole |-> FALSE]]
    BY <1>3, <1>d DEF Z!OpenExport
  <2>2. /\ job'[j].pc = "send" /\ job'[j].path = job[j].path /\ job'[j].snap = job[j].snap
        /\ job[j].path \in Z!Paths /\ job[j].snap \in Pair
        /\ \A i \in Threads : i = j \/ job'[i] = job[i]
    BY <2>1, <1>t, <1>j
  <2>3. CASE p # job[j].path
    BY <2>1, <2>2, <2>3, <1>t, PathKept
  <2>4. CASE p = job[j].path
    <3>1. files'[p] = [snap |-> job[j].snap, writer |-> j, whole |-> FALSE]
      BY <2>1, <2>4, <1>t
    <3>2. [snap |-> job[j].snap, writer |-> j, whole |-> FALSE] \in Z!Files
      BY <2>2 DEF Z!Files
    <3>3. files'[p] # NoFile
      BY <3>1, <3>2, <1>t
    <3> QED
      BY <2>1, <2>2, <2>4, <3>1, <3>3 DEF Settled, Stage, Whole
  <2> QED
    BY <2>3, <2>4
<1>4. ASSUME NEW j \in Threads, Z!Sent(j) PROVE Settled(p)'
  <2> DEFINE q == job[j].path
  <2>1. /\ Settled(p) /\ job[j].pc = "send" /\ UNCHANGED made
        /\ job' = [job EXCEPT ![j].pc = "meta"]
        /\ files' = IF files[q] # NoFile /\ files[q].writer = j
                    THEN [files EXCEPT ![q].whole = TRUE] ELSE files
    BY <1>4, <1>d DEF Z!Sent
  <2>2. /\ job'[j].pc = "meta" /\ job'[j].path = q /\ job'[j].snap = job[j].snap
        /\ q \in Z!Paths /\ job[j].snap \in Pair
        /\ \A i \in Threads : i = j \/ job'[i] = job[i]
    BY <2>1, <1>t, <1>j
  <2>3. CASE p # q
    BY <2>1, <2>2, <2>3, <1>t, PathKept
  <2>4. CASE p = q
    <3>1. files[p] # NoFile /\ files[p].writer = j /\ files[p].snap = job[j].snap
      BY <2>1, <2>4 DEF Settled, Stage
    <3>2. files[p] \in Z!Files
      BY <3>1, <2>2, <2>4, <1>t
    <3>3. files'[p] = [files[p] EXCEPT !.whole = TRUE]
      BY <2>1, <2>4, <3>1, <1>t
    <3>4. files'[p] \in Z!Files /\ files'[p].whole /\ files'[p].snap = job[j].snap
      BY <3>1, <3>2, <3>3 DEF Z!Files
    <3>5. files'[p] # NoFile
      BY <3>4, <1>t
    <3> QED
      BY <2>1, <2>2, <2>4, <3>4, <3>5 DEF Settled, Stage, Whole
  <2> QED
    BY <2>3, <2>4
<1>5. ASSUME NEW j \in Threads, Z!SendFails(j) PROVE Settled(p)'
  <2>1. /\ Settled(p) /\ job[j].pc = "send" /\ UNCHANGED made
        /\ job' = [job EXCEPT ![j] = [pc |-> "idle", snap |-> NoSnap, path |-> NoPath]]
        /\ files' = [files EXCEPT ![job[j].path] = NoFile]
    BY <1>5, <1>d DEF Z!SendFails
  <2>2. /\ job'[j].path = NoPath /\ job[j].path \in Z!Paths
        /\ \A i \in Threads : i = j \/ job'[i] = job[i]
    BY <2>1, <1>t, <1>j
  <2>3. CASE p # job[j].path
    BY <2>1, <2>2, <2>3, <1>t, PathKept
  <2>4. CASE p = job[j].path
    <3>1. files'[p] = NoFile
      BY <2>1, <2>4, <1>t
    <3> QED
      BY <2>1, <2>2, <2>4, <3>1, <1>t DEF Settled, Stage, Whole
  <2> QED
    BY <2>3, <2>4
<1>6. ASSUME NEW j \in Threads, Z!WriteMeta(j) PROVE Settled(p)'
  <2>1. /\ Settled(p) /\ job[j].pc = "meta" /\ UNCHANGED files
        /\ job' = [job EXCEPT ![j] = [pc |-> "idle", snap |-> NoSnap, path |-> NoPath]]
        /\ made' = made \cup {<<job[j].path, job[j].snap>>}
    BY <1>6, <1>d DEF Z!WriteMeta
  <2>2. /\ job'[j].path = NoPath /\ job[j].path \in Z!Paths
        /\ \A i \in Threads : i = j \/ job'[i] = job[i]
    BY <2>1, <1>t, <1>j
  <2>3. CASE p # job[j].path
    BY <2>1, <2>2, <2>3, <1>t, PathKept
  <2>4. CASE p = job[j].path
    <3>1. Whole(p, job[j].snap)
      BY <2>1, <2>4 DEF Settled, Stage
    <3>2. \A i \in Threads : job'[i].path # p
      BY <2>1, <2>2, <2>4, <1>t DEF Settled
    <3>3. \A s \in Pair : <<p, s>> \in made' => s = job[j].snap
      BY <2>1, <2>4 DEF Settled, Stage
    <3> QED
      BY <2>1, <3>1, <3>2, <3>3 DEF Settled, Whole
  <2> QED
    BY <2>3, <2>4
<1>7. ASSUME NEW q \in Z!Paths, NEW dies \in BOOLEAN, Z!DeleteExport(q, dies)
      PROVE  Settled(p)'
  <2>1. /\ Settled(p) /\ files' = [files EXCEPT ![q] = NoFile]
        /\ made' = {m \in made : m[1] # q}
        /\ job' = IF dies THEN [j \in Threads |-> Z!Idle] ELSE job
        /\ Z!Working(p) => ~dies /\ q # p
    BY <1>7, <1>d DEF Z!DeleteExport
  <2>2. \A j \in Threads : \/ job'[j] = job[j]
                           \/ job[j].path # p /\ job'[j].path # p
    BY <2>1, <1>t DEF Z!Working
  <2>3. CASE p # q
    BY <2>1, <2>2, <2>3, <1>t, PathKept
  <2>4. CASE p = q
    <3>1. files'[p] = NoFile /\ \A s \in Pair : <<p, s>> \notin made'
      BY <2>1, <2>4, <1>t
    <3>2. \A j \in Threads : job'[j].path # p
      BY <2>1, <2>2, <2>4 DEF Z!Working
    <3> QED
      BY <3>1, <3>2 DEF Settled
  <2> QED
    BY <2>3, <2>4
<1>8. CASE Z!Crash
  <2>1. \A j \in Threads : job[j].path # p /\ job'[j].path # p
    BY <1>8, <1>t DEF Z!Crash, Z!Working
  <2> QED
    BY <1>8, <2>1, <1>d, PathKept DEF Z!Crash
<1>9. CASE UNCHANGED Z!vars
  BY <1>9, <1>d, PathKept DEF Z!vars
<1> QED
  BY <1>1, <1>2, <1>3, <1>4, <1>5, <1>6, <1>7, <1>8, <1>9 DEF Z!Next

-----------------------------------------------------------------------------
(* LUNs and thin pools: what a request has checked and read, and what it    *)
(* will write.  The device of a request that saw its LUN and has kept it is *)
(* one LUN's, whose data is none that counts, or a thin pool that holds it; *)
(* a pool that a record names, or will name, exists or was destroyed.       *)
LunRequests == [pc : I!Labels, t : IscsiTargets \cup {NoTarget}, d : Pair \cup {NoDev},
                v : Twins \cup {NoVG}, snap : [IscsiTargets -> I!Record \cup {NoRec}],
                blind : BOOLEAN, gone : BOOLEAN]

LunShape ==
    /\ dev \in [I!Luns -> Pair \cup {NoDev}]
    /\ \A i, l \in I!Luns : dev[i] = dev[l] /\ dev[i] # NoDev => i = l
    /\ lun \in [I!Luns -> I!Contents]
    /\ vg \in [I!Luns -> Twins \cup {NoVG}]
    /\ \A l \in I!Luns : vg[l] # NoVG <=> lun[l] \in {"vg", "thin"}
    /\ busy \subseteq {l \in I!Luns : lun[l] = "thin" /\ dev[l] # NoDev}
    /\ wrecked \subseteq Twins

LunTypes ==
    /\ LunShape
    /\ iscsi \in [IscsiTargets -> I!Record \cup {NoRec}]
    /\ secrets \in [IscsiTargets -> (SUBSET Kinds) \cup {NoRec}]
    /\ lunTorn \subseteq IscsiTargets
    /\ lunTh \in [Threads -> LunRequests]

Fit(d) == \E l \in I!Luns : /\ dev[l] = d /\ lun[l] \notin {"fs", "raw"}
                            /\ lun[l] = "thin" => l \in busy

Made(v) == v \in wrecked \/ \E l \in I!Luns : lun[l] = "thin" /\ vg[l] = v

PoolsMade(f) == \A t \in IscsiTargets : f[t] # NoRec /\ f[t].vg # NoVG => Made(f[t].vg)

MakesPool == {"wipe", "pvcreate", "vgcreate", "lvcreate", "record"}

LunRequest(r) ==
    /\ lunTh[r].pc \in {"login", "logout", "logged", "read"} \cup MakesPool =>
          lunTh[r].t \in IscsiTargets
    /\ lunTh[r].pc \in {"login", "logout", "logged"} \cup MakesPool =>
          lunTh[r].snap[lunTh[r].t] # NoRec
    /\ lunTh[r].pc \in {"read"} \cup MakesPool => lunTh[r].d \in Pair /\ lunTh[r].v \in Twins
    /\ /\ lunTh[r].pc \in {"read", "wipe", "pvcreate", "vgcreate"}
       /\ ~lunTh[r].blind /\ ~lunTh[r].gone
       => Fit(lunTh[r].d)
    /\ lunTh[r].pc = "record" => Made(lunTh[r].v)
    /\ PoolsMade(lunTh[r].snap)

LunRequestsRight == \A r \in Threads : LunRequest(r)

LunsInv == LunTypes /\ LunRequestsRight /\ PoolsMade(iscsi) /\ I!SecretsAgree

(* The request that moves.                                                  *)
LunMoves(r, k) == lunTh' = [lunTh EXCEPT ![r] = k]

LEMMA LunsStart == I!ConstantsAssumption /\ I!Init => LunsInv
<1> SUFFICES ASSUME I!ConstantsAssumption, I!Init PROVE LunsInv
  OBVIOUS
<1> USE DEF I!Init, I!Empty, I!Idle
<1>1. I!Empty \in [IscsiTargets -> I!Record \cup {NoRec}]
  OBVIOUS
<1>2. I!Idle \in LunRequests
  BY DEF LunRequests, I!Labels
<1>3. LunTypes
  BY <1>2 DEF LunTypes, LunShape, I!Contents
<1>4. LunRequestsRight
  BY DEF LunRequestsRight, LunRequest, MakesPool, PoolsMade
<1> QED
  BY <1>3, <1>4 DEF LunsInv, PoolsMade, I!SecretsAgree

LEMMA LunsInvImplies == LunsInv => I!TypeOK /\ I!RecordedPoolExists /\ I!SecretsAgree
<1> SUFFICES ASSUME LunsInv PROVE I!TypeOK /\ I!RecordedPoolExists
  BY DEF LunsInv
<1>1. \A r \in Threads : lunTh[r] \in LunRequests
  BY DEF LunsInv, LunTypes
<1>2. I!TypeOK
  BY <1>1 DEF LunsInv, LunTypes, LunShape, LunRequests, I!TypeOK
<1>3. I!RecordedPoolExists
  BY DEF LunsInv, PoolsMade, Made, I!RecordedPoolExists
<1> QED
  BY <1>2, <1>3

-----------------------------------------------------------------------------
(* Thin pools that were made stay made, or are destroyed and that is noted. *)
PoolsKept == \A v \in Twins : Made(v) => Made(v)'

FitKept == \A d \in Pair : Fit(d) => Fit(d)'

(* A request that another one passes by: its device may have been taken     *)
(* away under it.                                                           *)
LEMMA RequestKept ==
    ASSUME NEW r \in Threads, LunRequest(r), PoolsKept, lunTh[r] \in LunRequests,
           /\ lunTh'[r].pc = lunTh[r].pc /\ lunTh'[r].t = lunTh[r].t
           /\ lunTh'[r].d = lunTh[r].d /\ lunTh'[r].v = lunTh[r].v
           /\ lunTh'[r].snap = lunTh[r].snap /\ lunTh'[r].blind = lunTh[r].blind,
           ~lunTh'[r].gone => /\ ~lunTh[r].gone
                              /\ lunTh[r].d \in Pair /\ Fit(lunTh[r].d) => Fit(lunTh[r].d)',
           I!ConstantsAssumption
    PROVE  LunRequest(r)'
<1>1. \A t \in IscsiTargets :
         lunTh[r].snap[t] # NoRec /\ lunTh[r].snap[t].vg # NoVG => lunTh[r].snap[t].vg \in Twins
  BY DEF LunRequests, I!Record
<1>2. PoolsMade(lunTh[r].snap)'
  BY <1>1 DEF PoolsMade, PoolsKept, LunRequest
<1>3. lunTh'[r].pc = "record" => Made(lunTh[r].v)'
  BY DEF PoolsKept, LunRequest, MakesPool
<1>4. /\ lunTh'[r].pc \in {"read", "wipe", "pvcreate", "vgcreate"}
      /\ ~lunTh'[r].blind /\ ~lunTh'[r].gone
      => Fit(lunTh[r].d)'
  BY DEF LunRequest, MakesPool
<1> QED
  BY <1>2, <1>3, <1>4 DEF LunRequest, MakesPool

(* A step that takes no device away: the request that moves is right, and   *)
(* so are the records and what is on the LUNs.                              *)
LEMMA LunStep ==
    ASSUME I!ConstantsAssumption, LunsInv, NEW r \in Threads, NEW k \in LunRequests,
           LunMoves(r, k), LunRequest(r)', PoolsKept, FitKept, LunShape',
           iscsi' \in [IscsiTargets -> I!Record \cup {NoRec}], PoolsMade(iscsi)',
           secrets' \in [IscsiTargets -> (SUBSET Kinds) \cup {NoRec}],
           lunTorn' \subseteq IscsiTargets, I!SecretsAgree'
    PROVE  LunsInv'
<1>1. lunTh' \in [Threads -> LunRequests] /\ \A q \in Threads : q # r => lunTh'[q] = lunTh[q]
  BY DEF LunMoves, LunsInv, LunTypes
<1>2. LunTypes'
  BY <1>1 DEF LunTypes
<1>3. ASSUME NEW q \in Threads, q # r PROVE LunRequest(q)'
  <2>1. LunRequest(q) /\ lunTh[q] \in LunRequests /\ lunTh'[q] = lunTh[q]
    BY <1>1, <1>3 DEF LunsInv, LunTypes, LunRequestsRight
  <2>2. lunTh[q].d \in Pair /\ Fit(lunTh[q].d) => Fit(lunTh[q].d)'
    BY <2>1 DEF FitKept
  <2> QED
    BY <2>1, <2>2, RequestKept
<1>4. LunRequestsRight'
  BY <1>3 DEF LunRequestsRight
<1> QED
  BY <1>2, <1>4 DEF LunsInv

(* A step of one request that reads, asks or gives up: its new state is     *)
(* right, and LUNs and records are as they were.                            *)
LEMMA MoveStep ==
    ASSUME I!ConstantsAssumption, LunsInv, NEW r \in Threads, NEW k \in LunRequests,
           LunMoves(r, k), LunRequest(r)',
           UNCHANGED <<iscsi, secrets, dev, lun, vg, busy, lunTorn, wrecked>>
    PROVE  LunsInv'
<1>1. PoolsKept /\ FitKept
  BY DEF PoolsKept, FitKept, Made, Fit
<1>2. LunShape' /\ PoolsMade(iscsi)' /\ I!SecretsAgree'
  BY DEF LunsInv, LunTypes, LunShape, PoolsMade, Made, I!SecretsAgree
<1> QED
  BY <1>1, <1>2, LunStep DEF LunsInv, LunTypes

(* A step that writes the records or the secrets.                           *)
LEMMA FileStep ==
    ASSUME I!ConstantsAssumption, LunsInv, NEW r \in Threads, NEW k \in LunRequests,
           LunMoves(r, k), LunRequest(r)',
           iscsi' \in [IscsiTargets -> I!Record \cup {NoRec}], PoolsMade(iscsi'),
           secrets' \in [IscsiTargets -> (SUBSET Kinds) \cup {NoRec}],
           lunTorn' \subseteq IscsiTargets, I!SecretsAgree',
           UNCHANGED <<dev, lun, vg, busy, wrecked>>
    PROVE  LunsInv'
<1>1. PoolsKept /\ FitKept
  BY DEF PoolsKept, FitKept, Made, Fit
<1>2. LunShape' /\ PoolsMade(iscsi)'
  BY DEF LunsInv, LunTypes, LunShape, PoolsMade, Made
<1> QED
  BY <1>1, <1>2, LunStep

(* A step on the LUNs.                                                      *)
LEMMA DeviceStep ==
    ASSUME I!ConstantsAssumption, LunsInv, NEW r \in Threads, NEW k \in LunRequests,
           LunMoves(r, k), LunRequest(r)', PoolsKept, FitKept, LunShape',
           UNCHANGED <<iscsi, secrets, lunTorn>>
    PROVE  LunsInv'
<1>1. iscsi \in [IscsiTargets -> I!Record \cup {NoRec}] /\ PoolsMade(iscsi)
  BY DEF LunsInv, LunTypes
<1>2. \A t \in IscsiTargets : iscsi[t] # NoRec /\ iscsi[t].vg # NoVG => iscsi[t].vg \in Twins
  BY <1>1 DEF I!Record
<1>3. PoolsMade(iscsi)'
  BY <1>1, <1>2 DEF PoolsMade, PoolsKept
<1>4. I!SecretsAgree'
  BY DEF LunsInv, I!SecretsAgree
<1> QED
  BY <1>1, <1>3, <1>4, LunStep DEF LunsInv, LunTypes

-----------------------------------------------------------------------------
LEMMA IdleRequest ==
    ASSUME I!ConstantsAssumption, NEW r \in Threads, lunTh'[r] = I!Idle
    PROVE  LunRequest(r)'
  BY DEF LunRequest, I!Idle, I!Empty, MakesPool, PoolsMade

LEMMA IdleTyped == I!Idle \in LunRequests
  BY DEF LunRequests, I!Idle, I!Empty, I!Labels

LEMMA EndStep ==
    ASSUME I!ConstantsAssumption, LunsInv, NEW r \in Threads, I!End(r),
           UNCHANGED <<iscsi, secrets, dev, lun, vg, busy, lunTorn, wrecked>>
    PROVE  LunsInv'
<1>1. LunMoves(r, I!Idle)
  BY DEF I!End, LunMoves
<1>2. LunRequest(r)'
  BY <1>1, IdleRequest DEF LunMoves, LunsInv, LunTypes
<1> QED
  BY <1>1, <1>2, IdleTyped, MoveStep

(* What a request writes back is the file it read, with its own record: of  *)
(* a target whose record has not changed in between it still agrees with    *)
(* the secrets.                                                             *)
LEMMA WriteBackStep ==
    ASSUME I!ConstantsAssumption, LunsInv, NEW r \in Threads,
           lunTh[r].t \in IscsiTargets, lunTh[r].snap[lunTh[r].t] # NoRec,
           NEW x \in I!Record, x.secret = lunTh[r].snap[lunTh[r].t].secret,
           x.vg # NoVG => Made(x.vg),
           I!WriteBack(r, x), I!End(r),
           UNCHANGED <<secrets, dev, lun, vg, busy, wrecked>>
    PROVE  LunsInv'
<1>1. LunMoves(r, I!Idle)
  BY DEF I!End, LunMoves
<1>2. LunRequest(r)'
  BY <1>1, IdleRequest DEF LunMoves, LunsInv, LunTypes
<1>t. /\ lunTh[r] \in LunRequests /\ iscsi \in [IscsiTargets -> I!Record \cup {NoRec}]
      /\ lunTh[r].snap \in [IscsiTargets -> I!Record \cup {NoRec}] /\ NoRec \notin I!Record
      /\ secrets \in [IscsiTargets -> (SUBSET Kinds) \cup {NoRec}]
      /\ lunTorn \subseteq IscsiTargets /\ PoolsMade(lunTh[r].snap)
  BY DEF LunsInv, LunTypes, LunRequests, LunRequestsRight, LunRequest, I!ConstantsAssumption
<1>3. /\ iscsi' = [lunTh[r].snap EXCEPT ![lunTh[r].t] = x]
      /\ lunTorn' = lunTorn \cup {t \in IscsiTargets : lunTh[r].snap[t] # iscsi[t]}
  BY DEF I!WriteBack
<1>4. /\ iscsi' \in [IscsiTargets -> I!Record \cup {NoRec}] /\ iscsi'[lunTh[r].t] = x
      /\ \A t \in IscsiTargets : t # lunTh[r].t => iscsi'[t] = lunTh[r].snap[t]
  BY <1>t, <1>3
<1>5. PoolsMade(iscsi')
  BY <1>t, <1>4 DEF PoolsMade
<1>6. I!SecretsAgree'
  <2> SUFFICES ASSUME NEW t \in IscsiTargets, t \notin lunTorn'
               PROVE  secrets'[t] = IF iscsi'[t] = NoRec THEN NoRec ELSE iscsi'[t].secret
    BY DEF I!SecretsAgree
  <2>1. lunTh[r].snap[t] = iscsi[t]
    BY <1>3
  <2>2. secrets[t] = IF iscsi[t] = NoRec THEN NoRec ELSE iscsi[t].secret
    BY <1>3 DEF LunsInv, I!SecretsAgree
  <2> QED
    BY <1>t, <1>4, <2>1, <2>2
<1>7. lunTorn' \subseteq IscsiTargets
  BY <1>t, <1>3
<1> QED
  BY <1>1, <1>2, <1>t, <1>4, <1>5, <1>6, <1>7, IdleTyped, FileStep

-----------------------------------------------------------------------------
LEMMA AskLuns ==
    ASSUME I!ConstantsAssumption, LunsInv, NEW r \in Threads, NEW t \in IscsiTargets,
           \/ \E passwords \in SUBSET Kinds :
                 I!SaveIscsi(r, t, passwords) \/ I!SaveIscsiBreaks(r, t, passwords)
           \/ I!DeleteIscsi(r, t)
           \/ \E pc \in {"login", "logout"} : I!Begin(r, t, pc)
           \/ \E l \in I!Luns, v \in Twins : I!CheckDevice(r, t, l, v)
    PROVE  LunsInv'
<1>t. /\ lunTh \in [Threads -> LunRequests] /\ lunTh[r] \in LunRequests
      /\ iscsi \in [IscsiTargets -> I!Record \cup {NoRec}] /\ NoRec \notin I!Record
      /\ secrets \in [IscsiTargets -> (SUBSET Kinds) \cup {NoRec}]
      /\ lunTorn \subseteq IscsiTargets
      /\ dev \in [I!Luns -> Pair \cup {NoDev}]
      /\ PoolsMade(iscsi) /\ LunRequest(r)
      /\ \A u \in IscsiTargets \ lunTorn :
            secrets[u] = IF iscsi[u] = NoRec THEN NoRec ELSE iscsi[u].secret
  BY DEF LunsInv, LunTypes, LunShape, LunRequestsRight, I!ConstantsAssumption, I!SecretsAgree
<1>s. UNCHANGED lunTh => LunMoves(r, lunTh[r])
  BY <1>t DEF LunMoves
<1>k. UNCHANGED <<lunTh, dev, lun, vg, busy, wrecked>> => LunRequest(r)'
  BY <1>t DEF LunRequest, MakesPool, PoolsMade, Made, Fit
<1>f. ASSUME iscsi' \in [IscsiTargets -> I!Record \cup {NoRec}], PoolsMade(iscsi'),
             secrets' \in [IscsiTargets -> (SUBSET Kinds) \cup {NoRec}],
             lunTorn' \subseteq IscsiTargets,
             \A u \in IscsiTargets \ {t} : /\ u \in lunTorn <=> u \in lunTorn'
                                           /\ iscsi'[u] = iscsi[u] /\ secrets'[u] = secrets[u],
             t \notin lunTorn' =>
                secrets'[t] = IF iscsi'[t] = NoRec THEN NoRec ELSE iscsi'[t].secret,
             UNCHANGED <<dev, lun, vg, busy, lunTh, wrecked>>
      PROVE  LunsInv'
  <2>1. I!SecretsAgree'
    BY <1>t, <1>f DEF I!SecretsAgree
  <2> QED
    BY <1>t, <1>s, <1>k, <1>f, <2>1, FileStep
<1>1. ASSUME NEW passwords \in SUBSET Kinds, I!SaveIscsi(r, t, passwords) PROVE LunsInv'
  <2>1. PICK x \in (SUBSET Kinds) \cup {NoRec} :
          /\ iscsi' = [iscsi EXCEPT ![t] = [vg |-> NoVG, secret |-> x]]
          /\ \/ secrets' = [secrets EXCEPT ![t] = x] /\ lunTorn' = lunTorn \ {t}
             \/ /\ UNCHANGED <<secrets, lunTorn>>
                /\ x = IF iscsi[t] = NoRec THEN NoRec ELSE iscsi[t].secret
    <3>1. CASE passwords # {}
      BY <1>1, <3>1 DEF I!SaveIscsi, I!WriteSecrets, I!Fresh
    <3>2. CASE passwords = {}
      <4> DEFINE x == IF iscsi[t] = NoRec THEN NoRec ELSE iscsi[t].secret
      <4>1. x \in (SUBSET Kinds) \cup {NoRec}
        BY <1>t DEF I!Record
      <4>2. /\ iscsi' = [iscsi EXCEPT ![t] = [vg |-> NoVG, secret |-> x]]
            /\ UNCHANGED <<secrets, lunTorn>>
        BY <1>1, <3>2 DEF I!SaveIscsi, I!Fresh
      <4> QED
        BY <4>1, <4>2
    <3> QED
      BY <3>1, <3>2
  <2> DEFINE new == [vg |-> NoVG, secret |-> x]
  <2>2. new \in I!Record /\ new.vg = NoVG /\ new.secret = x
    BY DEF I!Record
  <2> HIDE DEF new
  <2>3. /\ iscsi' \in [IscsiTargets -> I!Record \cup {NoRec}] /\ iscsi'[t] = new
        /\ \A u \in IscsiTargets : u # t => iscsi'[u] = iscsi[u]
    BY <1>t, <2>1, <2>2 DEF new
  <2>4. /\ secrets' \in [IscsiTargets -> (SUBSET Kinds) \cup {NoRec}]
        /\ \A u \in IscsiTargets : u # t => secrets'[u] = secrets[u]
        /\ lunTorn' \subseteq IscsiTargets
        /\ \A u \in IscsiTargets : u # t => (u \in lunTorn <=> u \in lunTorn')
    BY <1>t, <2>1
  <2>5. PoolsMade(iscsi')
    BY <1>t, <2>2, <2>3 DEF PoolsMade
  <2>6. UNCHANGED <<dev, lun, vg, busy, lunTh, wrecked>>
    BY <1>1 DEF I!SaveIscsi
  <2>7. t \notin lunTorn' =>
           secrets'[t] = IF iscsi'[t] = NoRec THEN NoRec ELSE iscsi'[t].secret
    BY <1>t, <2>1, <2>2, <2>3
  <2> QED
    BY <1>f, <2>3, <2>4, <2>5, <2>6, <2>7
<1>2. ASSUME NEW passwords \in SUBSET Kinds, I!SaveIscsiBreaks(r, t, passwords) PROVE LunsInv'
  <2>1. /\ secrets' = [secrets EXCEPT ![t] = passwords] /\ lunTorn' = lunTorn \cup {t}
        /\ UNCHANGED <<iscsi, dev, lun, vg, busy, lunTh, wrecked>>
    BY <1>2 DEF I!SaveIscsiBreaks, I!WriteSecrets
  <2>2. /\ secrets' \in [IscsiTargets -> (SUBSET Kinds) \cup {NoRec}]
        /\ \A u \in IscsiTargets : u # t => secrets'[u] = secrets[u]
        /\ lunTorn' \subseteq IscsiTargets /\ t \in lunTorn'
        /\ \A u \in IscsiTargets : u # t => (u \in lunTorn <=> u \in lunTorn')
    BY <1>t, <2>1
  <2> QED
    BY <1>t, <1>f, <2>1, <2>2
<1>3. CASE I!DeleteIscsi(r, t)
  <2>1. PICK removed \in BOOLEAN, dropped \in BOOLEAN :
          /\ removed \/ dropped
          /\ secrets' = IF removed /\ iscsi[t].secret # NoRec
                        THEN [secrets EXCEPT ![t] = NoRec] ELSE secrets
          /\ iscsi' = IF dropped THEN [iscsi EXCEPT ![t] = NoRec] ELSE iscsi
          /\ lunTorn' = IF iscsi[t].secret = NoRec THEN lunTorn
                        ELSE IF removed /\ dropped THEN lunTorn \ {t} ELSE lunTorn \cup {t}
    BY <1>3 DEF I!DeleteIscsi
  <2>2. iscsi[t] # NoRec /\ UNCHANGED <<dev, lun, vg, busy, lunTh, wrecked>>
    BY <1>3 DEF I!DeleteIscsi
  <2>3. /\ iscsi' \in [IscsiTargets -> I!Record \cup {NoRec}]
        /\ iscsi'[t] = IF dropped THEN NoRec ELSE iscsi[t]
        /\ \A u \in IscsiTargets : u # t => iscsi'[u] = iscsi[u]
    BY <1>t, <2>1
  <2>4. /\ secrets' \in [IscsiTargets -> (SUBSET Kinds) \cup {NoRec}]
        /\ \A u \in IscsiTargets : u # t => secrets'[u] = secrets[u]
        /\ secrets'[t] = IF removed /\ iscsi[t].secret # NoRec THEN NoRec ELSE secrets[t]
    BY <1>t, <2>1
  <2>5. /\ lunTorn' \subseteq IscsiTargets
        /\ \A u \in IscsiTargets : u # t => (u \in lunTorn <=> u \in lunTorn')
    BY <1>t, <2>1
  <2>6. PoolsMade(iscsi')
    BY <1>t, <2>3 DEF PoolsMade
  <2>7. t \notin lunTorn' =>
           secrets'[t] = IF iscsi'[t] = NoRec THEN NoRec ELSE iscsi'[t].secret
    BY <1>t, <2>1, <2>2, <2>3, <2>4
  <2> QED
    BY <1>f, <2>2, <2>3, <2>4, <2>5, <2>6, <2>7
<1>4. ASSUME NEW pc \in {"login", "logout"}, I!Begin(r, t, pc) PROVE LunsInv'
  <2>0. PICK k : k = [I!Idle EXCEPT !.pc = pc, !.t = t, !.snap = iscsi]
    OBVIOUS
  <2>1. k.pc = pc /\ k.t = t /\ k.snap = iscsi
    BY <2>0 DEF I!Idle
  <2>2. k \in LunRequests
    BY <1>t, <2>0, IdleTyped DEF LunRequests, I!Labels
  <2>3. /\ LunMoves(r, k) /\ iscsi[t] # NoRec
        /\ UNCHANGED <<iscsi, secrets, dev, lun, vg, busy, lunTorn, wrecked>>
    BY <1>4, <2>0 DEF I!Begin, LunMoves
  <2>4. lunTh'[r] = k
    BY <1>t, <2>3 DEF LunMoves
  <2>5. PoolsMade(iscsi)'
    BY <1>t, <2>3 DEF PoolsMade, Made
  <2>6. LunRequest(r)'
    BY <2>1, <2>3, <2>4, <2>5 DEF LunRequest, MakesPool
  <2> QED
    BY <1>t, <2>2, <2>3, <2>6, MoveStep
<1>5. ASSUME NEW l \in I!Luns, NEW v \in Twins, I!CheckDevice(r, t, l, v) PROVE LunsInv'
  <2>0. PICK b \in BOOLEAN : b = ~I!Eligible(l, I!Queries)
    OBVIOUS
  <2>1. PICK k : k = [I!Idle EXCEPT !.pc = "read", !.t = t, !.d = dev[l], !.v = v, !.blind = b]
    OBVIOUS
  <2>2. lunTh' = [lunTh EXCEPT ![r] = k] /\ dev[l] # NoDev
    BY <1>5, <2>0, <2>1 DEF I!CheckDevice
  <2>3. UNCHANGED <<iscsi, secrets, dev, lun, vg, busy, lunTorn, wrecked>>
    BY <1>5 DEF I!CheckDevice
  <2>4. ~b => lun[l] \notin {"fs", "raw", "thin"}
    BY <2>0 DEF I!Eligible, I!Shows, I!Queries, I!InLsblk, I!InVirsh
  <2>5. k \in LunRequests
    BY <1>t, <2>1, IdleTyped DEF LunRequests, I!Labels
  <2>6. /\ k.pc = "read" /\ k.t = t /\ k.d = dev[l] /\ k.v = v /\ k.blind = b
        /\ k.snap = I!Empty /\ dev[l] \in Pair
    BY <1>t, <2>1, <2>2 DEF I!Idle
  <2>7. lunTh'[r] = k /\ LunMoves(r, k)
    BY <1>t, <2>2 DEF LunMoves
  <2>8. ~b => Fit(dev[l])'
    BY <2>3, <2>4 DEF Fit
  <2>9. LunRequest(r)'
    BY <2>3, <2>6, <2>7, <2>8 DEF LunRequest, MakesPool, PoolsMade, I!Empty
  <2> QED
    BY <1>t, <2>3, <2>5, <2>7, <2>9, MoveStep
<1> QED
  BY <1>1, <1>2, <1>3, <1>4, <1>5

(* The devices of a target go: with them the thin pools' hold on them, and  *)
(* the requests that have one of them know it no more.                      *)
LEMMA LogoutStep ==
    ASSUME I!ConstantsAssumption, LunsInv, NEW r \in Threads, lunTh[r].pc = "logout",
           dev' = I!Given(lunTh[r].t, [l \in I!Own(lunTh[r].t) |-> NoDev]),
           busy' = busy \ I!Own(lunTh[r].t),
           lunTh' = [q \in Threads |->
                       IF q = r THEN [lunTh[q] EXCEPT !.pc = "logged"]
                       ELSE [lunTh[q] EXCEPT !.gone = @ \/ \E l \in I!Own(lunTh[r].t) :
                                                dev[l] = lunTh[q].d /\ dev[l] # NoDev]],
           UNCHANGED <<iscsi, secrets, lun, vg, lunTorn, wrecked>>
    PROVE  LunsInv'
<1> DEFINE own == I!Own(lunTh[r].t)
<1>t. /\ lunTh \in [Threads -> LunRequests] /\ LunShape /\ LunRequestsRight
      /\ NoDev \notin Pair /\ LunRequest(r)
  BY DEF LunsInv, LunTypes, LunRequestsRight, I!ConstantsAssumption
<1>1. dev' = [l \in I!Luns |-> IF l \in own THEN NoDev ELSE dev[l]]
  BY DEF I!Given
<1>2. LunShape'
  BY <1>t, <1>1 DEF LunShape
<1>3. PoolsKept /\ PoolsMade(iscsi)' /\ I!SecretsAgree'
  BY DEF PoolsKept, PoolsMade, Made, LunsInv, I!SecretsAgree
<1>4. ASSUME NEW q \in Threads, q # r PROVE lunTh'[q] \in LunRequests /\ LunRequest(q)'
  <2>1. PICK lost \in BOOLEAN :
           lost = \E l \in own : dev[l] = lunTh[q].d /\ dev[l] # NoDev
    OBVIOUS
  <2>2. lunTh'[q] = [lunTh[q] EXCEPT !.gone = @ \/ lost]
    BY <1>4, <2>1
  <2>3. lunTh[q] \in LunRequests /\ LunRequest(q)
    BY <1>t DEF LunRequestsRight
  <2>4. /\ lunTh'[q] \in LunRequests /\ lunTh'[q].gone = (lunTh[q].gone \/ lost)
        /\ lunTh'[q].pc = lunTh[q].pc /\ lunTh'[q].t = lunTh[q].t
        /\ lunTh'[q].d = lunTh[q].d /\ lunTh'[q].v = lunTh[q].v
        /\ lunTh'[q].snap = lunTh[q].snap /\ lunTh'[q].blind = lunTh[q].blind
    BY <2>2, <2>3 DEF LunRequests
  <2>5. ASSUME ~lost, lunTh[q].d \in Pair, Fit(lunTh[q].d) PROVE Fit(lunTh[q].d)'
    <3>1. PICK l \in I!Luns : /\ dev[l] = lunTh[q].d /\ lun[l] \notin {"fs", "raw"}
                              /\ lun[l] = "thin" => l \in busy
      BY <2>5 DEF Fit
    <3>2. l \notin own
      BY <1>t, <2>1, <2>5, <3>1
    <3>3. dev'[l] = lunTh'[q].d /\ (l \in busy => l \in busy')
      BY <1>1, <2>4, <3>1, <3>2
    <3> QED
      BY <3>1, <3>3 DEF Fit
  <2>6. LunRequest(q)'
    BY <1>3, <2>3, <2>4, <2>5, RequestKept
  <2> QED
    BY <2>4, <2>6
<1>5. lunTh'[r] \in LunRequests /\ LunRequest(r)'
  <2>1. /\ lunTh[r] \in LunRequests /\ lunTh'[r] = [lunTh[r] EXCEPT !.pc = "logged"]
    BY <1>t
  <2>2. /\ lunTh'[r] \in LunRequests /\ lunTh'[r].pc = "logged"
        /\ lunTh'[r].t = lunTh[r].t /\ lunTh'[r].snap = lunTh[r].snap
    BY <2>1 DEF LunRequests, I!Labels
  <2>3. PoolsMade(lunTh[r].snap)'
    BY <1>t, <2>2 DEF LunRequest, PoolsMade, Made
  <2> QED
    BY <1>t, <2>2, <2>3 DEF LunRequest, MakesPool
<1>6. lunTh' \in [Threads -> LunRequests] /\ LunRequestsRight'
  <2>1. \A q \in Threads : lunTh'[q] \in LunRequests /\ LunRequest(q)'
    BY <1>4, <1>5
  <2>2. lunTh' = [q \in Threads |-> lunTh'[q]]
    OBVIOUS
  <2>3. lunTh' \in [Threads -> LunRequests]
    BY <2>1, <2>2
  <2> QED
    BY <2>1, <2>3 DEF LunRequestsRight
<1> QED
  BY <1>2, <1>3, <1>6 DEF LunsInv, LunTypes

LEMMA SessionSteps ==
    ASSUME I!ConstantsAssumption, LunsInv, NEW r \in Threads,
           I!Login(r) \/ I!RecordSession(r) \/ I!Logout(r)
    PROVE  LunsInv'
<1>t. /\ lunTh \in [Threads -> LunRequests] /\ lunTh[r] \in LunRequests
      /\ LunShape /\ NoDev \notin Pair /\ LunRequest(r)
      /\ iscsi \in [IscsiTargets -> I!Record \cup {NoRec}]
  BY DEF LunsInv, LunTypes, LunRequestsRight, I!ConstantsAssumption
<1>0. PICK k : k = [lunTh[r] EXCEPT !.pc = "logged"]
  OBVIOUS
<1>k. /\ k \in LunRequests /\ k.pc = "logged" /\ k.t = lunTh[r].t /\ k.snap = lunTh[r].snap
  BY <1>t, <1>0 DEF LunRequests, I!Labels
<1>g. ASSUME I!Goto(r, "logged"), lunTh[r].pc \in {"login", "logout"},
             UNCHANGED <<lun, vg, wrecked>>
      PROVE  LunMoves(r, k) /\ LunRequest(r)'
  <2>1. LunMoves(r, k)
    BY <1>g, <1>0 DEF LunMoves, I!Goto
  <2>2. lunTh'[r] = k
    BY <1>t, <2>1 DEF LunMoves
  <2>3. PoolsMade(lunTh[r].snap)'
    BY <1>t, <1>g, <1>k, <2>2 DEF LunRequest, PoolsMade, Made
  <2>4. LunRequest(r)'
    BY <1>t, <1>g, <1>k, <2>2, <2>3 DEF LunRequest, MakesPool
  <2> QED
    BY <2>1, <2>4
<1>1. CASE I!Login(r)
  <2> DEFINE own == I!Own(lunTh[r].t)
  <2>1. /\ UNCHANGED <<iscsi, secrets, lun, vg, busy, lunTorn, wrecked>>
        /\ I!Goto(r, "logged") /\ lunTh[r].pc = "login"
    BY <1>1 DEF I!Login, I!At
  <2>2. CASE UNCHANGED dev
    BY <1>k, <1>g, <2>1, <2>2, MoveStep
  <2>3. ASSUME \A l \in own : dev[l] = NoDev,
               NEW f \in I!Injection(own, I!FreeDevs), dev' = I!Given(lunTh[r].t, f)
        PROVE  LunsInv'
    <3>1. f \in [own -> I!FreeDevs] /\ \A i, l \in own : f[i] = f[l] => i = l
      BY <2>3 DEF I!Injection, I!IsInjective
    <3>2. \A i \in own : f[i] \in Pair /\ \A l \in I!Luns : dev[l] # f[i]
      BY <3>1 DEF I!FreeDevs
    <3>3. dev' = [l \in I!Luns |-> IF l \in own THEN f[l] ELSE dev[l]]
      BY <2>3 DEF I!Given
    <3>4. dev' \in [I!Luns -> Pair \cup {NoDev}]
      BY <1>t, <3>2, <3>3 DEF LunShape
    <3>5. ASSUME NEW i \in I!Luns, NEW l \in I!Luns, dev'[i] = dev'[l], dev'[i] # NoDev
          PROVE  i = l
      BY <1>t, <3>1, <3>2, <3>3, <3>5 DEF LunShape
    <3>6. \A l \in I!Luns : dev[l] # NoDev => dev'[l] = dev[l]
      BY <2>3, <3>3
    <3>7. LunShape'
      BY <1>t, <2>1, <3>4, <3>5, <3>6 DEF LunShape
    <3>8. PoolsKept /\ FitKept
      BY <1>t, <2>1, <3>6 DEF PoolsKept, FitKept, Made, Fit
    <3> QED
      BY <1>k, <1>g, <2>1, <3>7, <3>8, DeviceStep
  <2> QED
    BY <1>1, <2>2, <2>3 DEF I!Login
<1>2. CASE I!RecordSession(r)
  <2> DEFINE x == lunTh[r].snap[lunTh[r].t]
  <2>1. /\ lunTh[r].pc = "logged" /\ I!End(r)
        /\ UNCHANGED <<secrets, dev, lun, vg, busy, wrecked>>
        /\ I!WriteBack(r, x) \/ UNCHANGED <<iscsi, lunTorn>>
    BY <1>2 DEF I!RecordSession, I!At
  <2>2. lunTh[r].t \in IscsiTargets /\ x # NoRec /\ x \in I!Record
    BY <1>t, <2>1 DEF LunRequest, LunRequests
  <2>3. x.vg # NoVG => Made(x.vg)
    BY <1>t, <2>2 DEF LunRequest, PoolsMade
  <2> QED
    BY <2>1, <2>2, <2>3, WriteBackStep, EndStep
<1>3. CASE I!Logout(r)
  <2>1. /\ UNCHANGED <<iscsi, secrets, lun, vg, lunTorn, wrecked>> /\ lunTh[r].pc = "logout"
    BY <1>3 DEF I!Logout, I!At
  <2>2. CASE I!Goto(r, "logged") /\ UNCHANGED <<dev, busy>>
    BY <1>k, <1>g, <2>1, <2>2, MoveStep
  <2>3. CASE ~(I!Goto(r, "logged") /\ UNCHANGED <<dev, busy>>)
    BY <1>3, <2>1, <2>3, LogoutStep DEF I!Logout
  <2> QED
    BY <2>2, <2>3
<1> QED
  BY <1>1, <1>2, <1>3

-----------------------------------------------------------------------------
(* The commands that make a thin pool, one after the other.                 *)
After == [wipe |-> "pvcreate", pvcreate |-> "vgcreate", vgcreate |-> "lvcreate",
          lvcreate |-> "record"]

LEMMA NextCommand ==
    ASSUME I!ConstantsAssumption, LunsInv, NEW r \in Threads,
           lunTh[r].pc \in MakesPool \ {"record"}, I!Goto(r, After[lunTh[r].pc]),
           PoolsKept, FitKept,
           lunTh[r].pc = "lvcreate" => Made(lunTh[r].v)'
    PROVE  \E k \in LunRequests : LunMoves(r, k) /\ LunRequest(r)'
<1>0. PICK k : k = [lunTh[r] EXCEPT !.pc = After[lunTh[r].pc]]
  OBVIOUS
<1>1. lunTh \in [Threads -> LunRequests] /\ lunTh[r] \in LunRequests /\ LunRequest(r)
  BY DEF LunsInv, LunTypes, LunRequestsRight
<1>2. After[lunTh[r].pc] \in {"pvcreate", "vgcreate", "lvcreate", "record"}
  BY DEF After, MakesPool
<1>3. /\ k \in LunRequests /\ k.pc = After[lunTh[r].pc] /\ k.t = lunTh[r].t
      /\ k.d = lunTh[r].d /\ k.v = lunTh[r].v /\ k.snap = lunTh[r].snap
      /\ k.blind = lunTh[r].blind /\ k.gone = lunTh[r].gone
  BY <1>0, <1>1, <1>2 DEF LunRequests, I!Labels
<1>4. LunMoves(r, k)
  BY <1>0 DEF LunMoves, I!Goto
<1>5. lunTh'[r] = k
  BY <1>1, <1>4 DEF LunMoves
<1>6. \A t \in IscsiTargets :
         k.snap[t] # NoRec /\ k.snap[t].vg # NoVG => k.snap[t].vg \in Twins
  BY <1>3 DEF LunRequests, I!Record
<1>7. PoolsMade(lunTh[r].snap)'
  BY <1>1, <1>3, <1>5, <1>6 DEF LunRequest, PoolsMade, PoolsKept
<1>8. k.pc = "record" => Made(lunTh[r].v)'
  BY <1>3 DEF After, MakesPool
<1>9. k.t \in IscsiTargets /\ k.snap[k.t] # NoRec /\ k.d \in Pair /\ k.v \in Twins
  BY <1>1, <1>3 DEF LunRequest, MakesPool
<1>10. k.pc \in {"pvcreate", "vgcreate"} /\ ~k.blind /\ ~k.gone => Fit(lunTh[r].d)'
  <2>1. k.pc \in {"pvcreate", "vgcreate"} => lunTh[r].pc \in {"wipe", "pvcreate"}
    BY <1>3 DEF After, MakesPool
  <2> QED
    BY <1>1, <1>3, <1>5, <1>9, <2>1 DEF LunRequest, FitKept
<1>11. LunRequest(r)'
  BY <1>2, <1>3, <1>5, <1>7, <1>8, <1>9, <1>10 DEF LunRequest, MakesPool
<1> QED
  BY <1>3, <1>4, <1>11

(* A command of wipe, pvcreate or vgcreate on one LUN: a thin pool that     *)
(* goes is noted, no device that was fit is unfit afterwards.               *)
LEMMA OneCommand ==
    ASSUME I!ConstantsAssumption, LunsInv, NEW r \in Threads,
           lunTh[r].pc \in {"wipe", "pvcreate", "vgcreate"},
           NEW l \in I!Luns, l \notin busy,
           NEW left \in {"blank", "pv", "vg"}, NEW group \in Twins \cup {NoVG},
           group # NoVG <=> left = "vg",
           lun' = [lun EXCEPT ![l] = left], vg' = [vg EXCEPT ![l] = group],
           wrecked' = IF lun[l] = "thin" THEN wrecked \cup {vg[l]} ELSE wrecked,
           I!Goto(r, After[lunTh[r].pc]), UNCHANGED <<iscsi, secrets, dev, busy, lunTorn>>
    PROVE  LunsInv'
<1>t. LunShape
  BY DEF LunsInv, LunTypes
<1>1. /\ lun'[l] = left /\ vg'[l] = group
      /\ \A m \in I!Luns : m # l => lun'[m] = lun[m] /\ vg'[m] = vg[m]
      /\ left \in I!Contents
  BY <1>t DEF LunShape, I!Contents
<1>2. PoolsKept
  <2> SUFFICES ASSUME NEW v \in Twins, Made(v) PROVE Made(v)'
    BY DEF PoolsKept
  <2>1. CASE v \in wrecked
    BY <2>1 DEF Made
  <2>2. ASSUME NEW m \in I!Luns, lun[m] = "thin", vg[m] = v PROVE Made(v)'
    BY <1>1, <2>2 DEF Made
  <2> QED
    BY <2>1, <2>2 DEF Made
<1>3. FitKept
  BY <1>1 DEF FitKept, Fit
<1>4. LunShape'
  <2>1. lun' \in [I!Luns -> I!Contents] /\ vg' \in [I!Luns -> Twins \cup {NoVG}]
    BY <1>t, <1>1 DEF LunShape
  <2>2. \A m \in I!Luns : vg'[m] # NoVG <=> lun'[m] \in {"vg", "thin"}
    BY <1>t, <1>1 DEF LunShape
  <2>3. wrecked' \subseteq Twins
    BY <1>t DEF LunShape
  <2>4. busy' \subseteq {m \in I!Luns : lun'[m] = "thin" /\ dev'[m] # NoDev}
    BY <1>t, <1>1 DEF LunShape
  <2> QED
    BY <1>t, <2>1, <2>2, <2>3, <2>4 DEF LunShape
<1>5. PICK k \in LunRequests : LunMoves(r, k) /\ LunRequest(r)'
  BY <1>2, <1>3, NextCommand DEF MakesPool
<1> QED
  BY <1>2, <1>3, <1>4, <1>5, DeviceStep

LEMMA PoolSteps ==
    ASSUME I!ConstantsAssumption, LunsInv, NEW r \in Threads,
           \/ I!ReadTargets(r) \/ I!Wipe(r) \/ I!PvCreate(r) \/ I!VgCreate(r)
           \/ I!LvCreate(r) \/ I!RecordThin(r)
    PROVE  LunsInv'
<1>t. /\ lunTh \in [Threads -> LunRequests] /\ lunTh[r] \in LunRequests /\ LunRequest(r)
      /\ LunShape /\ NoVG \notin Twins
      /\ iscsi \in [IscsiTargets -> I!Record \cup {NoRec}] /\ PoolsMade(iscsi)
  BY DEF LunsInv, LunTypes, LunRequestsRight, I!ConstantsAssumption
<1>b. \A l \in busy : lun[l] = "thin"
  BY <1>t DEF LunShape
<1>1. CASE I!ReadTargets(r)
  <2>1. lunTh[r].pc = "read" /\ UNCHANGED <<iscsi, secrets, dev, lun, vg, busy, lunTorn, wrecked>>
    BY <1>1 DEF I!ReadTargets, I!At
  <2>2. CASE iscsi[lunTh[r].t] = NoRec \/ I!Taken(lunTh[r].v)
    BY <1>1, <2>1, <2>2, EndStep DEF I!ReadTargets
  <2>3. CASE ~(iscsi[lunTh[r].t] = NoRec \/ I!Taken(lunTh[r].v))
    <3>1. PICK k : k = [lunTh[r] EXCEPT !.pc = "wipe", !.snap = iscsi]
      OBVIOUS
    <3>2. LunMoves(r, k)
      BY <1>1, <1>t, <2>3, <3>1 DEF I!ReadTargets, LunMoves
    <3>3. /\ k \in LunRequests /\ k.pc = "wipe" /\ k.t = lunTh[r].t /\ k.d = lunTh[r].d
          /\ k.v = lunTh[r].v /\ k.snap = iscsi /\ k.blind = lunTh[r].blind
          /\ k.gone = lunTh[r].gone
      BY <1>t, <3>1 DEF LunRequests, I!Labels
    <3>4. lunTh'[r] = k
      BY <1>t, <3>2 DEF LunMoves
    <3>5. PoolsMade(iscsi)'
      BY <1>t, <2>1 DEF PoolsMade, Made
    <3>6. Fit(lunTh[r].d) => Fit(lunTh[r].d)'
      BY <2>1, <3>3, <3>4 DEF Fit
    <3>7. LunRequest(r)'
      BY <1>t, <2>1, <2>3, <3>3, <3>4, <3>5, <3>6 DEF LunRequest, MakesPool
    <3> QED
      BY <2>1, <3>2, <3>3, <3>7, MoveStep
  <2> QED
    BY <2>2, <2>3
<1>2. CASE I!Wipe(r)
  <2>1. /\ lunTh[r].pc = "wipe" /\ UNCHANGED <<iscsi, secrets, dev, busy, lunTorn>>
    BY <1>2 DEF I!Wipe, I!Command, I!At
  <2>2. CASE I!End(r) /\ UNCHANGED <<lun, vg, wrecked>>
    BY <2>1, <2>2, EndStep
  <2>3. ASSUME NEW l \in I!Luns \ busy, lun' = [lun EXCEPT ![l] = "blank"],
               vg' = [vg EXCEPT ![l] = NoVG], I!Goto(r, "pvcreate"),
               wrecked' = IF lun[l] = "thin" THEN wrecked \cup {vg[l]} ELSE wrecked
        PROVE  LunsInv'
    <3>1. I!Goto(r, After[lunTh[r].pc])
      BY <2>1, <2>3 DEF After
    <3> QED
      BY <2>1, <2>3, <3>1, OneCommand
  <2> QED
    BY <1>2, <2>2, <2>3 DEF I!Wipe, I!Command, I!Under
<1>3. CASE I!PvCreate(r)
  <2>1. /\ lunTh[r].pc = "pvcreate" /\ UNCHANGED <<iscsi, secrets, dev, busy, lunTorn>>
    BY <1>3 DEF I!PvCreate, I!Command, I!At
  <2>2. CASE I!End(r) /\ UNCHANGED <<lun, vg, wrecked>>
    BY <2>1, <2>2, EndStep
  <2>3. ASSUME NEW l \in I!Luns \ busy, lun' = [lun EXCEPT ![l] = "pv"],
               vg' = [vg EXCEPT ![l] = NoVG], I!Goto(r, "vgcreate"),
               wrecked' = IF lun[l] = "thin" THEN wrecked \cup {vg[l]} ELSE wrecked
        PROVE  LunsInv'
    <3>1. I!Goto(r, After[lunTh[r].pc])
      BY <2>1, <2>3 DEF After
    <3> QED
      BY <2>1, <2>3, <3>1, OneCommand
  <2> QED
    BY <1>3, <2>2, <2>3 DEF I!PvCreate, I!Command, I!Under
<1>4. CASE I!VgCreate(r)
  <2>1. /\ lunTh[r].pc = "vgcreate" /\ UNCHANGED <<iscsi, secrets, dev, busy, lunTorn>>
    BY <1>4 DEF I!VgCreate, I!Command, I!At
  <2>2. CASE I!End(r) /\ UNCHANGED <<lun, vg, wrecked>>
    BY <2>1, <2>2, EndStep
  <2>3. ASSUME NEW l \in I!Luns, lun[l] # "thin", lun' = [lun EXCEPT ![l] = "vg"],
               vg' = [vg EXCEPT ![l] = lunTh[r].v], I!Goto(r, "lvcreate"),
               wrecked' = IF lun[l] = "thin" THEN wrecked \cup {vg[l]} ELSE wrecked
        PROVE  LunsInv'
    <3>1. I!Goto(r, After[lunTh[r].pc])
      BY <2>1, <2>3 DEF After
    <3>2. lunTh[r].v \in Twins /\ lunTh[r].v # NoVG /\ l \notin busy
      BY <1>t, <1>b, <2>1, <2>3 DEF LunRequest, MakesPool
    <3> QED
      BY <2>1, <2>3, <3>1, <3>2, OneCommand
  <2> QED
    BY <1>4, <2>2, <2>3 DEF I!VgCreate, I!Command, I!Under
<1>5. CASE I!LvCreate(r)
  <2>1. lunTh[r].pc = "lvcreate" /\ UNCHANGED <<iscsi, secrets, dev, vg, lunTorn>>
    BY <1>5 DEF I!LvCreate, I!At
  <2>2. CASE I!End(r) /\ UNCHANGED <<lun, busy, wrecked>>
    BY <2>1, <2>2, EndStep
  <2>3. ASSUME NEW l \in I!Luns, vg[l] = lunTh[r].v, lun[l] = "vg", dev[l] # NoDev,
               lun' = [lun EXCEPT ![l] = "thin"], busy' = busy \cup {l},
               wrecked' = wrecked \ {lunTh[r].v}, I!Goto(r, "record")
        PROVE  LunsInv'
    <3>1. /\ lun'[l] = "thin" /\ \A m \in I!Luns : m # l => lun'[m] = lun[m]
      BY <1>t, <2>3 DEF LunShape
    <3>2. PoolsKept
      <4> SUFFICES ASSUME NEW v \in Twins, Made(v) PROVE Made(v)'
        BY DEF PoolsKept
      <4>1. CASE v = lunTh[r].v
        BY <2>1, <2>3, <3>1, <4>1 DEF Made
      <4>2. CASE v \in wrecked /\ v # lunTh[r].v
        BY <2>3, <4>2 DEF Made
      <4>3. ASSUME NEW m \in I!Luns, lun[m] = "thin", vg[m] = v PROVE Made(v)'
        BY <2>1, <3>1, <4>3 DEF Made
      <4> QED
        BY <4>1, <4>2, <4>3 DEF Made
    <3>3. FitKept
      BY <2>1, <2>3, <3>1 DEF FitKept, Fit
    <3>4. LunShape'
      <4>1. lun' \in [I!Luns -> I!Contents]
        BY <1>t, <2>3 DEF LunShape, I!Contents
      <4>2. \A m \in I!Luns : vg'[m] # NoVG <=> lun'[m] \in {"vg", "thin"}
        BY <1>t, <2>1, <2>3, <3>1 DEF LunShape
      <4>3. busy' \subseteq {m \in I!Luns : lun'[m] = "thin" /\ dev'[m] # NoDev}
        BY <1>t, <2>1, <2>3, <3>1 DEF LunShape
      <4> QED
        BY <1>t, <2>1, <2>3, <4>1, <4>2, <4>3 DEF LunShape
    <3>5. lunTh'[r].v = lunTh[r].v
      BY <1>t, <2>3 DEF I!Goto, LunRequests
    <3>6. Made(lunTh[r].v)'
      BY <2>1, <2>3, <3>1, <3>5 DEF Made
    <3>7. PICK k \in LunRequests : LunMoves(r, k) /\ LunRequest(r)'
      BY <2>1, <2>3, <3>2, <3>3, <3>6, NextCommand DEF MakesPool, After
    <3> QED
      BY <2>1, <3>2, <3>3, <3>4, <3>7, DeviceStep
  <2> QED
    BY <1>5, <2>2, <2>3 DEF I!LvCreate
<1>6. CASE I!RecordThin(r)
  <2>0. PICK old : old = lunTh[r].snap[lunTh[r].t]
    OBVIOUS
  <2>1. PICK x : x = [old EXCEPT !.vg = lunTh[r].v]
    OBVIOUS
  <2>2. /\ lunTh[r].pc = "record" /\ I!End(r)
        /\ UNCHANGED <<secrets, dev, lun, vg, busy, wrecked>>
        /\ I!WriteBack(r, x) \/ UNCHANGED <<iscsi, lunTorn>>
    BY <1>6, <2>0, <2>1 DEF I!RecordThin, I!At
  <2>3. /\ lunTh[r].t \in IscsiTargets /\ old # NoRec /\ old \in I!Record
        /\ lunTh[r].v \in Twins /\ Made(lunTh[r].v)
    BY <1>t, <2>0, <2>2 DEF LunRequest, LunRequests, MakesPool
  <2>4. x \in I!Record /\ x.secret = old.secret /\ x.vg = lunTh[r].v
    BY <2>1, <2>3 DEF I!Record
  <2> QED
    BY <2>0, <2>2, <2>3, <2>4, WriteBackStep, EndStep
<1> QED
  BY <1>1, <1>2, <1>3, <1>4, <1>5, <1>6

LEMMA LunsStep ==
    ASSUME I!ConstantsAssumption, LunsInv, [I!Next]_(I!vars)
    PROVE  LunsInv'
<1>1. CASE I!IscsiRequests
  BY <1>1, AskLuns DEF I!IscsiRequests
<1>2. CASE I!IscsiSteps
  BY <1>2, SessionSteps, PoolSteps DEF I!IscsiSteps
<1>3. CASE UNCHANGED I!vars
  BY <1>3 DEF I!vars, LunsInv, LunTypes, LunShape, LunRequestsRight, LunRequest, PoolsMade,
              Made, Fit, I!SecretsAgree
<1> QED
  BY <1>1, <1>2, <1>3 DEF I!Next

(* Who changes what is on a LUN with data or a thin pool: a request at work *)
(* on its device, whose check failed, or from which a logout took it.       *)
Excused(l) ==
    \E r \in Threads : /\ lunTh[r].pc \in {"wipe", "pvcreate", "vgcreate"}
                       /\ dev[l] = lunTh[r].d
                       /\ lunTh[r].blind \/ lunTh[r].gone

LEMMA LunChanges ==
    ASSUME LunsInv, I!ConstantsAssumption, I!Next, NEW l \in I!Luns,
           lun[l] \in {"fs", "raw", "thin"}, lun'[l] # lun[l]
    PROVE  Excused(l)
<1>t. LunShape /\ NoDev \notin Pair
  BY DEF LunsInv, LunTypes, I!ConstantsAssumption
<1>1. ASSUME NEW r \in Threads, lunTh[r].pc \in {"wipe", "pvcreate", "vgcreate"},
             NEW m \in I!Under(lunTh[r].d), m \notin busy,
             NEW x, lun' = [lun EXCEPT ![m] = x]
      PROVE  Excused(l)
  <2>1. m = l /\ dev[l] = lunTh[r].d
    BY <1>1, <1>t DEF LunShape, I!Under
  <2>2. LunRequest(r) /\ lunTh[r].d \in Pair
    BY <1>1 DEF LunsInv, LunRequestsRight, LunRequest, MakesPool
  <2>3. ASSUME ~lunTh[r].blind, ~lunTh[r].gone PROVE FALSE
    <3>1. PICK i \in I!Luns : /\ dev[i] = lunTh[r].d /\ lun[i] \notin {"fs", "raw"}
                              /\ lun[i] = "thin" => i \in busy
      BY <1>1, <2>2, <2>3 DEF LunRequest, Fit
    <3>2. i = l
      BY <1>t, <2>1, <2>2, <3>1 DEF LunShape
    <3> QED
      BY <1>1, <2>1, <3>1, <3>2
  <2> QED
    BY <1>1, <2>1, <2>3 DEF Excused
<1>2. ASSUME NEW r \in Threads, I!Wipe(r) \/ I!PvCreate(r) PROVE Excused(l)
  BY <1>1, <1>2 DEF I!Wipe, I!PvCreate, I!Command, I!At
<1>3. ASSUME NEW r \in Threads, I!VgCreate(r) PROVE Excused(l)
  <2>1. \A m \in busy : lun[m] = "thin"
    BY <1>t DEF LunShape
  <2> QED
    BY <1>1, <1>3, <2>1 DEF I!VgCreate, I!Command, I!At
<1>4. ASSUME NEW r \in Threads, I!LvCreate(r) PROVE lun'[l] = lun[l]
  BY <1>4, <1>t DEF I!LvCreate, LunShape
<1>5. ASSUME NEW r \in Threads,
             I!Login(r) \/ I!RecordSession(r) \/ I!Logout(r) \/ I!ReadTargets(r) \/ I!RecordThin(r)
      PROVE  UNCHANGED lun
  BY <1>5 DEF I!Login, I!RecordSession, I!Logout, I!ReadTargets, I!RecordThin
<1>6. CASE I!IscsiRequests
  BY <1>6 DEF I!IscsiRequests, I!SaveIscsi, I!SaveIscsiBreaks, I!DeleteIscsi, I!Begin,
              I!CheckDevice
<1>7. CASE I!IscsiSteps
  BY <1>2, <1>3, <1>4, <1>5, <1>7 DEF I!IscsiSteps
<1> QED
  BY <1>6, <1>7 DEF I!Next

-----------------------------------------------------------------------------
(* The steps of the host are those of its parts.                            *)
Host == <<part, mountVars, lunVars, exportVars, vars, remoteVars>>

LEMMA MountsArePart == HostSpec => M!Spec
<1>1. HostInit => M!Init
  BY DEF HostInit
<1>2. [HostNext]_Host => [M!Next]_(M!vars)
  BY DEF HostNext, Host, mountVars, M!vars
<1> QED
  BY <1>1, <1>2, PTL DEF HostSpec, Host, M!Spec

LEMMA LunsArePart == HostSpec => I!Spec
<1>1. HostInit => I!Init
  BY DEF HostInit
<1>2. [HostNext]_Host => [I!Next]_(I!vars)
  BY DEF HostNext, Host, lunVars, I!vars
<1> QED
  BY <1>1, <1>2, PTL DEF HostSpec, Host, I!Spec

LEMMA ExportsArePart == HostSpec => Z!Spec
<1>1. HostInit => Z!Init
  BY DEF HostInit
<1>2. [HostNext]_Host => [Z!Next]_(Z!vars)
  BY DEF HostNext, Host, exportVars, Z!vars
<1> QED
  BY <1>1, <1>2, PTL DEF HostSpec, Host, Z!Spec

LEMMA RegistryIsPart == HostSpec => Spec
<1>1. HostInit => Init
  BY DEF HostInit
<1>2. [HostNext]_Host => [Next]_vars
  BY DEF HostNext, Host, vars
<1> QED
  BY <1>1, <1>2, PTL DEF HostSpec, Host, Spec

LEMMA RemoteIsPart == HostSpec => R!Spec
<1>1. HostInit => R!Init
  BY DEF HostInit
<1>2. [HostNext]_Host => [R!Next]_(R!vars)
  BY DEF HostNext, Host, remoteVars, R!vars
<1> QED
  BY <1>1, <1>2, PTL DEF HostSpec, Host, R!Spec

-----------------------------------------------------------------------------
(* The invariants of the parts are invariants of the host.                  *)

LEMMA MountsInvHolds == HostSpec => []MountsInv
<1>0. M!ConstantsAssumption
  BY InstancesAssumption
<1>1. M!Init => MountsInv
  BY <1>0, MountsStart
<1>2. MountsInv /\ [M!Next]_(M!vars) => MountsInv'
  BY <1>0, MountsStep
<1> QED
  BY <1>1, <1>2, MountsArePart, PTL DEF M!Spec

LEMMA LunsInvHolds == HostSpec => []LunsInv
<1>0. I!ConstantsAssumption
  BY InstancesAssumption
<1>1. I!Init => LunsInv
  BY <1>0, LunsStart
<1>2. LunsInv /\ [I!Next]_(I!vars) => LunsInv'
  BY <1>0, LunsStep
<1> QED
  BY <1>1, <1>2, LunsArePart, PTL DEF I!Spec

LEMMA ExportsInvHolds == HostSpec => [](ExportTypes /\ ExportsSettled)
<1>0. Z!ConstantsAssumption
  BY InstancesAssumption
<1>1. Z!Init => ExportTypes /\ ExportsSettled
  BY <1>0, ExportsStart
<1>2. ExportTypes /\ ExportsSettled /\ [Z!Next]_(Z!vars) => (ExportTypes /\ ExportsSettled)'
  BY <1>0, ExportTypesStep, ExportsStep
<1> QED
  BY <1>1, <1>2, ExportsArePart, PTL DEF Z!Spec

LEMMA RegistryInvHolds == HostSpec => [](TypeOK /\ Inv)
  BY InvInit, RegistryStep, RegistryIsPart, PTL DEF Spec

LEMMA RemoteInvHolds == HostSpec => [](R!TypeOK /\ Standing)
<1>0. R!ConstantsAssumption
  BY InstancesAssumption
<1>1. R!Init => R!TypeOK /\ Standing
  BY RemoteStart
<1>2. R!TypeOK /\ Standing /\ [R!Next]_(R!vars) => (R!TypeOK /\ Standing)'
  BY <1>0, RemoteStep
<1> QED
  BY <1>1, <1>2, RemoteIsPart, PTL DEF R!Spec

-----------------------------------------------------------------------------
(* The files of the registry, the requests on them, records, units, LUNs,   *)
(* exports and clicks stay in range, for any of them and any number of      *)
(* requests.                                                                *)
THEOREM TypesHold == HostSpec => []TypesOK
<1>1. MountsInv /\ LunsInv /\ ExportTypes /\ TypeOK /\ R!TypeOK => TypesOK
  BY LunsInvImplies DEF MountsInv, ExportTypes, TypesOK
<1> QED
  BY <1>1, MountsInvHolds, LunsInvHolds, ExportsInvHolds, RegistryInvHolds, RemoteInvHolds, PTL

(* However many requests save, delete and register nodes at once, and       *)
(* wherever AtlasVM dies: the registry has no node twice, and it is what    *)
(* the requests made of it unless two saves have overlapped.                *)
THEOREM RegistryRightHolds == HostSpec => []RegistryRight
<1>1. TypeOK /\ Inv => RegistryRight
  <2> SUFFICES ASSUME TypeOK, Inv PROVE RegistryRight
    OBVIOUS
  <2>1. UniqueNodes
    BY Types DEF Inv, Drawn, IsList, UniqueNodes
  <2> QED
    BY <2>1 DEF Inv, Alone, RegistryRight, NodesKept
<1> QED
  BY <1>1, RegistryInvHolds, PTL

(* What the page tells of an action is so, and it is carried out on one     *)
(* host and once at most, whatever is lost, late, or refused.               *)
THEOREM RemoteRightHolds == HostSpec => []RemoteRight
<1>1. R!TypeOK /\ Standing => RemoteRight
  BY StandingImplies DEF RemoteRight
<1> QED
  BY <1>1, RemoteInvHolds, PTL

(* What records of NFS and SMB targets say of mounts, units and credentials *)
(* is so after any saves, applies, unmounts, deletes and reboots, whatever  *)
(* systemctl refuses, whichever file stays and wherever a request ends, but *)
(* for the targets the properties except.                                   *)
THEOREM MountsRightHolds == HostSpec => []MountsRight
<1>1. MountsInv => MountsRight
  BY DEF MountsInv, MountsRight
<1> QED
  BY <1>1, MountsInvHolds, PTL

(* Exports that were made are whole, and what is not whole is at work, with *)
(* any number of jobs, deletions and crashes.                               *)
THEOREM ExportsRightHolds == HostSpec => []ExportsRight
<1>1. ExportTypes /\ ExportsSettled => ExportsRight
  <2> SUFFICES ASSUME ExportTypes, ExportsSettled PROVE ExportsRight
    OBVIOUS
  <2>1. Z!MadeWhole
    BY DEF ExportTypes, Z!TypeOK, ExportsSettled, Settled, Whole, Z!MadeWhole
  <2>2. Z!PartialAtWork
    BY DEF ExportsSettled, Settled, Z!PartialAtWork, Z!Working
  <2> QED
    BY <2>1, <2>2 DEF ExportsRight
<1> QED
  BY <1>1, ExportsInvHolds, PTL

(* The thin pools that iSCSI records name exist or were destroyed, and the  *)
(* records agree with the secrets files unless a write-back, a removal that *)
(* failed or a request that ended between the two has torn them apart, with *)
(* any number of requests side by side.                                     *)
THEOREM LunRecordsRightHolds == HostSpec => []LunRecordsRight
<1>1. LunsInv => LunRecordsRight
  BY LunsInvImplies DEF LunRecordsRight
<1> QED
  BY <1>1, LunsInvHolds, PTL

(* Thin pools, filesystems and VMs' disks are destroyed only by a request   *)
(* whose check failed, or whose device a logout has taken away: not by two  *)
(* initialisations of one LUN, whatever else runs beside them.              *)
THEOREM LunDataSafeHolds == HostSpec => LunDataSafe
<1> DEFINE Data == \A l \in I!Luns : lun[l] \in {"fs", "raw", "thin"} /\ lun'[l] # lun[l] =>
                       \E r \in Threads : /\ lunTh[r].pc \in {"wipe", "pvcreate", "vgcreate"}
                                          /\ dev[l] = lunTh[r].d
                                          /\ lunTh[r].blind \/ lunTh[r].gone
<1>0. I!ConstantsAssumption
  BY InstancesAssumption
<1>1. LunsInv /\ [I!Next]_(I!vars) => [Data]_(I!vars)
  BY <1>0, LunChanges DEF Excused
<1>2. LunDataSafe <=> [][Data]_(I!vars)
  BY DEF LunDataSafe, I!DataKept
<1>3. HostSpec => [][Data]_(I!vars)
  <2> HIDE DEF Data
  <2> QED
    BY <1>1, LunsInvHolds, LunsArePart, PTL DEF I!Spec
<1> QED
  BY <1>2, <1>3
=============================================================================
