----------------------------- MODULE NodeRegistry -----------------------------
(***************************************************************************)
(* The registry of AtlasVM nodes (node_registry.py): one JSON file, which   *)
(* every save writes anew through one temporary file and os.replace, and    *)
(* the file with this host's id.  Requests run side by side, each a read, a *)
(* truncation, a write and a replacement, and AtlasVM may die in between.   *)
(* A thread that has the temporary file open keeps it when another moves it *)
(* over the registry: it then writes into the registry itself.              *)
(***************************************************************************)
EXTENDS Naturals

CONSTANTS
    Urls, Self,       \* the nodes' addresses, and this host's own
    MaxId,            \* bound on the ids that are drawn
    Threads, NoFile, Torn, NoId

Ids     == 1..MaxId
Records == [id : Ids, url : Urls, local : BOOLEAN]

ASSUME ConstantsAssumption ==
    /\ Self \in Urls /\ MaxId \in Nat /\ NoId \notin Ids
    /\ \A nodes \in SUBSET Records : nodes # NoFile /\ nodes # Torn

VARIABLES
    file,     \* atlasvm_nodes.json: its records, or Torn if it is no JSON
    tmp,      \* atlasvm_nodes.json.tmp
    idFile,   \* atlasvm_node_id
    nextId,   \* the next uuid
    th,       \* what each request has read and where it is
    wanted,   \* what the requests that ended have made of the registry (ghost)
    overlap   \* two saves have overlapped (ghost)

vars == <<file, tmp, idFile, nextId, th, wanted, overlap>>

NoOp == [kind |-> "none", id |-> NoId, url |-> Self]
Idle == [pc |-> "idle", op |-> NoOp, nodes |-> {}, fd |-> "none"]

Contents == (SUBSET Records) \cup {Torn, NoFile}

(* Files and requests are what the code makes of them; a thread that has    *)
(* not written yet has the temporary file open, the registry, or a file     *)
(* that has lost its name.                                                  *)
TypeOK ==
    /\ file \in Contents /\ tmp \in Contents
    /\ idFile \in Ids \cup {NoId} /\ nextId \in 1..(MaxId + 1)
    /\ th \in [Threads -> [pc : {"idle", "id", "writeId", "read", "open", "write", "replace"},
                           op : [kind : {"none", "save", "delete", "local"},
                                 id : Ids \cup {NoId}, url : Urls],
                           nodes : SUBSET Records, fd : {"none", "tmp", "file", "lost"}]]
    /\ \A t \in Threads : th[t].pc = "write" <=> th[t].fd # "none"
    /\ wanted \in SUBSET Records /\ overlap \in BOOLEAN

Init ==
    /\ file = NoFile /\ tmp = NoFile
    /\ idFile = NoId /\ nextId = 1
    /\ th = [t \in Threads |-> Idle]
    /\ wanted = {} /\ overlap = FALSE

-----------------------------------------------------------------------------

At(t, pc) == th[t].pc = pc
Goto(t, r) == th' = [th EXCEPT ![t] = r]
Saving(t) == th[t].pc \in {"open", "write", "replace"}

(* list_nodes and read_json: what cannot be read is an empty list.          *)
Readable(c) == IF c \in {Torn, NoFile} THEN {} ELSE c

(* upsert_node: the form gives no id, so the record of that URL is updated, *)
(* which keeps its id and its local flag, or a new one is made.             *)
Upserted(nodes, id, url) ==
    IF \E r \in nodes : r.url = url THEN nodes
    ELSE nodes \cup {[id |-> id, url |-> url, local |-> FALSE]}

(* ensure_local_node_registered: the record with this host's id, or a new   *)
(* one, whatever record has this host's URL.                                *)
WithLocal(nodes, id) ==
    IF \E r \in nodes : r.id = id
    THEN {[r EXCEPT !.local = @ \/ r.id = id] : r \in nodes}
    ELSE nodes \cup {[id |-> id, url |-> Self, local |-> TRUE]}

Applied(op, nodes) ==
    CASE op.kind = "save"   -> Upserted(nodes, op.id, op.url)
      [] op.kind = "delete" -> {r \in nodes : r.id # op.id}
      [] op.kind = "local"  -> WithLocal(nodes, op.id)

-----------------------------------------------------------------------------
(* The requests: node_save, node_delete, and the pages that register the    *)
(* local node.                                                              *)

SaveNode(t, url) ==
    /\ At(t, "idle") /\ nextId \in Ids
    /\ nextId' = nextId + 1
    /\ Goto(t, [Idle EXCEPT !.pc = "read", !.op = [kind |-> "save", id |-> nextId, url |-> url]])
    /\ UNCHANGED <<file, tmp, idFile, wanted, overlap>>

DeleteNode(t, id) ==
    /\ At(t, "idle")
    /\ Goto(t, [Idle EXCEPT !.pc = "read", !.op = [NoOp EXCEPT !.kind = "delete", !.id = id]])
    /\ UNCHANGED <<file, tmp, idFile, nextId, wanted, overlap>>

RegisterLocal(t) ==
    /\ At(t, "idle")
    /\ Goto(t, [Idle EXCEPT !.pc = "id", !.op.kind = "local"])
    /\ UNCHANGED <<file, tmp, idFile, nextId, wanted, overlap>>

(* get_local_node_id: the id of the file, or a new one that is written.     *)
ReadId(t) ==
    /\ At(t, "id")
    /\ \/ /\ idFile # NoId
          /\ Goto(t, [th[t] EXCEPT !.pc = "read", !.op.id = idFile])
          /\ UNCHANGED nextId
       \/ /\ idFile = NoId /\ nextId \in Ids
          /\ Goto(t, [th[t] EXCEPT !.pc = "writeId", !.op.id = nextId])
          /\ nextId' = nextId + 1
    /\ UNCHANGED <<file, tmp, idFile, wanted, overlap>>

WriteId(t) ==
    /\ At(t, "writeId")
    /\ idFile' = th[t].op.id
    /\ Goto(t, [th[t] EXCEPT !.pc = "read"])
    /\ UNCHANGED <<file, tmp, nextId, wanted, overlap>>

(* The registry is read and the new list is made of it.                     *)
ReadNodes(t) ==
    /\ At(t, "read")
    /\ Goto(t, [th[t] EXCEPT !.pc = "open", !.nodes = Applied(th[t].op, Readable(file))])
    /\ overlap' = (overlap \/ \E q \in Threads : Saving(q))
    /\ UNCHANGED <<file, tmp, idFile, nextId, wanted>>

(* A mutant of OpenTmp: the registry itself is opened for writing.          *)
OpenFile(t) ==
    /\ At(t, "open")
    /\ file' = Torn
    /\ Goto(t, [th[t] EXCEPT !.pc = "write", !.fd = "tmp"])
    /\ UNCHANGED <<tmp, idFile, nextId, wanted, overlap>>

(* write_json, in its calls: the temporary file is truncated, ...           *)
OpenTmp(t) ==
    /\ At(t, "open")
    /\ tmp' = Torn
    /\ Goto(t, [th[t] EXCEPT !.pc = "write", !.fd = "tmp"])
    /\ UNCHANGED <<file, idFile, nextId, wanted, overlap>>

(* ... written from its start, so that the end of a longer text another     *)
(* thread has written meanwhile stays behind it, ...                        *)
Overwritten(c, nodes) == IF c = Torn THEN {nodes} ELSE {nodes, Torn}

WriteTmp(t) ==
    /\ At(t, "write")
    /\ CASE th[t].fd = "tmp"  -> tmp' \in Overwritten(tmp, th[t].nodes) /\ UNCHANGED file
         [] th[t].fd = "file" -> file' \in Overwritten(file, th[t].nodes) /\ UNCHANGED tmp
         [] th[t].fd = "lost" -> UNCHANGED <<file, tmp>>
    /\ Goto(t, [th[t] EXCEPT !.pc = "replace", !.fd = "none"])
    /\ UNCHANGED <<idFile, nextId, wanted, overlap>>

(* ... and moved over the registry; if another has moved it already the     *)
(* request ends with an error.                                              *)
Replace(t) ==
    LET moved(fd) == IF fd = "tmp" THEN "file" ELSE IF fd = "file" THEN "lost" ELSE fd IN
    /\ At(t, "replace")
    /\ IF tmp = NoFile
       THEN Goto(t, Idle) /\ UNCHANGED <<file, tmp, wanted>>
       ELSE /\ file' = tmp /\ tmp' = NoFile
            /\ th' = [q \in Threads |-> IF q = t THEN Idle
                                        ELSE [th[q] EXCEPT !.fd = moved(@)]]
            /\ wanted' = Applied(th[t].op, wanted)
    /\ UNCHANGED <<idFile, nextId, overlap>>

(* AtlasVM ends, and starts again.                                          *)
Crash ==
    /\ th' = [t \in Threads |-> Idle]
    /\ UNCHANGED <<file, tmp, idFile, nextId, wanted, overlap>>

Next ==
    \/ \E t \in Threads :
          \/ \E url \in Urls : SaveNode(t, url)
          \/ \E id \in Ids : DeleteNode(t, id)
          \/ RegisterLocal(t)
          \/ ReadId(t) \/ WriteId(t) \/ ReadNodes(t)
          \/ OpenTmp(t) \/ WriteTmp(t) \/ Replace(t)
    \/ Crash

Spec == Init /\ [][Next]_vars

-----------------------------------------------------------------------------
(* Properties.                                                              *)

Unique(nodes) ==
    \A r, q \in nodes : r # q => r.id # q.id /\ (r.url = q.url => r.local \/ q.local)

(* No two records have the same id, and two of one address are there only   *)
(* if one is the local node's, however saves overlap and wherever AtlasVM   *)
(* dies: what a request writes comes from one reading of the file.          *)
UniqueNodes == Unique(Readable(file))

(* As long as no two saves overlap the registry is what the requests that   *)
(* ended made of it: one that dies on its way changes nothing.              *)
NodesKept == overlap \/ Readable(file) = wanted

(* The registry has no node twice and keeps what requests made of it.       *)
RegistryRight == UniqueNodes /\ NodesKept
=============================================================================
