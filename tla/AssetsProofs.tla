------------------------------ MODULE AssetsProofs ------------------------------
(***************************************************************************)
(* Theorems about Assets, for any assets, requests, length of an upload    *)
(* and number of published builds.                                         *)
(***************************************************************************)
EXTENDS Assets, FiniteSetTheorems, TLAPS

-----------------------------------------------------------------------------
(* The inductive invariant.  Requests are typed as TypeOK types them, with  *)
(* the fields it leaves out.                                                *)

Ops == {"none", "chunk", "finalize", "delete", "designate", "undesignate", "seed",
        "download"}
Ats == {"load", "body", "commit", "unlink", "update", "head", "get", "open", "read"}

Requests ==
    [op : Ops, asset : AssetIds \cup {""}, at : Ats, copy : Rows \cup {NoRow},
     new : Rows \cup {NoRow}, body : 0 .. NChunks, seen : SUBSET AssetIds,
     data : Contents]

Types ==
    /\ kind \in Kinds
    /\ rows \in [AssetIds -> Rows \cup {NoRow}]
    /\ part \in [AssetIds -> Seq(1 .. NChunks)]
    /\ file \in [AssetIds \cup {AgentPath} -> Contents]
    /\ tab \in [AssetIds -> {"unused", "chunk", "waiting", "finalize", "failed", "seeded"}]
    /\ sent \in [AssetIds -> 0 .. NChunks + 1]
    /\ req \in [Reqs -> Requests]

(* The chunks of an upload, as far as it has come. *)
Upto(k) == [n \in 1 .. k |-> n]

(* An upload is over when its tab is and no handler has a request of it. *)
Uploading(r, a) == req[r].op \in {"chunk", "finalize"} /\ req[r].asset = a
Done(a) ==
    tab[a] \in {"finalize", "failed", "seeded"} /\ \A r \in Reqs : ~Uploading(r, a)

(* The row of an upload that is not over. *)
Fresh(row) ==
    row.path = "" /\ row.sum = Absent /\ ~row.agent /\ row.status # "complete"

(* A row that will never again name the file of its own asset. *)
Moved(a) == rows[a] = NoRow \/ rows[a].path = AgentPath

TabInv(a) ==
    /\ tab[a] = "unused" => sent[a] = 0 /\ part[a] = <<>> /\ rows[a] = NoRow
    /\ tab[a] = "chunk" => sent[a] <= NChunks /\ part[a] = Upto(sent[a])

DataInv(a) ==
    /\ rows[a] # NoRow =>
          /\ rows[a].path \in {"", a, AgentPath}
          /\ Fresh(rows[a]) \/ Done(a)
          /\ rows[a].path = a => file[a].chunks = Whole /\ rows[a].sum = file[a]
    /\ file[a] = Absent \/ file[a].chunks = Whole

AgentFile == file[AgentPath] = Absent \/ \E n \in 1 .. Builds : file[AgentPath] = BuildFile(n)

(* One request of an upload at a time, unless its tab has given up; what   *)
(* the handler holds is what the tab has sent.                             *)
ActiveInv(r) ==
    req[r].op \in {"chunk", "finalize"} =>
        /\ req[r].asset \in AssetIds
        /\ tab[Asset(r)] \in {"waiting", "failed"}
        /\ \A q \in Reqs : Uploading(q, Asset(r)) => q = r

ChunkInv(r) ==
    req[r].op = "chunk" =>
        /\ req[r].at \in {"load", "body", "commit"} /\ req[r].body \in 1 .. NChunks
        /\ tab[Asset(r)] = "waiting" =>
              /\ sent[Asset(r)] = req[r].body - 1
              /\ part[Asset(r)] = Upto(IF req[r].at = "commit" THEN req[r].body
                                                            ELSE req[r].body - 1)
        /\ req[r].at # "load" => req[r].copy # NoRow
        /\ req[r].at = "commit" => req[r].new = [req[r].copy EXCEPT !.status = "uploading"]

FinalizeInv(r) ==
    req[r].op = "finalize" =>
        /\ req[r].at \in {"load", "commit"}
        /\ tab[Asset(r)] = "waiting" => sent[Asset(r)] = NChunks
        /\ req[r].at = "load" => part[Asset(r)] = Whole
        /\ req[r].at = "commit" =>
              /\ file[Asset(r)].chunks = Whole /\ req[r].copy # NoRow
              /\ req[r].new = [req[r].copy EXCEPT !.path = Asset(r),
                                   !.sum = file[Asset(r)], !.status = "complete"]

(* A copy that is not fresh was read after the upload; one that names the  *)
(* agent's file, after the row had come to name it.                        *)
CopyInv(r) ==
    req[r].copy # NoRow =>
        /\ req[r].asset \in AssetIds /\ tab[Asset(r)] # "unused"
        /\ req[r].copy.path \in {"", Asset(r), AgentPath}
        /\ Fresh(req[r].copy) \/ Done(Asset(r))
        /\ req[r].copy.path = AgentPath => Moved(Asset(r))

DeleteInv(r) ==
    req[r].op = "delete" =>
        /\ req[r].asset \in AssetIds /\ tab[Asset(r)] # "unused"
        /\ req[r].at # "load" => req[r].copy # NoRow
        /\ req[r].at = "unlink" => rows[Asset(r)] = NoRow

DesignateInv(r) ==
    req[r].op \in {"designate", "undesignate"} =>
        /\ req[r].asset \in AssetIds
        /\ req[r].at # "load" =>
              /\ req[r].copy # NoRow
              /\ req[r].new = [req[r].copy EXCEPT !.agent = (req[r].op = "designate")]
              /\ req[r].op = "designate" => Done(Asset(r))

SeedInv(r) ==
    req[r].op = "seed" =>
        /\ req[r].asset # "" => req[r].copy # NoRow /\ Done(Asset(r))
        /\ req[r].asset = "" => req[r].at # "unlink"
        /\ req[r].at = "commit" =>
              \E n \in 1 .. Builds :
                 req[r].new = Seeded(IF Asset(r) # "" THEN req[r].copy
                                     ELSE [NewRow EXCEPT !.agent = TRUE], n)
        /\ req[r].at = "unlink" => Moved(Asset(r))

DownloadInv(r) ==
    req[r].op = "download" =>
        /\ req[r].asset \in AssetIds
        /\ req[r].at = "open" => req[r].copy # NoRow /\ req[r].copy.path # ""
        /\ req[r].at = "read" /\ req[r].copy.path # AgentPath =>
              req[r].data.chunks = Whole

ReqInv(r) ==
    /\ ActiveInv(r) /\ ChunkInv(r) /\ FinalizeInv(r) /\ CopyInv(r)
    /\ DeleteInv(r) /\ DesignateInv(r) /\ SeedInv(r) /\ DownloadInv(r)

Inv ==
    /\ Types /\ AgentFile
    /\ \A a \in AssetIds : TabInv(a) /\ DataInv(a)
    /\ \A r \in Reqs : ReqInv(r)


-----------------------------------------------------------------------------
(* Sequences, rows and requests. *)

LEMMA BoundsFacts ==
    NChunks \in Nat \ {0} /\ Builds \in Nat \ {0} /\ 0 \in 0 .. NChunks
<1>1. NChunks \in Nat \ {0} /\ Builds \in Nat \ {0}
  BY AssetsAssumption
<1>. QED  BY <1>1

LEMMA UptoFacts ==
    ASSUME NEW k \in Nat
    PROVE  /\ Upto(k) \in Seq(Nat) /\ Len(Upto(k)) = k
           /\ Upto(0) = <<>> /\ (k # 0 => Upto(k) # <<>>)
           /\ Append(Upto(k), k + 1) = Upto(k + 1)
<1>1. Upto(k) \in Seq(Nat) /\ Len(Upto(k)) = k
  BY DEF Upto
<1>2. Upto(0) = <<>>
  BY DEF Upto
<1>3. k # 0 => Upto(k) # <<>>
  BY <1>1
<1>4. Upto(k + 1) \in Seq(Nat) /\ Len(Upto(k + 1)) = k + 1
  BY DEF Upto
<1>5. \A n \in 1 .. k + 1 : Append(Upto(k), k + 1)[n] = Upto(k + 1)[n]
  BY <1>1 DEF Upto
<1>6. Append(Upto(k), k + 1) \in Seq(Nat) /\ Len(Append(Upto(k), k + 1)) = k + 1
  BY <1>1
<1>. QED  BY <1>1, <1>2, <1>3, <1>4, <1>5, <1>6

LEMMA WholeFacts ==
    /\ NChunks \in Nat \ {0} /\ Whole = Upto(NChunks) /\ Whole # <<>>
    /\ Whole \in Seq(1 .. NChunks) /\ Whole \in Seq(Int)
    /\ Absent \in Contents /\ Absent.chunks = <<>> /\ ~Absent.patched
    /\ \A n \in 1 .. Builds : BuildFile(n) \in Contents /\ BuildFile(n) # Absent
<1>1. NChunks \in Nat \ {0}
  BY BoundsFacts
<1>2. Whole = Upto(NChunks) /\ Whole # <<>>
  BY <1>1, UptoFacts DEF Whole, Upto
<1>3. Whole \in Seq(1 .. NChunks) /\ Whole \in Seq(Int)
  BY <1>1 DEF Whole
<1>4. Absent \in Contents /\ Absent.chunks = <<>> /\ ~Absent.patched
  BY DEF Absent, Contents
<1>5. \A n \in 1 .. Builds : BuildFile(n) \in Contents /\ BuildFile(n) # Absent
  <2>. TAKE n \in 1 .. Builds
  <2>1. 0 - n \in Int
    BY BoundsFacts
  <2>. DEFINE s == <<0 - n>>
  <2>2. s \in Seq(Int) /\ Len(s) = 1
    BY <2>1
  <2>3. s # <<>>
    BY <2>2
  <2>. QED  BY <2>2, <2>3 DEF BuildFile, Absent, Contents
<1>. QED  BY <1>1, <1>2, <1>3, <1>4, <1>5

LEMMA IdsFacts == "" \notin AssetIds /\ AgentPath \notin AssetIds /\ AgentPath # ""
BY AssetsAssumption DEF AgentPath

(* A commit column by column. *)
LEMMA FlushFacts ==
    ASSUME NEW cur \in Rows, NEW old \in Rows, NEW new \in Rows
    PROVE  /\ Flush(cur, old, new) \in Rows
           /\ Flush(cur, old, new).status =
                 IF new.status # old.status THEN new.status ELSE cur.status
           /\ Flush(cur, old, new).path =
                 IF new.path # old.path THEN new.path ELSE cur.path
           /\ Flush(cur, old, new).sum =
                 IF new.sum # old.sum THEN new.sum ELSE cur.sum
           /\ Flush(cur, old, new).agent =
                 IF new.agent # old.agent THEN new.agent ELSE cur.agent
BY DEF Flush, Dirty, Rows

LEMMA RowFacts ==
    /\ NoRow \notin Rows /\ NewRow \in Rows /\ Fresh(NewRow) /\ NewRow.path = ""
    /\ \A row \in Rows : [row EXCEPT !.agent = FALSE] \in Rows
<1>1. NoRow \notin Rows
  BY DEF NoRow, Rows
<1>2. NewRow \in Rows /\ Fresh(NewRow) /\ NewRow.path = ""
  BY WholeFacts DEF NewRow, Rows, Fresh
<1>3. \A row \in Rows : [row EXCEPT !.agent = FALSE] \in Rows
  BY DEF Rows
<1>. QED  BY <1>1, <1>2, <1>3

LEMMA RequestFacts ==
    \A op \in Ops, a \in AssetIds \cup {""} :
        /\ Request(op, a) \in Requests
        /\ Request(op, a).op = op /\ Request(op, a).asset = a
        /\ Request(op, a).at = "load" /\ Request(op, a).copy = NoRow
        /\ Request(op, a).new = NoRow /\ Request(op, a).body = 0
        /\ Request(op, a).seen = {}
<1>1. "load" \in Ats /\ Absent \in Contents /\ 0 \in 0 .. NChunks
  BY BoundsFacts, WholeFacts DEF Ats
<1>. QED  BY <1>1 DEF Request, Requests

LEMMA IdleFacts ==
    Idle \in Requests /\ Idle.op = "none" /\ Idle.copy = NoRow /\ Idle.asset = ""
<1>1. "none" \in Ops /\ "" \in AssetIds \cup {""}
  BY DEF Ops
<1>2. Idle \in Requests
  BY <1>1, RequestFacts DEF Idle
<1>3. Idle.op = "none" /\ Idle.copy = NoRow /\ Idle.asset = ""
  BY DEF Idle, Request
<1>. QED  BY <1>2, <1>3

-----------------------------------------------------------------------------
(* What a step of one handler must keep for the others. *)

TabKept(a) ==
    /\ tab[a] # "unused" => tab'[a] # "unused"
    /\ Done(a) => Done(a)'

RowKept(a) ==
    tab[a] # "unused" =>
        /\ rows[a] = NoRow => rows'[a] = NoRow
        /\ Moved(a) => Moved(a)'

UploadKept(q) ==
    LET a == Asset(q)
    IN  req[q].op \in {"chunk", "finalize"} =>
            /\ \/ tab'[a] = tab[a] /\ sent'[a] = sent[a]
               \/ tab'[a] = "failed"
            /\ part'[a] = part[a] /\ file'[a] = file[a]
            /\ \A p \in Reqs : Uploading(p, a)' => p = q

LEMMA RequestKept ==
    ASSUME Inv, NEW q \in Reqs, req'[q] = req[q], UploadKept(q),
           \A a \in AssetIds : TabKept(a) /\ RowKept(a)
    PROVE  ReqInv(q)'
<1>. USE DEF Asset
<1>1. ReqInv(q)
  BY DEF Inv
<1>2. ActiveInv(q)'
  BY <1>1 DEF ReqInv, ActiveInv, UploadKept
<1>3. ChunkInv(q)'
  BY <1>1 DEF ReqInv, ActiveInv, ChunkInv, UploadKept
<1>4. FinalizeInv(q)'
  <2>. SUFFICES ASSUME req[q].op = "finalize"  PROVE FinalizeInv(q)'
    BY DEF FinalizeInv
  <2>1. FinalizeInv(q) /\ (tab'[req[q].asset] = "waiting" => tab[req[q].asset] = "waiting"
           /\ sent'[req[q].asset] = sent[req[q].asset])
        /\ part'[req[q].asset] = part[req[q].asset] /\ file'[req[q].asset] = file[req[q].asset]
    BY <1>1 DEF ReqInv, ActiveInv, UploadKept
  <2>. QED  BY <2>1 DEF FinalizeInv
<1>5. CopyInv(q)'
  BY <1>1 DEF ReqInv, CopyInv, TabKept, RowKept
<1>6. DeleteInv(q)'
  BY <1>1 DEF ReqInv, DeleteInv, TabKept, RowKept
<1>7. DesignateInv(q)'
  BY <1>1 DEF ReqInv, DesignateInv, TabKept
<1>8. SeedInv(q)'
  <2>1. req[q].op = "seed" /\ req[q].asset # "" =>
           req[q].asset \in AssetIds /\ tab[Asset(q)] # "unused"
    BY <1>1 DEF ReqInv, SeedInv, CopyInv
  <2>. QED  BY <1>1, <2>1 DEF ReqInv, SeedInv, TabKept, RowKept
<1>9. DownloadInv(q)'
  BY <1>1 DEF ReqInv, DownloadInv
<1>. QED  BY <1>2, <1>3, <1>4, <1>5, <1>6, <1>7, <1>8, <1>9 DEF ReqInv

LEMMA DataKept ==
    ASSUME NEW a \in AssetIds, DataInv(a), TabKept(a),
           rows'[a] = rows[a], file'[a] = file[a]
    PROVE  DataInv(a)'
BY DEF DataInv, TabKept

(* A step of handler r, in which r may come to do anything but an upload   *)
(* that was not its own.                                                   *)
LEMMA HandlerStep ==
    ASSUME Inv, NEW r \in Reqs, Types', AgentFile',
           \A q \in Reqs \ {r} : req'[q] = req[q] /\ UploadKept(q),
           \A a \in AssetIds : TabKept(a) /\ RowKept(a) /\ TabInv(a)' /\ DataInv(a)',
           ReqInv(r)'
    PROVE  Inv'
<1>1. \A q \in Reqs : ReqInv(q)'
  <2>. TAKE q \in Reqs
  <2>. QED  BY RequestKept
<1>. QED  BY <1>1 DEF Inv

(* A handler goes on. *)
LEMMA MoveStep ==
    ASSUME Inv, NEW r \in Reqs, UNCHANGED <<kind, rows, part, tab, sent>>,
           req' \in [Reqs -> Requests], \A q \in Reqs \ {r} : req'[q] = req[q],
           file' \in [AssetIds \cup {AgentPath} -> Contents], AgentFile',
           \A a \in AssetIds : file'[a] = file[a],
           \A a \in AssetIds : Uploading(r, a)' => Uploading(r, a),
           ReqInv(r)'
    PROVE  Inv'
<1>1. Types'
  BY DEF Inv, Types
<1>2. \A q \in Reqs, a \in AssetIds : Uploading(q, a)' => Uploading(q, a)
  BY DEF Uploading
<1>3. \A a \in AssetIds : TabKept(a) /\ RowKept(a)
  BY <1>2 DEF TabKept, RowKept, Done, Moved
<1>4. \A q \in Reqs \ {r} : UploadKept(q)
  <2>. TAKE q \in Reqs \ {r}
  <2>1. ActiveInv(q)
    BY DEF Inv, ReqInv
  <2>. QED  BY <1>2, <2>1 DEF UploadKept, ActiveInv, Asset
<1>5. \A a \in AssetIds : TabInv(a)' /\ DataInv(a)'
  <2>. TAKE a \in AssetIds
  <2>1. TabInv(a)'
    BY DEF Inv, TabInv
  <2>2. DataInv(a)'
    BY <1>3, DataKept DEF Inv
  <2>. QED  BY <2>1, <2>2
<1>. QED  BY <1>1, <1>3, <1>4, <1>5, HandlerStep

LEMMA CopyLoaded ==
    ASSUME Inv, NEW r \in Reqs, UNCHANGED <<rows, tab>>,
           req'[r].asset \in AssetIds, req'[r].copy = rows[req'[r].asset],
           \A a \in AssetIds : TabKept(a)
    PROVE  CopyInv(r)'
BY DEF Inv, TabInv, DataInv, CopyInv, Asset, TabKept, Moved

LEMMA CopySame ==
    ASSUME Inv, NEW r \in Reqs,
           req'[r].asset = req[r].asset, req'[r].copy = req[r].copy,
           \A a \in AssetIds : TabKept(a) /\ RowKept(a)
    PROVE  CopyInv(r)'
BY DEF Inv, ReqInv, CopyInv, Asset, TabKept, RowKept

-----------------------------------------------------------------------------
(* Answers. *)

LEMMA AnswerFacts ==
    ASSUME Inv, NEW r \in Reqs, NEW ok \in BOOLEAN, Answer(r, ok)
    PROVE  /\ tab' \in [AssetIds ->
                 {"unused", "chunk", "waiting", "finalize", "failed", "seeded"}]
           /\ sent' \in [AssetIds -> 0 .. NChunks + 1]
           /\ req' \in [Reqs -> Requests] /\ req'[r] = Idle
           /\ \A q \in Reqs \ {r} : req'[q] = req[q]
           /\ \A a \in AssetIds :
                 \/ tab'[a] = tab[a] /\ sent'[a] = sent[a]
                 \/ /\ Uploading(r, a) /\ tab[a] = "waiting"
                    /\ IF ok THEN tab'[a] = req[r].op /\ sent'[a] = sent[a] + 1
                             ELSE tab'[a] = "failed"
           /\ \A q \in Reqs, a \in AssetIds : Uploading(q, a)' => Uploading(q, a) /\ q # r
           /\ \A a \in AssetIds : TabKept(a)
           /\ \A a \in AssetIds : Uploading(r, a) =>
                 Done(a)' \/ (tab'[a] = "chunk" /\ req[r].op = "chunk" /\ ok /\ tab[a] = "waiting")
<1>1. ActiveInv(r) /\ ChunkInv(r) /\ FinalizeInv(r) /\ Types
  BY DEF Inv, ReqInv
<1>2. req' \in [Reqs -> Requests] /\ req'[r] = Idle /\ \A q \in Reqs \ {r} : req'[q] = req[q]
  BY <1>1, IdleFacts DEF Answer, Types
<1>3. \A q \in Reqs, a \in AssetIds : Uploading(q, a)' => Uploading(q, a) /\ q # r
  BY <1>2, IdleFacts DEF Uploading
<1>4. CASE req[r].op \in {"chunk", "finalize"} /\ tab[Asset(r)] = "waiting"
  <2>. PICK b \in AssetIds : b = Asset(r)
    BY <1>1, <1>4 DEF ActiveInv, Asset
  <2>1. b \in AssetIds /\ Uploading(r, b)
    BY <1>1, <1>4 DEF ActiveInv, Asset, Uploading
  <2>2. sent[b] \in 0 .. NChunks
    BY <1>1, <1>4, BoundsFacts DEF ChunkInv, FinalizeInv
  <2>3. /\ tab' = [tab EXCEPT ![b] = IF ok THEN req[r].op ELSE "failed"]
        /\ sent' = [sent EXCEPT ![b] = IF ok THEN @ + 1 ELSE 0]
    BY <1>4 DEF Answer
  <2>4. tab' \in [AssetIds ->
                 {"unused", "chunk", "waiting", "finalize", "failed", "seeded"}]
    BY <1>1, <1>4, <2>3 DEF Types
  <2>5. sent' \in [AssetIds -> 0 .. NChunks + 1]
    <3>1. sent[b] + 1 \in 0 .. NChunks + 1 /\ 0 \in 0 .. NChunks + 1
      BY <2>2, BoundsFacts
    <3>. QED  BY <1>1, <2>3, <3>1 DEF Types
  <2>6. \A a \in AssetIds :
           \/ tab'[a] = tab[a] /\ sent'[a] = sent[a]
           \/ /\ a = b /\ tab[a] = "waiting"
              /\ IF ok THEN tab'[a] = req[r].op /\ sent'[a] = sent[a] + 1
                       ELSE tab'[a] = "failed"
    BY <1>1, <1>4, <2>1, <2>3 DEF Types
  <2>7. \A a \in AssetIds : TabKept(a)
    BY <1>3, <1>4, <2>6 DEF TabKept, Done
  <2>8. \A a \in AssetIds : Uploading(r, a) => a = b
    BY DEF Uploading, Asset
  <2>9. Done(b)' \/ (tab'[b] = "chunk" /\ req[r].op = "chunk" /\ ok)
    <3>1. \A q \in Reqs : ~Uploading(q, b)'
      BY <1>1, <1>3, <1>4, <2>1 DEF ActiveInv
    <3>2. tab'[b] = IF ok THEN req[r].op ELSE "failed"
      BY <1>1, <2>1, <2>3 DEF Types
    <3>. QED  BY <1>4, <3>1, <3>2 DEF Done
  <2>. QED  BY <1>2, <1>3, <1>4, <2>1, <2>4, <2>5, <2>6, <2>7, <2>8, <2>9
<1>5. CASE ~(req[r].op \in {"chunk", "finalize"} /\ tab[Asset(r)] = "waiting")
  <2>1. tab' = tab /\ sent' = sent
    BY <1>5 DEF Answer
  <2>2. \A a \in AssetIds : TabKept(a)
    BY <1>3, <2>1 DEF TabKept, Done
  <2>3. \A a \in AssetIds : Uploading(r, a) => Done(a)'
    <3>. SUFFICES ASSUME NEW a \in AssetIds, Uploading(r, a)  PROVE Done(a)'
      OBVIOUS
    <3>1. a = Asset(r) /\ tab'[a] = "failed"
      BY <1>1, <1>5, <2>1 DEF ActiveInv, Uploading, Asset
    <3>2. \A q \in Reqs : ~Uploading(q, a)'
      BY <1>1, <1>3, <3>1 DEF ActiveInv, Uploading
    <3>. QED  BY <3>1, <3>2 DEF Done
  <2>. QED  BY <1>1, <1>2, <1>3, <2>1, <2>2, <2>3 DEF Types
<1>. QED  BY <1>4, <1>5

LEMMA IdleInv ==
    ASSUME NEW r \in Reqs, req'[r] = Idle
    PROVE  ReqInv(r)'
BY IdleFacts DEF ReqInv, ActiveInv, ChunkInv, FinalizeInv, CopyInv, DeleteInv,
                 DesignateInv, SeedInv, DownloadInv

LEMMA AnswerStep ==
    ASSUME Inv, NEW r \in Reqs, NEW ok \in BOOLEAN, Answer(r, ok), UNCHANGED kind,
           rows' \in [AssetIds -> Rows \cup {NoRow}],
           part' \in [AssetIds -> Seq(1 .. NChunks)],
           file' \in [AssetIds \cup {AgentPath} -> Contents], AgentFile',
           \A a \in AssetIds : RowKept(a) /\ DataInv(a)',
           \A a \in AssetIds : part'[a] = part[a] \/ Uploading(r, a),
           \A a \in AssetIds : tab[a] = "unused" => rows'[a] = NoRow,
           \A q \in Reqs \ {r}, a \in AssetIds : Uploading(q, a) => file'[a] = file[a],
           req[r].op = "chunk" /\ ok /\ tab[Asset(r)] = "waiting" =>
               part'[Asset(r)] = Upto(req[r].body)
    PROVE  Inv'
<1>1. Types'
  BY AnswerFacts DEF Inv, Types
<1>2. ActiveInv(r) /\ ChunkInv(r)
  BY DEF Inv, ReqInv
<1>3. \A q \in Reqs \ {r} : UploadKept(q)
  <2>. SUFFICES ASSUME NEW q \in Reqs \ {r}, req[q].op \in {"chunk", "finalize"}
                PROVE  UploadKept(q)
    BY DEF UploadKept
  <2>1. ActiveInv(q)
    BY DEF Inv, ReqInv
  <2>. PICK a \in AssetIds : a = Asset(q)
    BY <2>1 DEF ActiveInv, Asset
  <2>2. Uploading(q, a) /\ ~Uploading(r, a)
    BY <2>1 DEF ActiveInv, Uploading, Asset
  <2>3. \A p \in Reqs : Uploading(p, a)' => p = q
    BY <2>1, AnswerFacts DEF ActiveInv
  <2>4. tab'[a] = tab[a] /\ sent'[a] = sent[a] /\ part'[a] = part[a] /\ file'[a] = file[a]
    BY <2>2, AnswerFacts
  <2>5. req'[q] = req[q]
    BY AnswerFacts
  <2>. QED  BY <2>3, <2>4, <2>5 DEF UploadKept, Asset, Uploading
<1>4. \A a \in AssetIds : TabInv(a)'
  <2>. TAKE a \in AssetIds
  <2>0. TabInv(a)
    BY DEF Inv
  <2>1. CASE tab'[a] = tab[a] /\ sent'[a] = sent[a]
    <3>1. tab[a] \in {"unused", "chunk"} => part'[a] = part[a]
      BY <1>2 DEF ActiveInv, Uploading, Asset
    <3>. QED  BY <2>0, <2>1, <3>1 DEF TabInv
  <2>2. CASE ~(tab'[a] = tab[a] /\ sent'[a] = sent[a])
    <3>1. /\ Uploading(r, a) /\ tab[a] = "waiting"
          /\ IF ok THEN tab'[a] = req[r].op /\ sent'[a] = sent[a] + 1
                   ELSE tab'[a] = "failed"
      BY <2>2, AnswerFacts
    <3>2. CASE ok /\ req[r].op = "chunk"
      <4>1. a = Asset(r)
        BY <3>1 DEF Uploading, Asset
      <4>2. req[r].body \in 1 .. NChunks /\ sent[a] = req[r].body - 1
        BY <1>2, <3>1, <3>2, <4>1 DEF ChunkInv
      <4>3. sent'[a] = req[r].body /\ part'[a] = Upto(req[r].body) /\ tab'[a] = "chunk"
        BY <3>1, <3>2, <4>1, <4>2, BoundsFacts
      <4>. QED  BY <4>2, <4>3, BoundsFacts DEF TabInv
    <3>3. CASE ~(ok /\ req[r].op = "chunk")
      <4>1. tab'[a] \in {"finalize", "failed"}
        BY <3>1, <3>3 DEF Uploading
      <4>. QED  BY <4>1 DEF TabInv
    <3>. QED  BY <3>2, <3>3
  <2>. QED  BY <2>1, <2>2
<1>5. ReqInv(r)'
  BY AnswerFacts, IdleInv
<1>6. \A q \in Reqs \ {r} : req'[q] = req[q]
  BY AnswerFacts
<1>7. \A a \in AssetIds : TabKept(a)
  BY AnswerFacts
<1>. QED  BY <1>1, <1>3, <1>4, <1>5, <1>6, <1>7, HandlerStep

LEMMA AnswerOnly ==
    ASSUME Inv, NEW r \in Reqs, NEW ok \in BOOLEAN, Answer(r, ok),
           UNCHANGED <<kind, rows, part, file>>,
           req[r].op # "chunk" \/ ~ok
    PROVE  Inv'
<1>1. \A a \in AssetIds : TabKept(a)
  BY AnswerFacts
<1>2. \A a \in AssetIds : DataInv(a)'
  BY <1>1, DataKept DEF Inv
<1>3. \A a \in AssetIds : RowKept(a)
  BY DEF RowKept, Moved
<1>4. \A a \in AssetIds : tab[a] = "unused" => rows'[a] = NoRow
  BY DEF Inv, TabInv
<1>5. AgentFile'
  BY DEF Inv, AgentFile
<1>. QED  BY <1>2, <1>3, <1>4, <1>5, AnswerStep DEF Inv, Types

-----------------------------------------------------------------------------
(* Requests are sent. *)

LEMMA CreateStep ==
    ASSUME Inv, NEW a \in AssetIds, CreateAsset(a)
    PROVE  Inv'
<1>1. /\ tab[a] = "unused" /\ UNCHANGED <<kind, part, file, sent, req>>
      /\ rows' = [rows EXCEPT ![a] = NewRow]
      /\ tab' = [tab EXCEPT ![a] = "chunk"]
  BY DEF CreateAsset
<1>2. Types'
  BY <1>1, RowFacts DEF Inv, Types
<1>3. /\ rows'[a] = NewRow /\ tab'[a] = "chunk"
      /\ \A b \in AssetIds \ {a} : rows'[b] = rows[b] /\ tab'[b] = tab[b]
  BY <1>1 DEF Inv, Types
<1>4. \A b \in AssetIds : TabKept(b) /\ RowKept(b)
  BY <1>1, <1>3 DEF TabKept, RowKept, Done, Moved, Uploading
<1>5. \A q \in Reqs : UploadKept(q)
  <2>. TAKE q \in Reqs
  <2>1. ActiveInv(q)
    BY DEF Inv, ReqInv
  <2>. QED  BY <1>1, <1>3, <2>1 DEF UploadKept, ActiveInv, Asset, Uploading
<1>6. \A q \in Reqs : ReqInv(q)'
  BY <1>1, <1>4, <1>5, RequestKept
<1>7. \A b \in AssetIds : TabInv(b)' /\ DataInv(b)'
  <2>. TAKE b \in AssetIds
  <2>1. CASE b # a
    <3>1. TabInv(b) /\ DataInv(b)
      BY DEF Inv
    <3>2. TabInv(b)'
      BY <1>1, <1>3, <2>1, <3>1 DEF TabInv
    <3>3. DataInv(b)'
      BY <1>1, <1>3, <1>4, <2>1, <3>1, DataKept
    <3>. QED  BY <3>2, <3>3
  <2>2. CASE b = a
    <3>1. TabInv(a) /\ DataInv(a)
      BY DEF Inv
    <3>2. TabInv(a)'
      <4>1. Upto(0) = <<>> /\ 0 <= NChunks
        BY UptoFacts, BoundsFacts
      <4>. QED  BY <1>1, <1>3, <3>1, <4>1 DEF TabInv
    <3>3. DataInv(a)'
      BY <1>1, <1>3, <3>1, RowFacts, IdsFacts DEF DataInv
    <3>. QED  BY <2>2, <3>2, <3>3
  <2>. QED  BY <2>1, <2>2
<1>8. AgentFile'
  BY <1>1 DEF Inv, AgentFile
<1>. QED  BY <1>2, <1>6, <1>7, <1>8 DEF Inv

LEMMA SendUploadStep ==
    ASSUME Inv, NEW a \in AssetIds, NEW r \in Reqs, NEW op \in {"chunk", "finalize"},
           NEW body \in 0 .. NChunks,
           tab[a] = "chunk", req[r] = Idle,
           IF op = "chunk" THEN body = sent[a] + 1
                           ELSE body = 0 /\ sent[a] = NChunks,
           req' = [req EXCEPT ![r] = [Request(op, a) EXCEPT !.body = body]],
           tab' = [tab EXCEPT ![a] = "waiting"],
           UNCHANGED <<kind, rows, part, file, sent>>
    PROVE  Inv'
<1>. DEFINE new == [Request(op, a) EXCEPT !.body = body]
<1>1. /\ new \in Requests /\ new.op = op /\ new.asset = a /\ new.at = "load"
      /\ new.body = body /\ new.copy = NoRow
  <2>1. "load" \in Ats /\ Absent \in Contents /\ op \in Ops
    BY WholeFacts DEF Ats, Ops
  <2>. QED  BY <2>1 DEF Request, Requests
<1>2. req' = [req EXCEPT ![r] = new]
  OBVIOUS
<1>. HIDE DEF new
<1>3. Types'
  <2>1. Types
    BY DEF Inv
  <2>2. req' \in [Reqs -> Requests]
    BY <1>1, <1>2, <2>1 DEF Types
  <2>3. tab' \in [AssetIds ->
                 {"unused", "chunk", "waiting", "finalize", "failed", "seeded"}]
    BY <2>1 DEF Types
  <2>. QED  BY <2>1, <2>2, <2>3 DEF Types
<1>4. /\ req'[r] = new /\ \A q \in Reqs \ {r} : req'[q] = req[q]
      /\ tab'[a] = "waiting" /\ \A b \in AssetIds \ {a} : tab'[b] = tab[b]
  BY <1>2 DEF Inv, Types
<1>5. \A q \in Reqs : ~Uploading(q, a)
  BY DEF Inv, ReqInv, ActiveInv, Uploading, Asset
<1>6. \A q \in Reqs, b \in AssetIds :
         Uploading(q, b)' => Uploading(q, b) \/ (q = r /\ b = a)
  BY <1>1, <1>4 DEF Uploading
<1>7. \A b \in AssetIds : TabKept(b) /\ RowKept(b)
  BY <1>4, <1>6 DEF TabKept, RowKept, Done, Moved
<1>8. \A q \in Reqs \ {r} : UploadKept(q)
  <2>. TAKE q \in Reqs \ {r}
  <2>1. ActiveInv(q)
    BY DEF Inv, ReqInv
  <2>. QED  BY <1>4, <1>5, <1>6, <2>1 DEF UploadKept, ActiveInv, Asset, Uploading
<1>9. \A b \in AssetIds : TabInv(b)' /\ DataInv(b)'
  <2>. TAKE b \in AssetIds
  <2>1. TabInv(b)'
    BY <1>4 DEF Inv, TabInv
  <2>2. DataInv(b)'
    BY <1>7, DataKept DEF Inv
  <2>. QED  BY <2>1, <2>2
<1>10. ReqInv(r)'
  <2>1. TabInv(a)
    BY DEF Inv
  <2>2. ActiveInv(r)'
    BY <1>1, <1>4, <1>5, <1>6 DEF ActiveInv, Asset
  <2>3. ChunkInv(r)'
    <3>1. op = "chunk" => sent[a] = body - 1 /\ body \in 1 .. NChunks
      BY BoundsFacts DEF Inv, Types
    <3>. QED  BY <1>1, <1>4, <2>1, <3>1 DEF ChunkInv, TabInv, Asset
  <2>4. FinalizeInv(r)'
    BY <1>1, <1>4, <2>1, WholeFacts DEF FinalizeInv, TabInv, Asset
  <2>5. CopyInv(r)' /\ DeleteInv(r)' /\ DesignateInv(r)' /\ SeedInv(r)' /\ DownloadInv(r)'
    BY <1>1, <1>4 DEF CopyInv, DeleteInv, DesignateInv, SeedInv, DownloadInv
  <2>. QED  BY <2>2, <2>3, <2>4, <2>5 DEF ReqInv
<1>11. AgentFile'
  BY DEF Inv, AgentFile
<1>. QED  BY <1>3, <1>4, <1>7, <1>8, <1>9, <1>10, <1>11, HandlerStep

LEMMA SendStep ==
    ASSUME Inv, NEW r \in Reqs, NEW new \in Requests, req[r] = Idle,
           new.op \in {"delete", "designate", "undesignate", "seed", "download"},
           new.at = "load", new.copy = NoRow,
           IF new.op = "seed" THEN new.asset = "" ELSE new.asset \in AssetIds,
           new.op = "delete" => tab[new.asset] # "unused",
           req' = [req EXCEPT ![r] = new],
           UNCHANGED <<kind, rows, part, file, tab, sent>>
    PROVE  Inv'
<1>1. /\ req' \in [Reqs -> Requests]
      /\ req'[r] = new /\ \A q \in Reqs \ {r} : req'[q] = req[q]
  BY DEF Inv, Types
<1>2. \A a \in AssetIds : Uploading(r, a)' => Uploading(r, a)
  BY <1>1 DEF Uploading
<1>3. ReqInv(r)'
  BY <1>1 DEF ReqInv, ActiveInv, ChunkInv, FinalizeInv, CopyInv, DeleteInv, DesignateInv,
              SeedInv, DownloadInv, Asset
<1>4. AgentFile' /\ file' \in [AssetIds \cup {AgentPath} -> Contents]
  BY DEF Inv, Types, AgentFile
<1>. QED  BY <1>1, <1>2, <1>3, <1>4, MoveStep

LEMMA SendsStep ==
    ASSUME Inv, NEW a \in AssetIds, NEW r \in Reqs, Send(a, r)
    PROVE  Inv'
<1>1. CASE SendChunk(a, r)
  <2>1. sent[a] + 1 \in 0 .. NChunks
    BY <1>1, BoundsFacts DEF SendChunk, Inv, Types
  <2>. QED  BY <1>1, <2>1, SendUploadStep DEF SendChunk
<1>2. CASE SendFinalize(a, r)
  <2>1. Request("finalize", a) = [Request("finalize", a) EXCEPT !.body = 0]
    BY DEF Request
  <2>. QED  BY <1>2, <2>1, BoundsFacts, SendUploadStep DEF SendFinalize
<1>3. CASE \/ SendDelete(a, r) \/ GuestDownloads(a, r)
           \/ SendDesignation(a, r, "designate") \/ SendDesignation(a, r, "undesignate")
  <2>. PICK op \in {"delete", "download", "designate", "undesignate"} :
           /\ req[r] = Idle /\ req' = [req EXCEPT ![r] = Request(op, a)]
           /\ UNCHANGED <<kind, rows, part, file, tab, sent>>
           /\ op = "delete" => rows[a] # NoRow
    BY <1>3 DEF SendDelete, GuestDownloads, SendDesignation
  <2>1. /\ Request(op, a) \in Requests /\ Request(op, a).op = op
        /\ Request(op, a).asset = a /\ Request(op, a).at = "load"
        /\ Request(op, a).copy = NoRow
    <3>1. op \in Ops /\ a \in AssetIds \cup {""}
      BY DEF Ops
    <3>2. Request(op, a) \in Requests
      BY <3>1, RequestFacts
    <3>3. /\ Request(op, a).op = op /\ Request(op, a).asset = a
          /\ Request(op, a).at = "load" /\ Request(op, a).copy = NoRow
      BY DEF Request
    <3>. QED  BY <3>2, <3>3
  <2>2. op = "delete" => tab[a] # "unused"
    BY DEF Inv, TabInv
  <2>. QED  BY <2>1, <2>2, SendStep
<1>. QED  BY <1>1, <1>2, <1>3 DEF Send

LEMMA RefreshStep ==
    ASSUME Inv, NEW r \in Reqs, RefreshRemoteAgentAsset(r)
    PROVE  Inv'
<1>1. /\ SeedRequest(TRUE) \in Requests /\ SeedRequest(TRUE).op = "seed"
      /\ SeedRequest(TRUE).asset = "" /\ SeedRequest(TRUE).at = "load"
      /\ SeedRequest(TRUE).copy = NoRow
  <2>1. "load" \in Ats /\ Absent \in Contents /\ "seed" \in Ops /\ 1 \in 0 .. NChunks
    BY WholeFacts, BoundsFacts DEF Ats, Ops
  <2>. QED  BY <2>1 DEF SeedRequest, Request, Requests
<1>. QED  BY <1>1, SendStep DEF RefreshRemoteAgentAsset

-----------------------------------------------------------------------------
(* Handlers of uploads. *)

LEMMA NotFoundStep ==
    ASSUME Inv, NEW r \in Reqs, NEW op, NotFound(r, op)
    PROVE  Inv'
BY AnswerOnly DEF NotFound

LEMMA ProceedFacts ==
    ASSUME Inv, NEW r \in Reqs, NEW at \in Ats, NEW new \in Rows \cup {NoRow},
           Asset(r) \in AssetIds, Proceed(r, at, new)
    PROVE  /\ req' \in [Reqs -> Requests] /\ \A q \in Reqs \ {r} : req'[q] = req[q]
           /\ req'[r] = [req[r] EXCEPT !.at = at, !.copy = rows[Asset(r)], !.new = new]
           /\ req'[r].op = req[r].op /\ req'[r].asset = req[r].asset
           /\ req'[r].at = at /\ req'[r].copy = rows[Asset(r)] /\ req'[r].new = new
           /\ req'[r].body = req[r].body /\ req'[r].seen = req[r].seen
           /\ \A q \in Reqs, a \in AssetIds : Uploading(q, a)' <=> Uploading(q, a)
           /\ UNCHANGED <<tab, sent>> /\ \A a \in AssetIds : TabKept(a)
           /\ UNCHANGED rows => CopyInv(r)'
<1>. DEFINE x == [req[r] EXCEPT !.at = at, !.copy = rows[Asset(r)], !.new = new]
<1>1. /\ x \in Requests /\ x.op = req[r].op /\ x.asset = req[r].asset
      /\ x.at = at /\ x.copy = rows[Asset(r)] /\ x.new = new
      /\ x.body = req[r].body /\ x.seen = req[r].seen
  <2>1. req[r] \in Requests /\ rows[Asset(r)] \in Rows \cup {NoRow}
    BY DEF Inv, Types
  <2>. QED  BY <2>1 DEF Requests
<1>2. req' = [req EXCEPT ![r] = x] /\ UNCHANGED <<tab, sent>>
  BY DEF Proceed
<1>. HIDE DEF x
<1>3. req' \in [Reqs -> Requests] /\ req'[r] = x /\ \A q \in Reqs \ {r} : req'[q] = req[q]
  BY <1>1, <1>2 DEF Inv, Types
<1>4. \A q \in Reqs, a \in AssetIds : Uploading(q, a)' <=> Uploading(q, a)
  BY <1>1, <1>3 DEF Uploading
<1>5. \A a \in AssetIds : TabKept(a)
  BY <1>2, <1>4 DEF TabKept, Done
<1>6. UNCHANGED rows => CopyInv(r)'
  BY <1>1, <1>2, <1>3, <1>5, CopyLoaded DEF Asset
<1>. QED  BY <1>1, <1>2, <1>3, <1>4, <1>5, <1>6 DEF x

LEMMA ProceedRequest ==
    ASSUME Inv, NEW r \in Reqs, NEW at, NEW new, Proceed(r, at, new)
    PROVE  /\ req'[r].op = req[r].op /\ req'[r].asset = req[r].asset
           /\ req'[r].at = at /\ req'[r].copy = rows[Asset(r)] /\ req'[r].new = new
<1>. DEFINE x == [req[r] EXCEPT !.at = at, !.copy = rows[Asset(r)], !.new = new]
<1>1. /\ x.op = req[r].op /\ x.asset = req[r].asset
      /\ x.at = at /\ x.copy = rows[Asset(r)] /\ x.new = new
  <2>1. req[r] \in Requests
    BY DEF Inv, Types
  <2>. QED  BY <2>1 DEF Requests
<1>2. req' = [req EXCEPT ![r] = x]
  BY DEF Proceed
<1>. HIDE DEF x
<1>3. req'[r] = x
  BY <1>2 DEF Inv, Types
<1>. QED  BY <1>1, <1>3

LEMMA LoadForChunkStep ==
    ASSUME Inv, NEW r \in Reqs, LoadForChunk(r)
    PROVE  Inv'
<1>1. ActiveInv(r) /\ ChunkInv(r)
  BY DEF Inv, ReqInv
<1>2. req[r].op = "chunk" /\ req[r].at = "load" /\ Asset(r) \in AssetIds
  BY <1>1 DEF LoadForChunk, At, ActiveInv, Asset
<1>3. "body" \in Ats /\ rows[Asset(r)] \in Rows /\ rows[Asset(r)] # NoRow
  BY <1>2 DEF LoadForChunk, Inv, Types, Ats
<1>4. /\ Proceed(r, "body", rows[Asset(r)])
      /\ UNCHANGED <<kind, rows, part, file>>
  BY DEF LoadForChunk
<1>. USE <1>2, <1>3, <1>4, ProceedFacts
<1>5. req'[r].op = "chunk" /\ req'[r].asset = req[r].asset /\ req'[r].at = "body"
      /\ req'[r].copy = rows[Asset(r)] /\ req'[r].body = req[r].body
  OBVIOUS
<1>6. CopyInv(r)' /\ tab' = tab /\ sent' = sent
  OBVIOUS
<1>7. \A q \in Reqs, a \in AssetIds : Uploading(q, a)' <=> Uploading(q, a)
  OBVIOUS
<1>8. req' \in [Reqs -> Requests] /\ \A q \in Reqs \ {r} : req'[q] = req[q]
  OBVIOUS
<1>. HIDE ProceedFacts
<1>9. ReqInv(r)'
  <2>1. ActiveInv(r)'
    BY <1>1, <1>5, <1>6, <1>7 DEF ActiveInv, Asset
  <2>2. ChunkInv(r)'
    BY <1>1, <1>5, <1>6 DEF ChunkInv, Asset
  <2>. QED  BY <1>5, <1>6, <2>1, <2>2
            DEF ReqInv, FinalizeInv, DeleteInv, DesignateInv, SeedInv, DownloadInv
<1>10. AgentFile' /\ file' \in [AssetIds \cup {AgentPath} -> Contents]
  BY DEF Inv, Types, AgentFile
<1>. QED  BY <1>6, <1>7, <1>8, <1>9, <1>10, MoveStep

LEMMA ReceiveStep ==
    ASSUME Inv, NEW r \in Reqs, ReceiveChunk(r)
    PROVE  Inv'
<1>1. ActiveInv(r) /\ ChunkInv(r) /\ CopyInv(r)
  BY DEF Inv, ReqInv
<1>. PICK a \in AssetIds : a = Asset(r)
  BY <1>1 DEF ReceiveChunk, At, ActiveInv, Asset
<1>2. /\ req[r].op = "chunk" /\ req[r].at = "body" /\ req[r].body \in 1 .. NChunks
      /\ Uploading(r, a) /\ UNCHANGED <<kind, rows, file>>
  BY <1>1 DEF ReceiveChunk, At, ChunkInv, Uploading, Asset
<1>3. part' = [part EXCEPT ![a] = Append(part[a], req[r].body)]
  BY DEF ReceiveChunk, AppendChunk
<1>4. part' \in [AssetIds -> Seq(1 .. NChunks)]
  <2>1. Append(part[a], req[r].body) \in Seq(1 .. NChunks)
    BY <1>2 DEF Inv, Types
  <2>. QED  BY <1>3, <2>1 DEF Inv, Types
<1>5. \A b \in AssetIds \ {a} : part'[b] = part[b]
  BY <1>3 DEF Inv, Types
<1>6. tab[a] = "waiting" => part'[a] = Upto(req[r].body)
  <2>. SUFFICES ASSUME tab[a] = "waiting"  PROVE part'[a] = Upto(req[r].body)
    OBVIOUS
  <2>1. part[a] = Upto(req[r].body - 1)
    BY <1>1, <1>2 DEF ChunkInv
  <2>2. part'[a] = Append(part[a], req[r].body)
    BY <1>3 DEF Inv, Types
  <2>3. req[r].body - 1 \in Nat /\ (req[r].body - 1) + 1 = req[r].body
    BY <1>2, BoundsFacts
  <2>. QED  BY <2>1, <2>2, <2>3, UptoFacts
<1>7. \A b \in AssetIds : RowKept(b)
  BY <1>2 DEF RowKept, Moved
<1>8. AgentFile' /\ \A b \in AssetIds : tab[b] = "unused" => rows'[b] = NoRow
  BY <1>2 DEF Inv, AgentFile, TabInv
<1>9. CASE Answer(r, TRUE)
  <2>1. \A b \in AssetIds : DataInv(b)'
    BY <1>2, <1>9, AnswerFacts, DataKept DEF Inv
  <2>2. \A b \in AssetIds : part'[b] = part[b] \/ Uploading(r, b)
    BY <1>2, <1>5
  <2>. QED  BY <1>2, <1>4, <1>6, <1>7, <1>8, <1>9, <2>1, <2>2, AnswerStep DEF Inv, Types
<1>10. CASE ~Answer(r, TRUE)
  <2>. DEFINE new == [req[r].copy EXCEPT !.status = "uploading"]
              x == [req[r] EXCEPT !.at = "commit", !.new = new]
  <2>1. req[r].copy # NoRow /\ req' = [req EXCEPT ![r] = x] /\ UNCHANGED <<tab, sent>>
    BY <1>1, <1>2, <1>10 DEF ReceiveChunk, ChunkInv
  <2>2. req[r] \in Requests /\ req[r].copy \in Rows /\ "commit" \in Ats
    BY <2>1 DEF Inv, Types, Requests, Ats
  <2>3. new \in Rows
    BY <2>2 DEF Rows
  <2>4. /\ x \in Requests /\ x.op = "chunk" /\ x.asset = req[r].asset /\ x.at = "commit"
        /\ x.body = req[r].body /\ x.copy = req[r].copy
        /\ x.new = [x.copy EXCEPT !.status = "uploading"]
    BY <1>2, <2>2, <2>3 DEF Requests
  <2>. HIDE DEF new, x
  <2>5. req' \in [Reqs -> Requests] /\ req'[r] = x /\ \A q \in Reqs \ {r} : req'[q] = req[q]
    BY <2>1, <2>4 DEF Inv, Types
  <2>6. \A q \in Reqs, b \in AssetIds : Uploading(q, b)' <=> Uploading(q, b)
    BY <1>2, <2>4, <2>5 DEF Uploading
  <2>7. \A b \in AssetIds : TabKept(b)
    BY <2>1, <2>6 DEF TabKept, Done
  <2>8. \A q \in Reqs \ {r} : UploadKept(q)
    <3>. TAKE q \in Reqs \ {r}
    <3>1. ActiveInv(q)
      BY DEF Inv, ReqInv
    <3>2. req[q].op \in {"chunk", "finalize"} => Asset(q) # a
      BY <1>1, <1>2 DEF ActiveInv, Uploading, Asset
    <3>. QED  BY <1>2, <1>5, <2>1, <2>6, <3>1, <3>2 DEF UploadKept, ActiveInv, Asset
  <2>9. \A b \in AssetIds : TabInv(b)' /\ DataInv(b)'
    <3>. TAKE b \in AssetIds
    <3>1. tab[a] \notin {"unused", "chunk"}
      BY <1>1, <1>2 DEF ActiveInv
    <3>2. TabInv(b)'
      BY <1>2, <1>5, <2>1, <3>1 DEF Inv, TabInv
    <3>3. DataInv(b)'
      BY <1>2, <2>7, DataKept DEF Inv
    <3>. QED  BY <3>2, <3>3
  <2>10. ReqInv(r)'
    <3>1. ActiveInv(r)'
      BY <1>1, <1>2, <2>1, <2>4, <2>5, <2>6 DEF ActiveInv, Asset
    <3>2. ChunkInv(r)'
      BY <1>1, <1>2, <1>6, <2>1, <2>4, <2>5 DEF ChunkInv, Asset
    <3>3. CopyInv(r)'
      BY <1>7, <2>4, <2>5, <2>7, CopySame
    <3>. QED  BY <2>4, <2>5, <3>1, <3>2, <3>3
              DEF ReqInv, FinalizeInv, DeleteInv, DesignateInv, SeedInv, DownloadInv
  <2>11. Types'
    BY <1>2, <1>4, <2>1, <2>5 DEF Inv, Types
  <2>. QED  BY <1>7, <1>8, <2>5, <2>7, <2>8, <2>9, <2>10, <2>11, HandlerStep
<1>. QED  BY <1>9, <1>10

LEMMA FinalizeStep ==
    ASSUME Inv, NEW r \in Reqs, Finalize(r)
    PROVE  Inv'
<1>1. ActiveInv(r) /\ FinalizeInv(r)
  BY DEF Inv, ReqInv
<1>. PICK a \in AssetIds : a = Asset(r)
  BY <1>1 DEF Finalize, At, ActiveInv, Asset
<1>2. /\ req[r].op = "finalize" /\ req[r].at = "load" /\ part[a] = Whole
      /\ Uploading(r, a) /\ rows[a] # NoRow /\ UNCHANGED <<kind, rows>>
  BY <1>1 DEF Finalize, At, FinalizeInv, Uploading, Asset
<1>3. PICK patched \in Remastered(a) :
         LET moved == [chunks |-> part[a], patched |-> patched]
         IN  /\ file' = [file EXCEPT ![a] = moved]
             /\ part' = [part EXCEPT ![a] = <<>>]
             /\ Proceed(r, "commit", [rows[a] EXCEPT !.path = a, !.sum = moved,
                                                     !.status = "complete"])
  BY <1>2, WholeFacts DEF Finalize, Checksum
<1>. DEFINE moved == [chunks |-> Whole, patched |-> patched]
            new == [rows[a] EXCEPT !.path = a, !.sum = moved, !.status = "complete"]
<1>4. moved \in Contents /\ moved.chunks = Whole
  BY WholeFacts DEF Contents, Remastered
<1>5. rows[a] \in Rows /\ DataInv(a) /\ Fresh(rows[a])
  BY <1>2 DEF Inv, Types, DataInv, Done
<1>6. new \in Rows
  BY <1>4, <1>5 DEF Rows
<1>7. /\ file' = [file EXCEPT ![a] = moved] /\ part' = [part EXCEPT ![a] = <<>>]
      /\ Proceed(r, "commit", new)
  BY <1>2, <1>3
<1>. HIDE DEF moved
<1>8. /\ file' \in [AssetIds \cup {AgentPath} -> Contents] /\ file'[a] = moved
      /\ part' \in [AssetIds -> Seq(1 .. NChunks)]
      /\ \A b \in AssetIds \ {a} : file'[b] = file[b] /\ part'[b] = part[b]
      /\ file'[AgentPath] = file[AgentPath]
  <2>1. <<>> \in Seq(1 .. NChunks)
    OBVIOUS
  <2>. QED  BY <1>4, <1>7, <2>1, IdsFacts DEF Inv, Types
<1>. HIDE DEF new
<1>9. /\ req' \in [Reqs -> Requests] /\ \A q \in Reqs \ {r} : req'[q] = req[q]
      /\ req'[r].op = "finalize" /\ req'[r].asset = a /\ req'[r].at = "commit"
      /\ req'[r].copy = rows[a] /\ req'[r].new = new
      /\ \A q \in Reqs, b \in AssetIds : Uploading(q, b)' <=> Uploading(q, b)
      /\ tab' = tab /\ sent' = sent /\ \A b \in AssetIds : TabKept(b)
      /\ CopyInv(r)'
  <2>1. "commit" \in Ats
    BY DEF Ats
  <2>2. a = req[r].asset
    BY DEF Asset
  <2>3. new \in Rows \cup {NoRow} /\ Asset(r) \in AssetIds
    BY <1>6
  <2>4. /\ req' \in [Reqs -> Requests] /\ \A q \in Reqs \ {r} : req'[q] = req[q]
        /\ \A q \in Reqs, b \in AssetIds : Uploading(q, b)' <=> Uploading(q, b)
        /\ tab' = tab /\ sent' = sent /\ \A b \in AssetIds : TabKept(b)
    BY <1>7, <2>1, <2>3, ProceedFacts
  <2>5. /\ req'[r].op = "finalize" /\ req'[r].asset = a /\ req'[r].at = "commit"
        /\ req'[r].copy = rows[a] /\ req'[r].new = new
    <3>1. /\ req'[r].op = req[r].op /\ req'[r].asset = req[r].asset
          /\ req'[r].at = "commit" /\ req'[r].copy = rows[Asset(r)] /\ req'[r].new = new
      BY <1>7, ProceedRequest
    <3>. QED  BY <1>2, <2>2, <3>1
  <2>6. CopyInv(r)'
    BY <1>2, <1>7, <2>1, <2>3, ProceedFacts
  <2>. QED  BY <2>4, <2>5, <2>6
<1>10. \A b \in AssetIds : RowKept(b)
  BY <1>2 DEF RowKept, Moved
<1>11. \A q \in Reqs \ {r} : UploadKept(q)
  <2>. TAKE q \in Reqs \ {r}
  <2>1. ActiveInv(q)
    BY DEF Inv, ReqInv
  <2>2. req[q].op \in {"chunk", "finalize"} => Asset(q) # a
    BY <1>1, <1>2 DEF ActiveInv, Uploading, Asset
  <2>. QED  BY <1>8, <1>9, <2>1, <2>2 DEF UploadKept, ActiveInv, Asset
<1>12. \A b \in AssetIds : TabInv(b)' /\ DataInv(b)'
  <2>. TAKE b \in AssetIds
  <2>1. tab[a] \notin {"unused", "chunk"}
    BY <1>1, <1>2 DEF ActiveInv
  <2>2. TabInv(b)'
    BY <1>2, <1>8, <1>9, <2>1 DEF Inv, TabInv
  <2>3. CASE b # a
    <3>1. DataInv(b)'
      BY <1>2, <1>8, <1>9, <2>3, DataKept DEF Inv
    <3>. QED  BY <2>2, <3>1
  <2>4. CASE b = a
    <3>1. rows'[a].path # a
      BY <1>2, <1>5, IdsFacts DEF Fresh
    <3>2. DataInv(a)'
      BY <1>2, <1>4, <1>5, <1>8, <3>1 DEF DataInv, Fresh
    <3>. QED  BY <2>2, <2>4, <3>2
  <2>. QED  BY <2>3, <2>4
<1>13. ReqInv(r)'
  <2>1. ActiveInv(r)'
    BY <1>1, <1>2, <1>9 DEF ActiveInv, Asset
  <2>2. FinalizeInv(r)'
    <3>1. req'[r].new = [req'[r].copy EXCEPT !.path = a, !.sum = file'[a],
                                             !.status = "complete"]
      BY <1>8, <1>9 DEF new
    <3>2. Asset(r)' = a
      BY <1>9 DEF Asset
    <3>3. file'[a].chunks = Whole /\ req'[r].copy # NoRow
      BY <1>2, <1>4, <1>8, <1>9
    <3>4. tab'[a] = "waiting" => sent'[a] = NChunks
      BY <1>1, <1>2, <1>9 DEF FinalizeInv
    <3>. QED  BY <1>9, <3>1, <3>2, <3>3, <3>4 DEF FinalizeInv
  <2>. QED  BY <1>9, <2>1, <2>2
            DEF ReqInv, ChunkInv, DeleteInv, DesignateInv, SeedInv, DownloadInv
<1>14. Types' /\ AgentFile'
  BY <1>2, <1>8, <1>9 DEF Inv, Types, AgentFile
<1>. QED  BY <1>9, <1>10, <1>11, <1>12, <1>13, <1>14, HandlerStep

(* What a commit may make of the row of an asset. *)
Written(a, f) ==
    /\ f.path \in {"", a, AgentPath} /\ (Fresh(f) \/ Done(a)')
    /\ f.path = a => file[a].chunks = Whole /\ f.sum = file[a]
    /\ rows[a].path = AgentPath => f.path = AgentPath

(* A commit of one row, with the designations of others cleared. *)
LEMMA CommitStep ==
    ASSUME Inv, NEW r \in Reqs, NEW a \in AssetIds, a = Asset(r),
           NEW cleared \in SUBSET AssetIds, Commit(r, cleared),
           UNCHANGED <<kind, part, file>>,
           req[r].op # "none", req[r].copy # NoRow, req[r].new # NoRow,
           req[r].op = "chunk" => req[r].at = "commit",
           ASSUME NEW cur \in Rows, rows[a] # NoRow,
                  cur.path = rows[a].path, cur.sum = rows[a].sum,
                  cur.status = rows[a].status, cur.agent => rows[a].agent,
                  Uploading(r, a) => Done(a)' \/ req[r].op = "chunk",
                  TabKept(a)
           PROVE  Written(a, Flush(cur, req[r].copy, req[r].new))
    PROVE  Inv'
<1>1. req[r].copy \in Rows /\ req[r].new \in Rows
  BY DEF Inv, Types, Requests
<1>2. AgentFile' /\ Types
  BY DEF Inv, AgentFile
<1>3. req[r].op = "chunk" /\ tab[a] = "waiting" => part'[a] = Upto(req[r].body)
  BY DEF Inv, ReqInv, ChunkInv
<1>4. \A b \in AssetIds : tab[b] = "unused" => rows[b] = NoRow
  BY DEF Inv, TabInv
<1>5. CASE UNCHANGED rows /\ Answer(r, FALSE)
  <2>1. \A b \in AssetIds : DataInv(b)'
    BY <1>5, AnswerFacts, DataKept DEF Inv
  <2>2. \A b \in AssetIds : RowKept(b)
    BY <1>5 DEF RowKept, Moved
  <2>. QED  BY <1>2, <1>4, <1>5, <2>1, <2>2, AnswerStep DEF Types
<1>6. CASE rows[a] # NoRow /\ Answer(r, TRUE)
           /\ rows' = [b \in AssetIds |->
                 LET cur == IF b \in cleared /\ rows[b] # NoRow
                            THEN [rows[b] EXCEPT !.agent = FALSE] ELSE rows[b]
                 IN  IF b = a THEN Flush(cur, req[r].copy, req[r].new) ELSE cur]
  <2>. DEFINE Cur(b) == IF b \in cleared /\ rows[b] # NoRow
                        THEN [rows[b] EXCEPT !.agent = FALSE] ELSE rows[b]
  <2>1. \A b \in AssetIds :
           IF rows[b] = NoRow THEN Cur(b) = NoRow
           ELSE /\ Cur(b) \in Rows /\ Cur(b).path = rows[b].path /\ Cur(b).sum = rows[b].sum
                /\ Cur(b).status = rows[b].status /\ (Cur(b).agent => rows[b].agent)
    <3>1. \A row \in Rows :
             LET cur == [row EXCEPT !.agent = FALSE]
             IN  /\ cur \in Rows /\ cur.path = row.path /\ cur.sum = row.sum
                 /\ cur.status = row.status /\ ~cur.agent
      BY DEF Rows
    <3>2. \A b \in AssetIds : rows[b] \in Rows \/ rows[b] = NoRow
      BY <1>2 DEF Types
    <3>. QED  BY <3>1, <3>2
  <2>2. rows' = [b \in AssetIds |->
                    IF b = a THEN Flush(Cur(b), req[r].copy, req[r].new) ELSE Cur(b)]
    BY <1>6
  <2>. HIDE DEF Cur
  <2>3. Flush(Cur(a), req[r].copy, req[r].new) \in Rows /\ Cur(a) \in Rows
    BY <1>1, <1>6, <2>1, FlushFacts
  <2>4. rows' \in [AssetIds -> Rows \cup {NoRow}]
    BY <1>2, <2>1, <2>2, <2>3
  <2>5. \A b \in AssetIds : TabKept(b) /\ (Uploading(r, b) => Done(b)' \/ req[r].op = "chunk")
    BY <1>6, AnswerFacts
  <2>6. rows'[a] \in Rows /\ Written(a, rows'[a])
    <3>1. Written(a, Flush(Cur(a), req[r].copy, req[r].new))
      BY <1>6, <2>1, <2>3, <2>5
    <3>. QED  BY <2>2, <2>3, <3>1
  <2>7. \A b \in AssetIds \ {a} : rows'[b] = Cur(b)
    BY <2>2
  <2>8. \A b \in AssetIds : DataInv(b)'
    <3>. TAKE b \in AssetIds
    <3>1. DataInv(b)
      BY DEF Inv
    <3>2. CASE b = a
      BY <1>2, <2>6, <3>1, <3>2 DEF DataInv, Written
    <3>3. CASE b # a
      <4>1. rows'[b] = Cur(b)
        BY <2>7, <3>3
      <4>2. CASE rows[b] = NoRow
        BY <2>1, <3>1, <4>1, <4>2 DEF DataInv
      <4>3. CASE rows[b] # NoRow
        <5>1. Fresh(rows[b]) => Fresh(Cur(b))
          BY <2>1, <4>3 DEF Fresh
        <5>. QED  BY <2>1, <2>5, <3>1, <4>1, <4>3, <5>1 DEF DataInv, TabKept
      <4>. QED  BY <4>2, <4>3
    <3>. QED  BY <3>2, <3>3
  <2>9. \A b \in AssetIds : RowKept(b)
    <3>. TAKE b \in AssetIds
    <3>1. CASE b = a
      BY <1>6, <2>6, <3>1 DEF RowKept, Moved, Written
    <3>2. CASE b # a
      BY <2>1, <2>7, <3>2 DEF RowKept, Moved
    <3>. QED  BY <3>1, <3>2
  <2>10. \A b \in AssetIds : tab[b] = "unused" => rows'[b] = NoRow
    BY <1>4, <1>6, <2>1, <2>7
  <2>. QED  BY <1>2, <1>3, <1>6, <2>4, <2>8, <2>9, <2>10, AnswerStep DEF Types
<1>. QED  BY <1>5, <1>6 DEF Commit

LEMMA CommitUploadStep ==
    ASSUME Inv, NEW r \in Reqs, CommitUpload(r)
    PROVE  Inv'
<1>1. ActiveInv(r) /\ ChunkInv(r) /\ FinalizeInv(r) /\ CopyInv(r)
  BY DEF Inv, ReqInv
<1>2. req[r].op \in {"chunk", "finalize"} /\ req[r].at = "commit"
      /\ Commit(r, {}) /\ UNCHANGED <<kind, part, file>>
  BY DEF CommitUpload, At
<1>. PICK a \in AssetIds : a = Asset(r)
  BY <1>1, <1>2 DEF ActiveInv, Asset
<1>3. Uploading(r, a) /\ ~Done(a) /\ DataInv(a)
  BY <1>2 DEF Uploading, Done, Asset, Inv
<1>4. req[r].copy # NoRow /\ Fresh(req[r].copy)
  BY <1>1, <1>2, <1>3 DEF ChunkInv, FinalizeInv, CopyInv
<1>5. req[r].copy \in Rows
  BY <1>4 DEF Inv, Types, Requests
<1>6. ASSUME req[r].op = "chunk"  PROVE Inv'
  <2>. DEFINE new == [req[r].copy EXCEPT !.status = "uploading"]
  <2>1. req[r].new = new
    BY <1>1, <1>2, <1>6 DEF ChunkInv
  <2>2. /\ new \in Rows /\ new.path = req[r].copy.path /\ new.sum = req[r].copy.sum
        /\ new.agent = req[r].copy.agent /\ new.status = "uploading"
    BY <1>5 DEF Rows
  <2>. HIDE DEF new
  <2>3. ASSUME NEW cur \in Rows, rows[a] # NoRow,
               cur.path = rows[a].path, cur.sum = rows[a].sum,
               cur.status = rows[a].status, cur.agent => rows[a].agent
        PROVE  Written(a, Flush(cur, req[r].copy, req[r].new))
    <3>. DEFINE f == Flush(cur, req[r].copy, new)
    <3>1. Fresh(rows[a])
      BY <1>3, <2>3 DEF DataInv
    <3>2. f.path = cur.path /\ f.sum = cur.sum /\ f.agent = cur.agent
          /\ f.status \in {"uploading", cur.status} /\ f \in Rows
      BY <1>5, <2>2, FlushFacts
    <3>. HIDE DEF f
    <3>3. Fresh(f) /\ f.path = ""
      BY <2>3, <3>1, <3>2 DEF Fresh, Rows
    <3>. QED  BY <2>1, <3>1, <3>3, IdsFacts DEF f, Written, Fresh
  <2>4. req[r].new # NoRow
    BY <2>1, <2>2, RowFacts
  <2>. QED  BY <1>2, <1>4, <1>6, <2>3, <2>4, CommitStep
<1>7. ASSUME req[r].op = "finalize"  PROVE Inv'
  <2>. DEFINE new == [req[r].copy EXCEPT !.path = a, !.sum = file[a], !.status = "complete"]
  <2>1. req[r].new = new /\ file[a].chunks = Whole
    BY <1>1, <1>2, <1>7 DEF FinalizeInv
  <2>2. new \in Rows /\ new.path = a /\ new.sum = file[a]
    BY <1>5 DEF Rows, Inv, Types
  <2>. HIDE DEF new
  <2>3. ASSUME NEW cur \in Rows, rows[a] # NoRow, Uploading(r, a) => Done(a)'
        PROVE  Written(a, Flush(cur, req[r].copy, req[r].new))
    <3>. DEFINE f == Flush(cur, req[r].copy, new)
    <3>1. req[r].copy.path # a /\ req[r].copy.sum # file[a] /\ rows[a].path # AgentPath
      BY <1>3, <1>4, <2>1, <2>3, IdsFacts, WholeFacts DEF Fresh, DataInv
    <3>2. f.path = a /\ f.sum = file[a]
      BY <1>5, <2>2, <3>1, FlushFacts
    <3>. HIDE DEF f
    <3>. QED  BY <1>3, <2>1, <2>3, <3>1, <3>2, IdsFacts DEF f, Written
  <2>4. req[r].new # NoRow
    BY <2>1, <2>2, RowFacts
  <2>. QED  BY <1>2, <1>4, <1>7, <2>3, <2>4, CommitStep
<1>. QED  BY <1>2, <1>6, <1>7

LEMMA AbandonStep ==
    ASSUME Inv, NEW a \in AssetIds, AbandonUpload(a)
    PROVE  Inv'
<1>1. /\ tab[a] \in {"chunk", "waiting"} /\ UNCHANGED <<kind, rows, part, file, req>>
      /\ tab' = [tab EXCEPT ![a] = "failed"] /\ sent' = [sent EXCEPT ![a] = 0]
  BY DEF AbandonUpload
<1>2. 0 \in 0 .. NChunks + 1
  BY BoundsFacts
<1>3. /\ Types' /\ tab'[a] = "failed"
      /\ \A b \in AssetIds \ {a} : tab'[b] = tab[b] /\ sent'[b] = sent[b]
  BY <1>1, <1>2 DEF Inv, Types
<1>4. \A b \in AssetIds : TabKept(b) /\ RowKept(b)
  BY <1>1, <1>3 DEF TabKept, RowKept, Done, Moved, Uploading
<1>5. \A q \in Reqs : UploadKept(q)
  <2>. TAKE q \in Reqs
  <2>1. ActiveInv(q)
    BY DEF Inv, ReqInv
  <2>. QED  BY <1>1, <1>3, <2>1 DEF UploadKept, ActiveInv, Asset, Uploading
<1>6. \A q \in Reqs : ReqInv(q)'
  BY <1>1, <1>4, <1>5, RequestKept
<1>7. \A b \in AssetIds : TabInv(b)' /\ DataInv(b)'
  <2>. TAKE b \in AssetIds
  <2>1. TabInv(b)'
    BY <1>1, <1>3 DEF Inv, TabInv
  <2>2. DataInv(b)'
    BY <1>1, <1>4, DataKept DEF Inv
  <2>. QED  BY <2>1, <2>2
<1>8. AgentFile'
  BY <1>1 DEF Inv, AgentFile
<1>. QED  BY <1>3, <1>6, <1>7, <1>8 DEF Inv

LEMMA UploadStep ==
    ASSUME Inv, NEW r \in Reqs, Upload(r)
    PROVE  Inv'
BY LoadForChunkStep, CommitUploadStep, ReceiveStep, FinalizeStep
   DEF Upload, UploadIsoChunk, UploadGlobalIsoChunk, UploadAppAssetChunk,
       UploadGlobalAppAssetChunk, FinalizeIsoUpload, FinalizeGlobalIsoUpload,
       FinalizeAppAssetUpload, FinalizeGlobalAppAssetUpload

-----------------------------------------------------------------------------
(* Handlers of deletions. *)

(* A row that no longer names its asset's file loses that file. *)
LEMMA UnlinksStep ==
    ASSUME Inv, NEW r \in Reqs, Answer(r, TRUE), req[r].op # "chunk",
           NEW a \in AssetIds, NEW path \in {"", a, AgentPath},
           path = a => Moved(a) /\ Done(a),
           file' = file \/ (path # "" /\ file' = [file EXCEPT ![path] = Absent]),
           UNCHANGED <<kind, rows, part>>
    PROVE  Inv'
<1>1. /\ file' \in [AssetIds \cup {AgentPath} -> Contents]
      /\ \A p \in AssetIds \cup {AgentPath} :
            file'[p] = file[p] \/ (p = path /\ file'[p] = Absent)
  <2>1. file \in [AssetIds \cup {AgentPath} -> Contents] /\ Absent \in Contents
    BY WholeFacts DEF Inv, Types
  <2>. QED  BY <2>1
<1>2. AgentFile'
  BY <1>1 DEF Inv, AgentFile
<1>3. \A b \in AssetIds : TabKept(b)
  BY AnswerFacts
<1>4. \A b \in AssetIds : DataInv(b)'
  <2>. TAKE b \in AssetIds
  <2>1. DataInv(b)
    BY DEF Inv
  <2>2. CASE file'[b] = file[b]
    BY <1>3, <2>1, <2>2, DataKept
  <2>3. CASE file'[b] # file[b]
    <3>1. b = a /\ path = a /\ file'[a] = Absent
      BY <1>1, <2>3, IdsFacts
    <3>. QED  BY <1>3, <2>1, <3>1, IdsFacts DEF DataInv, Moved, TabKept
  <2>. QED  BY <2>2, <2>3
<1>5. \A q \in Reqs \ {r}, b \in AssetIds : Uploading(q, b) => file'[b] = file[b]
  BY <1>1, IdsFacts DEF Done
<1>6. \A b \in AssetIds : RowKept(b) /\ (tab[b] = "unused" => rows'[b] = NoRow)
  BY DEF RowKept, Moved, Inv, TabInv
<1>. QED  BY <1>1, <1>2, <1>4, <1>5, <1>6, AnswerStep DEF Inv, Types

LEMMA DeleteStep ==
    ASSUME Inv, NEW r \in Reqs, Delete(r)
    PROVE  Inv'
<1>1. DeleteInv(r) /\ CopyInv(r)
  BY DEF Inv, ReqInv
<1>. PICK a : a \in AssetIds /\ a = Asset(r) /\ req[r].op = "delete"
  BY <1>1 DEF Delete, LoadForDelete, CommitDelete, DeleteIsoAsset, DeleteGlobalIsoAsset,
         DeleteAppAsset, DeleteGlobalAppAsset, Unlink, At, DeleteInv, Asset
<1>2. tab[a] # "unused"
  BY <1>1 DEF DeleteInv
<1>3. CASE LoadForDelete(r)
  <2>1. rows[a] # NoRow /\ Proceed(r, "commit", NoRow) /\ UNCHANGED <<kind, rows, part, file>>
    BY <1>3 DEF LoadForDelete
  <2>2. "commit" \in Ats
    BY DEF Ats
  <2>3. /\ req' \in [Reqs -> Requests] /\ \A q \in Reqs \ {r} : req'[q] = req[q]
        /\ \A q \in Reqs, b \in AssetIds : Uploading(q, b)' <=> Uploading(q, b)
        /\ tab' = tab /\ sent' = sent
    BY <2>1, <2>2, ProceedFacts
  <2>4. /\ req'[r].op = "delete" /\ req'[r].asset = req[r].asset /\ req'[r].at = "commit"
        /\ req'[r].copy = rows[a]
    BY <2>1, ProceedRequest
  <2>5. CopyInv(r)'
    BY <2>1, <2>2, ProceedFacts
  <2>6. ReqInv(r)'
    BY <1>2, <2>1, <2>3, <2>4, <2>5 DEF ReqInv, ActiveInv, ChunkInv, FinalizeInv, DeleteInv,
       DesignateInv, SeedInv, DownloadInv, Asset
  <2>. QED  BY <2>1, <2>3, <2>6, MoveStep DEF Inv, Types, AgentFile
<1>4. CASE CommitDelete(r)
  <2>1. CASE Answer(r, FALSE) /\ UNCHANGED <<kind, rows, part, file>>
    BY <2>1, AnswerOnly
  <2>2. CASE ~(Answer(r, FALSE) /\ UNCHANGED <<kind, rows, part, file>>)
    <3>1. /\ rows' = [rows EXCEPT ![a] = NoRow] /\ req' = [req EXCEPT ![r].at = "unlink"]
          /\ UNCHANGED <<kind, part, file, tab, sent>> /\ req[r].at = "commit"
      BY <1>4, <2>2 DEF CommitDelete, At
    <3>. DEFINE x == [req[r] EXCEPT !.at = "unlink"]
    <3>2. /\ x \in Requests /\ x.op = "delete" /\ x.asset = a /\ x.at = "unlink"
          /\ x.copy = req[r].copy
      <4>1. req[r] \in Requests /\ "unlink" \in Ats
        BY DEF Inv, Types, Ats
      <4>. QED  BY <4>1 DEF Requests, Asset
    <3>3. req' = [req EXCEPT ![r] = x]
      BY <3>1
    <3>. HIDE DEF x
    <3>4. /\ req' \in [Reqs -> Requests] /\ req'[r] = x
          /\ \A q \in Reqs \ {r} : req'[q] = req[q]
          /\ rows' \in [AssetIds -> Rows \cup {NoRow}] /\ rows'[a] = NoRow
          /\ \A b \in AssetIds \ {a} : rows'[b] = rows[b]
      BY <3>1, <3>2, <3>3 DEF Inv, Types
    <3>5. \A q \in Reqs, b \in AssetIds : Uploading(q, b)' <=> Uploading(q, b)
      BY <3>2, <3>4 DEF Uploading
    <3>6. \A b \in AssetIds : TabKept(b) /\ RowKept(b)
      BY <3>1, <3>4, <3>5 DEF TabKept, RowKept, Done, Moved
    <3>7. \A q \in Reqs \ {r} : UploadKept(q)
      <4>. TAKE q \in Reqs \ {r}
      <4>1. ActiveInv(q)
        BY DEF Inv, ReqInv
      <4>. QED  BY <3>1, <3>4, <3>5, <4>1 DEF UploadKept, ActiveInv, Asset
    <3>8. \A b \in AssetIds : TabInv(b)' /\ DataInv(b)'
      <4>. TAKE b \in AssetIds
      <4>1. TabInv(b) /\ DataInv(b)
        BY DEF Inv
      <4>2. TabInv(b)'
        BY <3>1, <3>4, <4>1 DEF TabInv
      <4>3. CASE b = a
        BY <3>1, <3>4, <4>1, <4>2, <4>3 DEF DataInv
      <4>4. CASE b # a
        BY <3>1, <3>4, <3>6, <4>1, <4>2, <4>4, DataKept
      <4>. QED  BY <4>3, <4>4
    <3>9. ReqInv(r)'
      <4>1. CopyInv(r)'
        BY <3>2, <3>4, <3>6, CopySame DEF Asset
      <4>. QED  BY <1>1, <1>2, <3>1, <3>2, <3>4, <4>1 DEF ReqInv, ActiveInv, ChunkInv,
                   FinalizeInv, DeleteInv, DesignateInv, SeedInv, DownloadInv, Asset
    <3>10. Types' /\ AgentFile'
      BY <3>1, <3>4 DEF Inv, Types, AgentFile
    <3>. QED  BY <3>4, <3>6, <3>7, <3>8, <3>9, <3>10, HandlerStep
  <2>. QED  BY <2>1, <2>2
<1>5. CASE Unlink(r)
  <2>1. /\ req[r].at = "unlink" /\ Answer(r, TRUE) /\ UNCHANGED <<kind, rows, part>>
        /\ file' = IF req[r].copy.path = "" THEN file
                   ELSE [file EXCEPT ![req[r].copy.path] = Absent]
    BY <1>5 DEF Unlink, At, UnlinkStep
  <2>2. /\ req[r].copy.path \in {"", a, AgentPath} /\ rows[a] = NoRow
        /\ req[r].copy.path = a => Done(a)
    BY <1>1, <2>1, IdsFacts DEF DeleteInv, CopyInv, Fresh
  <2>. QED  BY <2>1, <2>2, UnlinksStep DEF Moved
<1>. QED  BY <1>3, <1>4, <1>5 DEF Delete, DeleteIsoAsset, DeleteGlobalIsoAsset,
             DeleteAppAsset, DeleteGlobalAppAsset

-----------------------------------------------------------------------------
(* Handlers of designations and seeds. *)

LEMMA SetAgentStep ==
    ASSUME Inv, NEW r \in Reqs, SetRemoteAgent(r)
    PROVE  Inv'
<1>1. DesignateInv(r)
  BY DEF Inv, ReqInv
<1>. PICK a \in AssetIds : a = Asset(r)
  BY <1>1 DEF SetRemoteAgent, At, DesignateInv, Asset
<1>2. /\ req[r].op \in {"designate", "undesignate"} /\ rows[a] # NoRow
      /\ UNCHANGED <<kind, rows, part, file>>
  BY DEF SetRemoteAgent, At
<1>3. CASE Answer(r, FALSE)
  BY <1>2, <1>3, AnswerOnly
<1>4. CASE ~Answer(r, FALSE)
  <2>. DEFINE new == [rows[a] EXCEPT !.agent = (req[r].op = "designate")]
  <2>. PICK at \in {"update", "commit"} :
          /\ Proceed(r, at, new)
          /\ req[r].op = "designate" => rows[a].status = "complete"
    BY <1>2, <1>4 DEF SetRemoteAgent
  <2>1. at \in Ats /\ new \in Rows
    <3>1. at \in Ats
      BY DEF Ats
    <3>2. rows[a] \in Rows
      BY <1>2 DEF Inv, Types
    <3>3. new \in Rows
      BY <3>2 DEF Rows
    <3>. QED  BY <3>1, <3>3
  <2>. HIDE DEF new
  <2>2. /\ req' \in [Reqs -> Requests] /\ \A q \in Reqs \ {r} : req'[q] = req[q]
        /\ \A q \in Reqs, b \in AssetIds : Uploading(q, b)' <=> Uploading(q, b)
        /\ tab' = tab /\ sent' = sent /\ \A b \in AssetIds : TabKept(b)
    BY <2>1, ProceedFacts
  <2>3. /\ req'[r].op = req[r].op /\ req'[r].asset = req[r].asset
        /\ req'[r].copy = rows[a] /\ req'[r].new = new
    BY ProceedRequest
  <2>4. CopyInv(r)'
    BY <1>2, <2>1, ProceedFacts
  <2>5. req[r].op = "designate" => Done(a)'
    BY <1>2, <2>2 DEF Inv, DataInv, Fresh, TabKept
  <2>6. DesignateInv(r)'
    BY <1>2, <2>3, <2>5 DEF DesignateInv, Asset, new
  <2>7. ReqInv(r)'
    BY <1>2, <2>3, <2>4, <2>6 DEF ReqInv, ActiveInv, ChunkInv, FinalizeInv, DeleteInv,
       SeedInv, DownloadInv
  <2>. QED  BY <1>2, <2>2, <2>7, MoveStep DEF Inv, Types, AgentFile
<1>. QED  BY <1>3, <1>4

(* A handler that goes on without looking at rows or files. *)
LEMMA WithinStep ==
    ASSUME Inv, NEW r \in Reqs, NEW x \in Requests,
           req' = [req EXCEPT ![r] = x],
           x.op = req[r].op, x.asset = req[r].asset, x.copy = req[r].copy,
           x.op \notin {"chunk", "finalize", "delete"},
           x.op \in {"designate", "undesignate"} => x.new = req[r].new /\ req[r].at # "load",
           x.op = "seed" =>
              /\ x.at \notin {"commit", "unlink"}
              /\ x.asset = "" => x.at # "unlink",
           x.op = "download" =>
              /\ x.at = "open" => req[r].at = "open"
              /\ x.at = "read" /\ x.copy.path # AgentPath => x.data.chunks = Whole,
           UNCHANGED <<kind, rows, part, file, tab, sent>>
    PROVE  Inv'
<1>1. /\ req' \in [Reqs -> Requests] /\ req'[r] = x
      /\ \A q \in Reqs \ {r} : req'[q] = req[q]
  BY DEF Inv, Types
<1>2. \A q \in Reqs, b \in AssetIds : Uploading(q, b)' <=> Uploading(q, b)
  BY <1>1 DEF Uploading
<1>3. \A b \in AssetIds : TabKept(b) /\ RowKept(b)
  BY <1>2 DEF TabKept, RowKept, Done, Moved
<1>4. ReqInv(r)'
  <2>1. DesignateInv(r) /\ SeedInv(r) /\ DownloadInv(r) /\ CopyInv(r)
    BY DEF Inv, ReqInv
  <2>2. CopyInv(r)'
    BY <1>1, <1>3, CopySame
  <2>3. DesignateInv(r)'
    BY <1>1, <1>3, <2>1 DEF DesignateInv, Asset, TabKept
  <2>4. SeedInv(r)'
    BY <1>1, <1>3, <2>1 DEF SeedInv, CopyInv, Asset, TabKept
  <2>5. DownloadInv(r)'
    BY <1>1, <2>1 DEF DownloadInv
  <2>. QED  BY <1>1, <2>2, <2>3, <2>4, <2>5 DEF ReqInv, ActiveInv, ChunkInv, FinalizeInv,
                                                DeleteInv
<1>. QED  BY <1>1, <1>2, <1>4, MoveStep DEF Inv, Types, AgentFile

LEMMA ClearStep ==
    ASSUME Inv, NEW r \in Reqs, ClearOtherAgents(r)
    PROVE  Inv'
<1>. DEFINE x == [req[r] EXCEPT !.at = "commit", !.seen = Cleared]
<1>1. Cleared \in SUBSET AssetIds
  BY DEF Cleared, AgentAssets
<1>2. /\ x \in Requests /\ x.op = req[r].op /\ x.asset = req[r].asset
      /\ x.copy = req[r].copy /\ x.new = req[r].new
  <2>1. req[r] \in Requests /\ "commit" \in Ats
    BY DEF Inv, Types, Ats
  <2>. QED  BY <1>1, <2>1 DEF Requests
<1>3. req' = [req EXCEPT ![r] = x]
  BY DEF ClearOtherAgents
<1>. HIDE DEF x
<1>. QED  BY <1>2, <1>3, WithinStep DEF ClearOtherAgents, At

LEMMA CommitDesignationStep ==
    ASSUME Inv, NEW r \in Reqs, CommitDesignation(r)
    PROVE  Inv'
<1>1. DesignateInv(r)
  BY DEF Inv, ReqInv
<1>2. req[r].op \in {"designate", "undesignate"} /\ req[r].at = "commit"
      /\ Commit(r, req[r].seen) /\ UNCHANGED <<kind, part, file>>
  BY DEF CommitDesignation, At
<1>. PICK a \in AssetIds : a = Asset(r)
  BY <1>1, <1>2 DEF DesignateInv, Asset
<1>. DEFINE new == [req[r].copy EXCEPT !.agent = (req[r].op = "designate")]
<1>3. req[r].copy # NoRow /\ req[r].new = new /\ (req[r].op = "designate" => Done(a))
  BY <1>1, <1>2 DEF DesignateInv
<1>4. req[r].copy \in Rows /\ req[r].seen \in SUBSET AssetIds
  BY <1>3 DEF Inv, Types, Requests
<1>5. /\ new \in Rows /\ new.path = req[r].copy.path /\ new.sum = req[r].copy.sum
      /\ new.status = req[r].copy.status
      /\ new.agent = (req[r].op = "designate")
  BY <1>4 DEF Rows
<1>6. new # NoRow
  BY <1>5, RowFacts
<1>. HIDE DEF new
<1>7. ASSUME NEW cur \in Rows, rows[a] # NoRow,
             cur.path = rows[a].path, cur.sum = rows[a].sum,
             cur.status = rows[a].status, cur.agent => rows[a].agent, TabKept(a)
      PROVE  Written(a, Flush(cur, req[r].copy, req[r].new))
  <2>. DEFINE f == Flush(cur, req[r].copy, new)
  <2>1. /\ f.path = cur.path /\ f.sum = cur.sum /\ f.status = cur.status
        /\ f.agent = IF new.agent # req[r].copy.agent THEN new.agent ELSE cur.agent
    BY <1>4, <1>5, FlushFacts
  <2>. HIDE DEF f
  <2>2. DataInv(a)
    BY DEF Inv
  <2>3. Fresh(f) \/ Done(a)'
    <3>1. CASE Done(a)
      BY <1>7, <3>1 DEF TabKept
    <3>2. CASE ~Done(a)
      <4>1. ~new.agent /\ Fresh(rows[a])
        BY <1>2, <1>3, <1>5, <1>7, <2>2, <3>2 DEF DataInv
      <4>. QED  BY <1>7, <2>1, <4>1 DEF Fresh
    <3>. QED  BY <3>1, <3>2
  <2>. QED  BY <1>3, <1>7, <2>1, <2>2, <2>3 DEF f, Written, DataInv
<1>. QED  BY <1>2, <1>3, <1>4, <1>6, <1>7, CommitStep

LEMMA CurrentAssetStep ==
    ASSUME Inv, NEW r \in Reqs, CurrentAsset(r)
    PROVE  Inv'
<1>1. req[r].op = "seed" /\ req[r].at = "load" /\ UNCHANGED <<kind, rows, part, file, tab, sent>>
  BY DEF CurrentAsset, At
<1>2. CASE \E a \in AgentAssets :
             req' = [req EXCEPT ![r].asset = a, ![r].copy = rows[a],
                 ![r].at = IF req[r].body = 0 /\ rows[a].path # ""
                              /\ file[rows[a].path] # Absent
                           THEN "head" ELSE "get"]
  <2>. PICK a \in AgentAssets, at \in {"head", "get"} :
          req' = [req EXCEPT ![r].asset = a, ![r].copy = rows[a], ![r].at = at]
    BY <1>2
  <2>. DEFINE x == [req[r] EXCEPT !.asset = a, !.copy = rows[a], !.at = at]
  <2>1. a \in AssetIds /\ rows[a] # NoRow /\ rows[a] \in Rows /\ rows[a].agent
    BY DEF AgentAssets, Inv, Types
  <2>2. Done(a)
    BY <2>1 DEF Inv, DataInv, Fresh
  <2>3. x \in Requests /\ x.op = "seed" /\ x.asset = a /\ x.copy = rows[a] /\ x.at = at
    <3>1. req[r] \in Requests /\ at \in Ats
      BY DEF Inv, Types, Ats
    <3>. QED  BY <1>1, <2>1, <3>1 DEF Requests
  <2>4. req' = [req EXCEPT ![r] = x]
    OBVIOUS
  <2>. HIDE DEF x
  <2>5. /\ req' \in [Reqs -> Requests] /\ req'[r] = x
        /\ \A q \in Reqs \ {r} : req'[q] = req[q]
    <3>1. req \in [Reqs -> Requests]
      BY DEF Inv, Types
    <3>. QED  BY ONLY r \in Reqs, <2>3, <2>4, <3>1
  <2>6. \A q \in Reqs, b \in AssetIds : Uploading(q, b)' <=> Uploading(q, b)
    BY <1>1, <2>3, <2>5 DEF Uploading
  <2>7. \A b \in AssetIds : TabKept(b)
    BY <1>1, <2>6 DEF TabKept, Done
  <2>8. CopyInv(r)'
    BY <1>1, <2>1, <2>3, <2>5, <2>7, CopyLoaded
  <2>9. SeedInv(r)'
    BY <2>1, <2>2, <2>3, <2>5, <2>7 DEF SeedInv, Asset, TabKept
  <2>10. ReqInv(r)'
    BY <2>3, <2>5, <2>8, <2>9 DEF ReqInv, ActiveInv, ChunkInv, FinalizeInv, DeleteInv,
       DesignateInv, DownloadInv
  <2>. QED  BY <1>1, <2>5, <2>6, <2>10, MoveStep DEF Inv, Types, AgentFile
<1>3. CASE req' = [req EXCEPT ![r].at = "get"]
  <2>. DEFINE x == [req[r] EXCEPT !.at = "get"]
  <2>1. /\ x \in Requests /\ x.op = req[r].op /\ x.asset = req[r].asset
        /\ x.copy = req[r].copy /\ x.at = "get"
    <3>1. req[r] \in Requests /\ "get" \in Ats
      BY DEF Inv, Types, Ats
    <3>. QED  BY <3>1 DEF Requests
  <2>2. req' = [req EXCEPT ![r] = x]
    BY <1>3
  <2>. HIDE DEF x
  <2>. QED  BY <1>1, <2>1, <2>2, WithinStep
<1>. QED  BY <1>2, <1>3 DEF CurrentAsset

LEMMA RemoteSizeStep ==
    ASSUME Inv, NEW r \in Reqs, RemoteSize(r)
    PROVE  Inv'
<1>1. req[r].op = "seed" /\ UNCHANGED <<kind, rows, part, file>>
  BY DEF RemoteSize, At
<1>2. CASE Answer(r, TRUE)
  BY <1>1, <1>2, AnswerOnly
<1>3. CASE req' = [req EXCEPT ![r].at = "get"] /\ UNCHANGED <<tab, sent>>
  <2>. DEFINE x == [req[r] EXCEPT !.at = "get"]
  <2>1. /\ x \in Requests /\ x.op = req[r].op /\ x.asset = req[r].asset
        /\ x.copy = req[r].copy /\ x.at = "get"
    <3>1. req[r] \in Requests /\ "get" \in Ats
      BY DEF Inv, Types, Ats
    <3>. QED  BY <3>1 DEF Requests
  <2>2. req' = [req EXCEPT ![r] = x]
    BY <1>3
  <2>. HIDE DEF x
  <2>. QED  BY <1>1, <1>3, <2>1, <2>2, WithinStep
<1>. QED  BY <1>2, <1>3 DEF RemoteSize

LEMMA SeededFacts ==
    ASSUME NEW row \in Rows, NEW n \in 1 .. Builds
    PROVE  /\ Seeded(row, n) \in Rows /\ Seeded(row, n).path = AgentPath
           /\ Seeded(row, n).agent = row.agent
BY WholeFacts DEF Seeded, Rows

LEMMA FetchStep ==
    ASSUME Inv, NEW r \in Reqs, FetchInstaller(r)
    PROVE  Inv'
<1>1. req[r].op = "seed" /\ req[r].at = "get" /\ UNCHANGED <<kind, rows, part>>
  BY DEF FetchInstaller, At
<1>2. CASE Answer(r, FALSE) /\ UNCHANGED file
  BY <1>1, <1>2, AnswerOnly
<1>3. CASE ~(Answer(r, FALSE) /\ UNCHANGED file)
  <2>. DEFINE Old == IF Asset(r) # "" THEN req[r].copy ELSE [NewRow EXCEPT !.agent = TRUE]
  <2>. PICK n \in 1 .. Builds :
          /\ file' = [file EXCEPT ![AgentPath] = BuildFile(n)]
          /\ req' = [req EXCEPT ![r].at = "commit", ![r].new = Seeded(Old, n)]
          /\ UNCHANGED <<tab, sent>>
    BY <1>3 DEF FetchInstaller
  <2>1. SeedInv(r) /\ req[r] \in Requests
    BY DEF Inv, ReqInv, Types
  <2>2. Old \in Rows
    <3>1. [NewRow EXCEPT !.agent = TRUE] \in Rows
      BY RowFacts DEF Rows
    <3>2. Asset(r) # "" => req[r].copy \in Rows
      BY <1>1, <2>1 DEF SeedInv, Requests, Asset
    <3>. QED  BY <3>1, <3>2
  <2>3. Seeded(Old, n) \in Rows
    BY <2>2, SeededFacts
  <2>. DEFINE x == [req[r] EXCEPT !.at = "commit", !.new = Seeded(Old, n)]
  <2>4. /\ x \in Requests /\ x.op = "seed" /\ x.asset = req[r].asset
        /\ x.copy = req[r].copy /\ x.at = "commit" /\ x.new = Seeded(Old, n)
    BY <1>1, <2>1, <2>3 DEF Requests, Ats
  <2>5. req' = [req EXCEPT ![r] = x]
    OBVIOUS
  <2>. HIDE DEF x
  <2>6. /\ req' \in [Reqs -> Requests] /\ req'[r] = x
        /\ \A q \in Reqs \ {r} : req'[q] = req[q]
    BY <2>4, <2>5 DEF Inv, Types
  <2>7. /\ file' \in [AssetIds \cup {AgentPath} -> Contents] /\ AgentFile'
        /\ \A b \in AssetIds : file'[b] = file[b]
    BY WholeFacts, IdsFacts DEF Inv, Types, AgentFile
  <2>8. \A q \in Reqs, b \in AssetIds : Uploading(q, b)' <=> Uploading(q, b)
    BY <1>1, <2>4, <2>6 DEF Uploading
  <2>9. \A b \in AssetIds : TabKept(b) /\ RowKept(b)
    BY <1>1, <2>8 DEF TabKept, RowKept, Done, Moved
  <2>10. CopyInv(r)'
    BY <2>4, <2>6, <2>9, CopySame
  <2>11. SeedInv(r)'
    <3>1. Asset(r)' = Asset(r)
      BY <2>4, <2>6 DEF Asset
    <3>2. req'[r].new = Seeded(IF Asset(r)' # "" THEN req'[r].copy
                               ELSE [NewRow EXCEPT !.agent = TRUE], n)
      BY <2>4, <2>6, <3>1
    <3>3. req[r].asset # "" => req[r].copy # NoRow /\ Done(Asset(r)) /\ Asset(r) \in AssetIds
      BY <1>1, <2>1 DEF SeedInv, Requests, Asset
    <3>4. \A b \in AssetIds : Done(b) => Done(b)'
      BY <2>9 DEF TabKept
    <3>5. CASE req[r].asset = ""
      BY <2>4, <2>6, <3>2, <3>5 DEF SeedInv
    <3>6. CASE req[r].asset # ""
      <4>1. Done(Asset(r))'
        <5>1. PICK b \in AssetIds : b = Asset(r)
          BY <3>3, <3>6
        <5>2. Done(b)'
          BY <3>3, <3>4, <3>6, <5>1
        <5>. QED  BY <3>1, <5>1, <5>2
      <4>. QED  BY <2>4, <2>6, <3>2, <3>3, <3>6, <4>1 DEF SeedInv
    <3>. QED  BY <3>5, <3>6
  <2>12. ReqInv(r)'
    BY <2>4, <2>6, <2>10, <2>11 DEF ReqInv, ActiveInv, ChunkInv, FinalizeInv, DeleteInv,
       DesignateInv, DownloadInv
  <2>. QED  BY <1>1, <2>6, <2>7, <2>8, <2>12, MoveStep
<1>. QED  BY <1>2, <1>3

LEMMA CommitSeedStep ==
    ASSUME Inv, NEW r \in Reqs, CommitSeed(r)
    PROVE  Inv'
<1>1. /\ req[r].op = "seed" /\ req[r].at = "commit" /\ UNCHANGED <<kind, part, file, sent>>
      /\ SeedInv(r) /\ CopyInv(r) /\ req[r] \in Requests
  BY DEF CommitSeed, At, Inv, ReqInv, Types
<1>2. PICK n \in 1 .. Builds :
         req[r].new = Seeded(IF Asset(r) # "" THEN req[r].copy
                             ELSE [NewRow EXCEPT !.agent = TRUE], n)
  BY <1>1 DEF SeedInv
<1>3. AgentFile'
  BY <1>1 DEF Inv, AgentFile
<1>4. CASE /\ Asset(r) # "" /\ rows[Asset(r)] # NoRow
           /\ rows' = [rows EXCEPT ![Asset(r)] = Flush(@, req[r].copy, req[r].new)]
           /\ req' = [req EXCEPT ![r].at = "unlink"]
           /\ UNCHANGED tab
  <2>. PICK a \in AssetIds : a = Asset(r)
    BY <1>1, <1>4 DEF Requests, Asset
  <2>1. /\ req[r].copy \in Rows /\ Done(a) /\ rows[a] \in Rows
        /\ req[r].copy.path = AgentPath => rows[a].path = AgentPath
    BY <1>1, <1>4 DEF SeedInv, CopyInv, Requests, Inv, Types, Asset, Moved
  <2>2. req[r].new \in Rows /\ req[r].new.path = AgentPath
    <3>1. req[r].new = Seeded(req[r].copy, n)
      BY <1>2, <1>4
    <3>. QED  BY <2>1, <3>1, SeededFacts
  <2>. DEFINE f == Flush(rows[a], req[r].copy, req[r].new)
              x == [req[r] EXCEPT !.at = "unlink"]
  <2>3. f \in Rows /\ f.path = AgentPath
    BY <2>1, <2>2, FlushFacts
  <2>4. /\ x \in Requests /\ x.op = "seed" /\ x.asset = a /\ x.copy = req[r].copy
        /\ x.at = "unlink"
    BY <1>1 DEF Requests, Ats, Asset
  <2>5. rows' = [rows EXCEPT ![a] = f] /\ req' = [req EXCEPT ![r] = x] /\ tab' = tab
    BY <1>4
  <2>. HIDE DEF f, x
  <2>6. /\ Types' /\ rows'[a] = f /\ \A b \in AssetIds \ {a} : rows'[b] = rows[b]
        /\ req'[r] = x /\ \A q \in Reqs \ {r} : req'[q] = req[q]
    BY <1>1, <2>3, <2>4, <2>5 DEF Inv, Types
  <2>7. \A q \in Reqs, b \in AssetIds : Uploading(q, b)' <=> Uploading(q, b)
    BY <1>1, <2>4, <2>6 DEF Uploading
  <2>8. \A b \in AssetIds : TabKept(b)
    BY <2>5, <2>7 DEF TabKept, Done
  <2>9. \A b \in AssetIds : RowKept(b)
    BY <1>4, <2>3, <2>6 DEF RowKept, Moved
  <2>10. \A q \in Reqs \ {r} : UploadKept(q)
    <3>. TAKE q \in Reqs \ {r}
    <3>1. ActiveInv(q)
      BY DEF Inv, ReqInv
    <3>. QED  BY <1>1, <2>5, <2>6, <2>7, <3>1 DEF UploadKept, ActiveInv, Asset
  <2>11. \A b \in AssetIds : TabInv(b)' /\ DataInv(b)'
    <3>. TAKE b \in AssetIds
    <3>1. TabInv(b) /\ DataInv(b)
      BY DEF Inv
    <3>2. CASE b # a
      BY <1>1, <2>5, <2>6, <2>8, <3>1, <3>2, DataKept DEF TabInv
    <3>3. CASE b = a
      <4>1. TabInv(a)'
        BY <1>1, <1>4, <2>1, <2>5, <3>1, <3>3 DEF TabInv, Done
      <4>2. Done(a)' /\ rows'[a].path # a
        BY <2>1, <2>3, <2>6, <2>8, IdsFacts DEF TabKept
      <4>3. DataInv(a)'
        BY <1>1, <2>3, <2>6, <3>1, <3>3, <4>2 DEF DataInv
      <4>. QED  BY <3>3, <4>1, <4>3
    <3>. QED  BY <3>2, <3>3
  <2>12. ReqInv(r)'
    <3>1. CopyInv(r)'
      BY <2>4, <2>6, <2>8, <2>9, CopySame DEF Asset
    <3>2. SeedInv(r)'
      <4>1. Asset(r)' = a /\ a # ""
        BY <2>4, <2>6, IdsFacts DEF Asset
      <4>2. Done(a)' /\ Moved(a)'
        BY <2>1, <2>3, <2>6, <2>8 DEF TabKept, Moved
      <4>. QED  BY <1>1, <1>4, <2>4, <2>6, <4>1, <4>2 DEF SeedInv, Asset
    <3>. QED  BY <2>4, <2>6, <3>1, <3>2 DEF ReqInv, ActiveInv, ChunkInv, FinalizeInv,
                 DeleteInv, DesignateInv, DownloadInv
  <2>. QED  BY <1>3, <2>6, <2>8, <2>9, <2>10, <2>11, <2>12, HandlerStep
<1>5. ASSUME NEW a \in AssetIds,
             Asset(r) = "", tab[a] = "unused",
             rows' = [rows EXCEPT ![a] = req[r].new],
             tab' = [tab EXCEPT ![a] = "seeded"],
             req' = [req EXCEPT ![r] = Idle]
      PROVE  Inv'
  <2>1. req[r].new \in Rows /\ req[r].new.path = AgentPath
    <3>1. [NewRow EXCEPT !.agent = TRUE] \in Rows
      BY RowFacts DEF Rows
    <3>. QED  BY <1>2, <1>5, <3>1, SeededFacts
  <2>2. /\ Types' /\ rows'[a] = req[r].new /\ tab'[a] = "seeded"
        /\ \A b \in AssetIds \ {a} : rows'[b] = rows[b] /\ tab'[b] = tab[b]
        /\ req'[r] = Idle /\ \A q \in Reqs \ {r} : req'[q] = req[q]
    BY <1>1, <1>5, <2>1, IdleFacts DEF Inv, Types
  <2>3. \A q \in Reqs, b \in AssetIds : Uploading(q, b)' => Uploading(q, b)
    BY <2>2, IdleFacts DEF Uploading
  <2>4. \A q \in Reqs : ~Uploading(q, a)
    BY <1>5 DEF Inv, ReqInv, ActiveInv, Uploading, Asset
  <2>5. \A b \in AssetIds : TabKept(b) /\ RowKept(b)
    BY <1>5, <2>2, <2>3 DEF TabKept, RowKept, Done, Moved
  <2>6. \A q \in Reqs \ {r} : UploadKept(q)
    <3>. TAKE q \in Reqs \ {r}
    <3>1. ActiveInv(q)
      BY DEF Inv, ReqInv
    <3>2. req[q].op \in {"chunk", "finalize"} => Asset(q) # a
      BY <2>4 DEF Uploading, Asset
    <3>. QED  BY <1>1, <2>2, <2>3, <3>1, <3>2 DEF UploadKept, ActiveInv, Asset
  <2>7. \A b \in AssetIds : TabInv(b)' /\ DataInv(b)'
    <3>. TAKE b \in AssetIds
    <3>1. TabInv(b) /\ DataInv(b)
      BY DEF Inv
    <3>2. TabInv(b)'
      BY <1>1, <2>2, <3>1 DEF TabInv
    <3>3. CASE b # a
      BY <1>1, <2>2, <2>5, <3>1, <3>2, <3>3, DataKept
    <3>4. CASE b = a
      <4>1. Done(a)' /\ rows'[a].path = AgentPath
        BY <2>1, <2>2, <2>3, <2>4 DEF Done
      <4>. QED  BY <1>1, <3>1, <3>2, <3>4, <4>1, IdsFacts DEF DataInv
    <3>. QED  BY <3>3, <3>4
  <2>8. ReqInv(r)'
    BY <2>2, IdleInv
  <2>. QED  BY <1>3, <2>2, <2>5, <2>6, <2>7, <2>8, HandlerStep
<1>6. CASE req' = [req EXCEPT ![r] = Idle] /\ UNCHANGED <<rows, tab>>
  <2>1. /\ req' \in [Reqs -> Requests] /\ req'[r] = Idle
        /\ \A q \in Reqs \ {r} : req'[q] = req[q]
    BY <1>6, IdleFacts DEF Inv, Types
  <2>2. \A b \in AssetIds : Uploading(r, b)' => Uploading(r, b)
    BY <2>1, IdleFacts DEF Uploading
  <2>3. ReqInv(r)'
    BY <2>1, IdleInv
  <2>. QED  BY <1>1, <1>3, <1>6, <2>1, <2>2, <2>3, MoveStep DEF Inv, Types
<1>. QED  BY <1>4, <1>5, <1>6 DEF CommitSeed

LEMMA UnlinkOldStep ==
    ASSUME Inv, NEW r \in Reqs, UnlinkOld(r)
    PROVE  Inv'
<1>1. /\ req[r].op = "seed" /\ req[r].at = "unlink" /\ Answer(r, TRUE)
      /\ UNCHANGED <<kind, rows, part>>
      /\ file' = IF req[r].copy.path \in {"", AgentPath} THEN file
                 ELSE [file EXCEPT ![req[r].copy.path] = Absent]
  BY DEF UnlinkOld, At
<1>2. SeedInv(r) /\ CopyInv(r) /\ req[r] \in Requests
  BY DEF Inv, ReqInv, Types
<1>. PICK a \in AssetIds : a = Asset(r)
  BY <1>1, <1>2 DEF SeedInv, Requests, Asset
<1>3. req[r].copy.path \in {"", a, AgentPath} /\ Moved(a) /\ Done(a)
  BY <1>1, <1>2, IdsFacts DEF SeedInv, CopyInv, Asset
<1>. QED  BY <1>1, <1>3, UnlinksStep

LEMMA DesignateStep ==
    ASSUME Inv, NEW r \in Reqs, Designate(r)
    PROVE  Inv'
BY SetAgentStep, ClearStep, CommitDesignationStep, RefreshStep, CurrentAssetStep,
   RemoteSizeStep, FetchStep, CommitSeedStep, UnlinkOldStep DEF Designate

-----------------------------------------------------------------------------
(* Downloads and restarts. *)

LEMMA DownloadStep ==
    ASSUME Inv, NEW r \in Reqs, DownloadAppAsset(r)
    PROVE  Inv'
<1>1. DownloadInv(r)
  BY DEF Inv, ReqInv
<1>2. /\ req[r].op = "download" /\ Asset(r) \in AssetIds
      /\ rows[Asset(r)] # NoRow /\ UNCHANGED <<kind, rows, part, file>>
  BY <1>1 DEF DownloadAppAsset, At, DownloadInv, Asset
<1>3. CASE Answer(r, FALSE)
  BY <1>2, <1>3, AnswerOnly
<1>4. CASE ~Answer(r, FALSE)
  <2>1. Proceed(r, "open", NoRow) /\ rows[Asset(r)].path # "" /\ "open" \in Ats
    BY <1>2, <1>4 DEF DownloadAppAsset, Ats
  <2>2. /\ req' \in [Reqs -> Requests] /\ \A q \in Reqs \ {r} : req'[q] = req[q]
        /\ \A q \in Reqs, b \in AssetIds : Uploading(q, b)' <=> Uploading(q, b)
        /\ tab' = tab /\ sent' = sent
    BY <1>2, <2>1, ProceedFacts
  <2>3. /\ req'[r].op = "download" /\ req'[r].asset = req[r].asset /\ req'[r].at = "open"
        /\ req'[r].copy = rows[Asset(r)]
    BY <1>2, <2>1, ProceedRequest
  <2>4. CopyInv(r)'
    BY <1>2, <2>1, ProceedFacts
  <2>5. ReqInv(r)'
    BY <1>1, <1>2, <2>1, <2>3, <2>4 DEF ReqInv, ActiveInv, ChunkInv, FinalizeInv, DeleteInv,
       DesignateInv, SeedInv, DownloadInv
  <2>. QED  BY <1>2, <2>2, <2>5, MoveStep DEF Inv, Types, AgentFile
<1>. QED  BY <1>3, <1>4

LEMMA OpenStep ==
    ASSUME Inv, NEW r \in Reqs, OpenFile(r)
    PROVE  Inv'
<1>1. /\ req[r].op = "download" /\ req[r].at = "open"
      /\ UNCHANGED <<kind, rows, part, file>>
  BY DEF OpenFile, At
<1>2. DownloadInv(r) /\ CopyInv(r) /\ req[r] \in Requests
  BY DEF Inv, ReqInv, Types
<1>. PICK p \in AssetIds \cup {AgentPath} : p = req[r].copy.path
  BY <1>1, <1>2 DEF DownloadInv, CopyInv, Asset
<1>3. CASE Answer(r, FALSE)
  BY <1>1, <1>3, AnswerOnly
<1>4. CASE ~Answer(r, FALSE)
  <2>. DEFINE contents == IF p = AgentPath THEN Absent ELSE file[p]
              x == [req[r] EXCEPT !.at = "read", !.data = contents]
  <2>1. req' = [req EXCEPT ![r] = x] /\ UNCHANGED <<tab, sent>> /\ file[p] # Absent
    BY <1>4 DEF OpenFile
  <2>2. contents \in Contents /\ (p # AgentPath => contents.chunks = Whole)
    BY <2>1, WholeFacts DEF Inv, Types, DataInv
  <2>3. /\ x \in Requests /\ x.op = req[r].op /\ x.asset = req[r].asset
        /\ x.copy = req[r].copy /\ x.at = "read" /\ x.data = contents
    BY <1>2, <2>2 DEF Inv, Types, Requests, Ats
  <2>. HIDE DEF x
  <2>. QED  BY <1>1, <2>1, <2>2, <2>3, WithinStep
<1>. QED  BY <1>3, <1>4

LEMMA RestartStep ==
    ASSUME Inv, Restart
    PROVE  Inv'
<1>1. PICK r \in Reqs :
         req' = [q \in Reqs |-> IF q = r THEN SeedRequest(FALSE) ELSE Idle]
  BY DEF Restart
<1>2. /\ tab' = [a \in AssetIds |-> IF tab[a] = "waiting" THEN "failed" ELSE tab[a]]
      /\ sent' = [a \in AssetIds |-> IF tab[a] = "waiting" THEN 0 ELSE sent[a]]
      /\ UNCHANGED <<kind, rows, part, file>>
  BY DEF Restart
<1>3. /\ SeedRequest(FALSE) \in Requests /\ SeedRequest(FALSE).op = "seed"
      /\ SeedRequest(FALSE).asset = "" /\ SeedRequest(FALSE).at = "load"
      /\ SeedRequest(FALSE).copy = NoRow
  <2>1. "load" \in Ats /\ Absent \in Contents /\ "seed" \in Ops /\ 0 \in 0 .. NChunks
    BY WholeFacts, BoundsFacts DEF Ats, Ops
  <2>. QED  BY <2>1 DEF SeedRequest, Request, Requests
<1>4. \A q \in Reqs : req'[q] \in Requests /\ ReqInv(q)'
  <2>. TAKE q \in Reqs
  <2>1. CASE q = r
    <3>1. req'[q] = SeedRequest(FALSE)
      BY <1>1, <2>1
    <3>. QED  BY <1>3, <3>1 DEF ReqInv, ActiveInv, ChunkInv, FinalizeInv, CopyInv, DeleteInv,
                 DesignateInv, SeedInv, DownloadInv
  <2>2. CASE q # r
    <3>1. req'[q] = Idle
      BY <1>1, <2>2
    <3>. QED  BY <3>1, IdleFacts, IdleInv
  <2>. QED  BY <2>1, <2>2
<1>5. Types'
  <2>1. 0 \in 0 .. NChunks + 1
    BY BoundsFacts
  <2>2. req' \in [Reqs -> Requests]
    BY <1>1, <1>4
  <2>. QED  BY <1>2, <2>1, <2>2 DEF Inv, Types
<1>6. \A q \in Reqs, a \in AssetIds : ~Uploading(q, a)'
  BY <1>1, <1>3, IdleFacts DEF Uploading
<1>7. \A a \in AssetIds : TabKept(a)
  BY <1>2, <1>6 DEF TabKept, Done
<1>8. \A a \in AssetIds : TabInv(a)' /\ DataInv(a)'
  <2>. TAKE a \in AssetIds
  <2>1. TabInv(a)'
    BY <1>2 DEF Inv, TabInv
  <2>2. DataInv(a)'
    BY <1>2, <1>7, DataKept DEF Inv
  <2>. QED  BY <2>1, <2>2
<1>9. AgentFile'
  BY <1>2 DEF Inv, AgentFile
<1>. QED  BY <1>4, <1>5, <1>8, <1>9 DEF Inv

-----------------------------------------------------------------------------
(* Theorems. *)

LEMMA InitInv == Init => Inv
<1>. SUFFICES ASSUME Init  PROVE Inv
  OBVIOUS
<1>1. /\ kind \in Kinds
      /\ rows = [a \in AssetIds |-> NoRow]
      /\ part = [a \in AssetIds |-> <<>>]
      /\ file = [p \in AssetIds \cup {AgentPath} |-> Absent]
      /\ tab = [a \in AssetIds |-> "unused"]
      /\ sent = [a \in AssetIds |-> 0]
      /\ req = [r \in Reqs |-> Idle]
  BY DEF Init
<1>2. Types
  <2>1. 0 \in 0 .. NChunks + 1 /\ <<>> \in Seq(1 .. NChunks)
    BY BoundsFacts
  <2>. QED  BY <1>1, <2>1, IdleFacts, WholeFacts DEF Types
<1>3. AgentFile
  BY <1>1 DEF AgentFile
<1>4. \A a \in AssetIds : TabInv(a) /\ DataInv(a)
  BY <1>1 DEF TabInv, DataInv
<1>5. \A r \in Reqs : ReqInv(r)
  BY <1>1, IdleFacts DEF ReqInv, ActiveInv, ChunkInv, FinalizeInv, CopyInv, DeleteInv,
     DesignateInv, SeedInv, DownloadInv
<1>. QED  BY <1>2, <1>3, <1>4, <1>5 DEF Inv

LEMMA NextInv == Inv /\ [Next]_vars => Inv'
<1>. SUFFICES ASSUME Inv, [Next]_vars  PROVE Inv'
  OBVIOUS
<1>1. CASE Restart
  BY <1>1, RestartStep
<1>2. ASSUME NEW a \in AssetIds, Create(a)  PROVE Inv'
  BY <1>2, CreateStep DEF Create, CreateIsoAsset, CreateGlobalIsoAsset, CreateAppAsset,
     CreateGlobalAppAsset
<1>3. ASSUME NEW a \in AssetIds, AbandonUpload(a)  PROVE Inv'
  BY <1>3, AbandonStep
<1>4. ASSUME NEW a \in AssetIds, NEW r \in Reqs, Send(a, r)  PROVE Inv'
  BY <1>4, SendsStep
<1>5. ASSUME NEW r \in Reqs, Handle(r)  PROVE Inv'
  <2>1. CASE Upload(r) \/ Delete(r) \/ Designate(r)
    BY <2>1, UploadStep, DeleteStep, DesignateStep
  <2>2. CASE DownloadAppAsset(r) \/ OpenFile(r)
    BY <2>2, DownloadStep, OpenStep
  <2>3. CASE ReadFile(r)
    BY <2>3, AnswerOnly DEF ReadFile, At
  <2>4. ASSUME NEW op, NotFound(r, op)  PROVE Inv'
    BY <2>4, NotFoundStep
  <2>. QED  BY <1>5, <2>1, <2>2, <2>3, <2>4 DEF Handle
<1>6. CASE UNCHANGED vars
  <2>1. UNCHANGED <<kind, rows, part, file, tab, sent, req>>
    BY <1>6 DEF vars
  <2>2. \A a \in AssetIds : TabKept(a) /\ RowKept(a)
    BY <2>1 DEF TabKept, RowKept, Done, Moved, Uploading
  <2>3. \A q \in Reqs : UploadKept(q)
    BY <2>1 DEF UploadKept, Inv, ReqInv, ActiveInv, Uploading, Asset
  <2>4. \A q \in Reqs : ReqInv(q)'
    BY <2>1, <2>2, <2>3, RequestKept
  <2>5. \A a \in AssetIds : TabInv(a)' /\ DataInv(a)'
    BY <2>1, <2>2, DataKept DEF Inv, TabInv
  <2>. QED  BY <2>1, <2>4, <2>5 DEF Inv, Types, AgentFile
<1>. QED  BY <1>1, <1>2, <1>3, <1>4, <1>5, <1>6 DEF Next

LEMMA InvHolds == Spec => []Inv
BY InitInv, NextInv, PTL DEF Spec

(* Every row, file, tab and request is of its type, however long uploads   *)
(* are: no tab counts more answers than it has sent requests.              *)
THEOREM TypeCorrect == Spec => []TypeOK
<1>1. Inv => TypeOK
  BY DEF Inv, Types, TypeOK, Requests
<1>. QED  BY <1>1, InvHolds, PTL

(* What finalize() makes complete is the whole upload, and the checksum in *)
(* the row is that of the file in storage.                                 *)
THEOREM CompleteIsWholeHolds == Spec => []CompleteIsWhole
<1>1. Inv => CompleteIsWhole
  <2>. SUFFICES ASSUME Inv, NEW a \in AssetIds, rows[a].status = "complete", rows[a].path = a
                PROVE  file[a].chunks = Whole /\ rows[a].sum = file[a]
    BY DEF CompleteIsWhole
  <2>1. rows[a] # NoRow
    BY DEF NoRow
  <2>. QED  BY <2>1 DEF Inv, DataInv
<1>. QED  BY <1>1, InvHolds, PTL

(* The file of an upload is in storage as long as its row names it.        *)
THEOREM RowNamesFileHolds == Spec => []RowNamesFile
<1>1. Inv => RowNamesFile
  BY WholeFacts DEF Inv, DataInv, RowNamesFile
<1>. QED  BY <1>1, InvHolds, PTL

(* A guest to which download_app_asset() streams the file of an upload     *)
(* gets the whole of it, whatever was uploaded, deleted or designated      *)
(* meanwhile.  (The seeded installer, rewritten in place, is left out.)    *)
THEOREM DownloadWholeHolds == Spec => []DownloadWhole
<1>1. Inv => DownloadWhole
  BY DEF Inv, ReqInv, DownloadInv, DownloadWhole, At
<1>. QED  BY <1>1, InvHolds, PTL

===============================================================================
