------------------------------- MODULE Assets -------------------------------
(***************************************************************************)
(* ISO and application assets: rows in the database, .part files that grow *)
(* chunk by chunk, files in storage, and the one asset designated as the   *)
(* remote-management agent.  The API is one asyncio process: a step is the *)
(* code of a handler between two awaits.  A request works on its session's *)
(* copy of the row (OrmSession); files are shared by all.                  *)
(*                                                                         *)
(* An upload is driven by a browser tab that sends the chunks one after    *)
(* the other, each when the one before it was answered, and finalizes last.*)
(***************************************************************************)
EXTENDS Integers, Sequences, FiniteSets, OrmSession

CONSTANTS
    AssetIds,   \* identities of assets
    Kinds,      \* what the assets may be: functions to AssetKinds
    Reqs,       \* handlers that may run at once
    NChunks,    \* chunks of a file
    Builds,     \* agent builds that CI may have published: 1 .. Builds
    Incidents   \* what may go wrong

AssetKinds == {"iso", "global_iso", "app", "global_app"}
AgentPath == "remote-agent"

ASSUME AssetsAssumption ==
    /\ "" \notin AssetIds /\ AgentPath \notin AssetIds
    /\ Kinds \subseteq [AssetIds -> AssetKinds]
    /\ NChunks \in Nat \ {0} /\ Builds \in Nat \ {0}
    /\ Incidents \subseteq {"abandon", "db", "crash"}

VARIABLES
    kind,       \* the table of each asset, and whether it has an organization
    rows,       \* iso_assets and app_assets
    part,       \* upload-<id>.part
    file,       \* files in storage; the seeded agent has a path of its own
    tab,        \* the browser tab of each upload
    sent,       \* chunks of it that were answered
    req         \* the request in each slot

vars == <<kind, rows, part, file, tab, sent, req>>

NoRow == [status |-> "none"]
Absent == [chunks |-> <<>>, patched |-> FALSE]
(* A file is the chunks it was put together from; a published build has a  *)
(* negative number.  patched: the boot prompt has been removed.            *)
Contents == [chunks : Seq(Int), patched : BOOLEAN]
BuildFile(n) == [chunks |-> <<0 - n>>, patched |-> FALSE]

NewRow == [status |-> "pending", path |-> "", sum |-> Absent, agent |-> FALSE]
Rows == [status : {"pending", "uploading", "complete"},
         path : AssetIds \cup {"", AgentPath}, sum : Contents, agent : BOOLEAN]

Request(op, a) ==
    [op |-> op, asset |-> a, at |-> "load", copy |-> NoRow, new |-> NoRow,
     body |-> 0, seen |-> {}, data |-> Absent]
Idle == Request("none", "")

Init ==
    /\ kind \in Kinds
    /\ rows = [a \in AssetIds |-> NoRow]
    /\ part = [a \in AssetIds |-> <<>>]
    /\ file = [p \in AssetIds \cup {AgentPath} |-> Absent]
    /\ tab = [a \in AssetIds |-> "unused"]
    /\ sent = [a \in AssetIds |-> 0]
    /\ req = [r \in Reqs |-> Idle]

-----------------------------------------------------------------------------
(* Handlers.  Definitions named ...Fault are wrong on purpose.              *)

At(r, op, at) == req[r].op = op /\ req[r].at = at
Asset(r) == req[r].asset
Kind(r) == IF Asset(r) \in AssetIds THEN kind[Asset(r)] ELSE ""

(* The response reaches the tab that waits for it, if there is one.        *)
Answer(r, ok) ==
    /\ req' = [req EXCEPT ![r] = Idle]
    /\ IF req[r].op \in {"chunk", "finalize"} /\ tab[Asset(r)] = "waiting"
       THEN /\ tab' = [tab EXCEPT ![Asset(r)] = IF ok THEN req[r].op ELSE "failed"]
            /\ sent' = [sent EXCEPT ![Asset(r)] = IF ok THEN @ + 1 ELSE 0]
       ELSE UNCHANGED <<tab, sent>>

(* The handler has read the row and goes on to its next await. *)
Proceed(r, at, new) ==
    /\ req' = [req EXCEPT ![r].at = at, ![r].copy = rows[Asset(r)], ![r].new = new]
    /\ UNCHANGED <<tab, sent>>

(* db.commit() of a session that has assigned to its row: without a row    *)
(* the UPDATE matches nothing and raises, as does a database that fails.   *)
Commit(r, cleared) ==
    LET a == Asset(r)
    IN  \/ /\ rows[a] # NoRow
           /\ rows' = [b \in AssetIds |->
                 LET cur == IF b \in cleared /\ rows[b] # NoRow
                            THEN [rows[b] EXCEPT !.agent = FALSE] ELSE rows[b]
                 IN  IF b = a THEN Flush(cur, req[r].copy, req[r].new) ELSE cur]
           /\ Answer(r, TRUE)
        \/ /\ rows[a] = NoRow \/ "db" \in Incidents
           /\ UNCHANGED rows
           /\ Answer(r, FALSE)

(* _get_org_owned_iso and the like, and the authentication before them. *)
NotFound(r, op) ==
    /\ At(r, op, "load") /\ rows[Asset(r)] = NoRow
    /\ Answer(r, FALSE)
    /\ UNCHANGED <<kind, rows, part, file>>

-----------------------------------------------------------------------------
(* Upload.  Chunks of a file are numbered; each tab sends NChunks of them. *)

CreateAsset(a) ==
    /\ tab[a] = "unused"
    /\ rows' = [rows EXCEPT ![a] = NewRow]
    /\ tab' = [tab EXCEPT ![a] = "chunk"]
    /\ UNCHANGED <<kind, part, file, sent, req>>

CreateIsoAsset(a) == kind[a] = "iso" /\ CreateAsset(a)
CreateGlobalIsoAsset(a) == kind[a] = "global_iso" /\ CreateAsset(a)
CreateAppAsset(a) == kind[a] = "app" /\ CreateAsset(a)
CreateGlobalAppAsset(a) == kind[a] = "global_app" /\ CreateAsset(a)

AppendFault(seq, chunk) == <<chunk>>
AppendShiftedFault(seq, chunk) == Append(seq, chunk + 1)

(* append_chunk opens the .part file with "ab". *)
AppendChunk(seq, chunk) == Append(seq, chunk)

SendChunk(a, r) ==
    /\ tab[a] = "chunk" /\ sent[a] < NChunks
    /\ req[r] = Idle
    /\ req' = [req EXCEPT ![r] = [Request("chunk", a) EXCEPT !.body = sent[a] + 1]]
    /\ tab' = [tab EXCEPT ![a] = "waiting"]
    /\ UNCHANGED <<kind, rows, part, file, sent>>

LoadForChunk(r) ==
    /\ At(r, "chunk", "load") /\ rows[Asset(r)] # NoRow
    /\ Proceed(r, "body", rows[Asset(r)])
    /\ UNCHANGED <<kind, rows, part, file>>

(* The body has arrived, perhaps long after the row was read. *)
ReceiveChunk(r) ==
    LET a == Asset(r)
    IN  /\ At(r, "chunk", "body")
        /\ part' = [part EXCEPT ![a] = AppendChunk(@, req[r].body)]
        /\ IF req[r].copy.status = "uploading"
           THEN Answer(r, TRUE)
           ELSE /\ req' = [req EXCEPT ![r].at = "commit",
                                      ![r].new = [req[r].copy EXCEPT !.status = "uploading"]]
                /\ UNCHANGED <<tab, sent>>
        /\ UNCHANGED <<kind, rows, file>>

UploadIsoChunk(r) == Kind(r) = "iso" /\ ReceiveChunk(r)
UploadGlobalIsoChunk(r) == Kind(r) = "global_iso" /\ ReceiveChunk(r)
UploadAppAssetChunk(r) == Kind(r) = "app" /\ ReceiveChunk(r)
UploadGlobalAppAssetChunk(r) == Kind(r) = "global_app" /\ ReceiveChunk(r)

SendFinalize(a, r) ==
    /\ tab[a] = "chunk" /\ sent[a] = NChunks
    /\ req[r] = Idle
    /\ req' = [req EXCEPT ![r] = Request("finalize", a)]
    /\ tab' = [tab EXCEPT ![a] = "waiting"]
    /\ UNCHANGED <<kind, rows, part, file, sent>>

(* remove_boot_prompt rewrites a Windows ISO in place; other media, media   *)
(* without the pair of boot images, or a failing xorriso leave it as it is. *)
Remastered(a) == IF kind[a] \in {"iso", "global_iso"} THEN BOOLEAN ELSE {FALSE}

ChecksumFault(moved) == [moved EXCEPT !.patched = FALSE]

(* The checksum is taken of the file as it is now in storage. *)
Checksum(moved) == moved

(* finalize(): no await between reading the row and the checksum. *)
Finalize(r) ==
    LET a == Asset(r)
    IN  /\ At(r, "finalize", "load") /\ rows[a] # NoRow
        /\ \/ /\ part[a] = <<>>
              /\ Answer(r, FALSE)
              /\ UNCHANGED <<part, file>>
           \/ /\ part[a] # <<>>
              /\ \E patched \in Remastered(a) :
                    LET moved == [chunks |-> part[a], patched |-> patched]
                    IN  /\ file' = [file EXCEPT ![a] = moved]
                        /\ Proceed(r, "commit",
                              [rows[a] EXCEPT !.path = a, !.sum = Checksum(moved),
                                              !.status = "complete"])
              /\ part' = [part EXCEPT ![a] = <<>>]
        /\ UNCHANGED <<kind, rows>>

FinalizeIsoUpload(r) == Kind(r) = "iso" /\ Finalize(r)
FinalizeGlobalIsoUpload(r) == Kind(r) = "global_iso" /\ Finalize(r)
FinalizeAppAssetUpload(r) == Kind(r) = "app" /\ Finalize(r)
FinalizeGlobalAppAssetUpload(r) == Kind(r) = "global_app" /\ Finalize(r)

CommitUpload(r) ==
    /\ At(r, "chunk", "commit") \/ At(r, "finalize", "commit")
    /\ Commit(r, {})
    /\ UNCHANGED <<kind, part, file>>

(* The tab is closed, or gives a request up that the server still handles. *)
AbandonUpload(a) ==
    /\ "abandon" \in Incidents
    /\ tab[a] \in {"chunk", "waiting"}
    /\ tab' = [tab EXCEPT ![a] = "failed"] /\ sent' = [sent EXCEPT ![a] = 0]
    /\ UNCHANGED <<kind, rows, part, file, req>>

-----------------------------------------------------------------------------
(* Deletion: the row first, the file when the commit has returned. *)

SendDelete(a, r) ==
    /\ req[r] = Idle /\ rows[a] # NoRow
    /\ req' = [req EXCEPT ![r] = Request("delete", a)]
    /\ UNCHANGED <<kind, rows, part, file, tab, sent>>

LoadForDelete(r) ==
    /\ At(r, "delete", "load") /\ rows[Asset(r)] # NoRow
    /\ Proceed(r, "commit", NoRow)
    /\ UNCHANGED <<kind, rows, part, file>>

UnlinkStepFault == "commit"

(* Where a deletion unlinks. *)
UnlinkStep == "unlink"

CommitDelete(r) ==
    /\ At(r, "delete", "commit")
    /\ \/ /\ rows' = [rows EXCEPT ![Asset(r)] = NoRow]
          /\ req' = [req EXCEPT ![r].at = "unlink"]
          /\ UNCHANGED <<tab, sent>>
       \/ "db" \in Incidents /\ Answer(r, FALSE) /\ UNCHANGED rows
    /\ UNCHANGED <<kind, part, file>>

Unlink(r) ==
    /\ At(r, "delete", UnlinkStep)
    /\ file' = IF req[r].copy.path = "" THEN file
               ELSE [file EXCEPT ![req[r].copy.path] = Absent]
    /\ Answer(r, TRUE)
    /\ UNCHANGED <<kind, rows, part>>

DeleteIsoAsset(r) == Kind(r) = "iso" /\ Unlink(r)
DeleteGlobalIsoAsset(r) == Kind(r) = "global_iso" /\ Unlink(r)
DeleteAppAsset(r) == Kind(r) = "app" /\ Unlink(r)
DeleteGlobalAppAsset(r) == Kind(r) = "global_app" /\ Unlink(r)

-----------------------------------------------------------------------------
(* The remote agent's installer *)

(* Nothing keeps designations and seeds from overlapping. *)
SendDesignation(a, r, op) ==
    /\ op \in {"designate", "undesignate"} /\ kind[a] = "global_app"
    /\ req[r] = Idle /\ rows[a] # NoRow
    /\ req' = [req EXCEPT ![r] = Request(op, a)]
    /\ UNCHANGED <<kind, rows, part, file, tab, sent>>

(* The row is tested before, the UPDATE over all assets sees the rows as   *)
(* they are committed when it starts.                                      *)
SetRemoteAgent(r) ==
    LET a == Asset(r)
        enabled == req[r].op = "designate"
    IN  /\ At(r, "designate", "load") \/ At(r, "undesignate", "load")
        /\ rows[a] # NoRow
        /\ IF enabled /\ rows[a].status # "complete"
           THEN Answer(r, FALSE)
           ELSE Proceed(r, IF enabled THEN "update" ELSE "commit",
                        [rows[a] EXCEPT !.agent = enabled])
        /\ UNCHANGED <<kind, rows, part, file>>

AgentAssets == {a \in AssetIds : rows[a] # NoRow /\ rows[a].agent}

(* What UPDATE ... WHERE is_remote_agent clears. *)
Cleared == AgentAssets

ClearOtherAgents(r) ==
    /\ At(r, "designate", "update")
    /\ req' = [req EXCEPT ![r].at = "commit", ![r].seen = Cleared]
    /\ UNCHANGED <<kind, rows, part, file, tab, sent>>

CommitDesignation(r) ==
    /\ At(r, "designate", "commit") \/ At(r, "undesignate", "commit")
    /\ Commit(r, req[r].seen)
    /\ UNCHANGED <<kind, part, file>>

(* The start of the API, or refresh-agent, which does not trust sizes. *)
SeedRequest(force) == [Request("seed", "") EXCEPT !.body = IF force THEN 1 ELSE 0]

RefreshRemoteAgentAsset(r) ==
    /\ req[r] = Idle
    /\ req' = [req EXCEPT ![r] = SeedRequest(TRUE)]
    /\ UNCHANGED <<kind, rows, part, file, tab, sent>>

CurrentAsset(r) ==
    /\ At(r, "seed", "load")
    /\ \/ \E a \in AgentAssets :
             req' = [req EXCEPT ![r].asset = a, ![r].copy = rows[a],
                 ![r].at = IF req[r].body = 0 /\ rows[a].path # ""
                              /\ file[rows[a].path] # Absent
                           THEN "head" ELSE "get"]
       \/ /\ AgentAssets = {}
          /\ req' = [req EXCEPT ![r].at = "get"]
    /\ UNCHANGED <<kind, rows, part, file, tab, sent>>

(* Equal sizes end the check, whatever the bytes; a failing HEAD does not. *)
RemoteSize(r) ==
    /\ At(r, "seed", "head")
    /\ \/ Answer(r, TRUE)
       \/ req' = [req EXCEPT ![r].at = "get"] /\ UNCHANGED <<tab, sent>>
    /\ UNCHANGED <<kind, rows, part, file>>

Seeded(copy, n) ==
    [copy EXCEPT !.path = AgentPath, !.sum = BuildFile(n), !.status = "complete"]

(* The download, and the file written before the row. *)
FetchInstaller(r) ==
    /\ At(r, "seed", "get")
    /\ \/ Answer(r, FALSE) /\ UNCHANGED file
       \/ \E n \in 1 .. Builds :
             /\ file' = [file EXCEPT ![AgentPath] = BuildFile(n)]
             /\ req' = [req EXCEPT ![r].at = "commit",
                   ![r].new = Seeded(IF Asset(r) # "" THEN req[r].copy
                                     ELSE [NewRow EXCEPT !.agent = TRUE], n)]
             /\ UNCHANGED <<tab, sent>>
    /\ UNCHANGED <<kind, rows, part>>

CommitSeed(r) ==
    /\ At(r, "seed", "commit")
    /\ \/ /\ Asset(r) # "" /\ rows[Asset(r)] # NoRow
          /\ rows' = [rows EXCEPT ![Asset(r)] = Flush(@, req[r].copy, req[r].new)]
          /\ req' = [req EXCEPT ![r].at = "unlink"]
          /\ UNCHANGED tab
       \/ \E a \in AssetIds :
             /\ Asset(r) = "" /\ tab[a] = "unused" /\ kind[a] = "global_app"
             /\ rows' = [rows EXCEPT ![a] = req[r].new]
             /\ tab' = [tab EXCEPT ![a] = "seeded"]
             /\ req' = [req EXCEPT ![r] = Idle]
       \/ /\ "db" \in Incidents \/ (Asset(r) # "" /\ rows[Asset(r)] = NoRow)
          /\ req' = [req EXCEPT ![r] = Idle]
          /\ UNCHANGED <<rows, tab>>
    /\ UNCHANGED <<kind, part, file, sent>>

UnlinkOld(r) ==
    LET old == req[r].copy.path
    IN  /\ At(r, "seed", "unlink")
        /\ file' = IF old \in {"", AgentPath} THEN file
                   ELSE [file EXCEPT ![old] = Absent]
        /\ Answer(r, TRUE)
        /\ UNCHANGED <<kind, rows, part>>

-----------------------------------------------------------------------------
(* A guest downloads an installer *)

GuestDownloads(a, r) ==
    /\ kind[a] \in {"app", "global_app"} /\ req[r] = Idle
    /\ req' = [req EXCEPT ![r] = Request("download", a)]
    /\ UNCHANGED <<kind, rows, part, file, tab, sent>>

(* The file's existence is tested with the row; it is opened later. *)
DownloadAppAsset(r) ==
    LET row == rows[Asset(r)]
    IN  /\ At(r, "download", "load") /\ row # NoRow
        /\ IF row.path = "" \/ (row.path # "" /\ file[row.path] = Absent)
           THEN Answer(r, FALSE)
           ELSE Proceed(r, "open", NoRow)
        /\ UNCHANGED <<kind, rows, part, file>>

(* An open file is read to its end although it is unlinked meanwhile.  An  *)
(* upload's file is never written again; what is read from AgentPath, which*)
(* a seed rewrites in place between two reads, is not represented.         *)
OpenFile(r) ==
    LET path == req[r].copy.path
    IN  /\ At(r, "download", "open")
        /\ IF file[path] = Absent
           THEN Answer(r, FALSE)
           ELSE /\ req' = [req EXCEPT ![r].at = "read",
                       ![r].data = IF path = AgentPath THEN Absent ELSE file[path]]
                /\ UNCHANGED <<tab, sent>>
        /\ UNCHANGED <<kind, rows, part, file>>

ReadFile(r) ==
    /\ At(r, "download", "read")
    /\ Answer(r, TRUE)
    /\ UNCHANGED <<kind, rows, part, file>>

-----------------------------------------------------------------------------
(* Environment *)

(* The API restarts: handlers are gone, and the installer is seeded. *)
Restart ==
    /\ "crash" \in Incidents
    /\ \E r \in Reqs :
          req' = [q \in Reqs |-> IF q = r THEN SeedRequest(FALSE) ELSE Idle]
    /\ tab' = [a \in AssetIds |-> IF tab[a] = "waiting" THEN "failed" ELSE tab[a]]
    /\ sent' = [a \in AssetIds |-> IF tab[a] = "waiting" THEN 0 ELSE sent[a]]
    /\ UNCHANGED <<kind, rows, part, file>>

Create(a) ==
    \/ CreateIsoAsset(a) \/ CreateGlobalIsoAsset(a)
    \/ CreateAppAsset(a) \/ CreateGlobalAppAsset(a)

Send(a, r) ==
    \/ SendChunk(a, r) \/ SendFinalize(a, r) \/ SendDelete(a, r)
    \/ SendDesignation(a, r, "designate") \/ SendDesignation(a, r, "undesignate")
    \/ GuestDownloads(a, r)

Upload(r) ==
    \/ LoadForChunk(r) \/ CommitUpload(r)
    \/ UploadIsoChunk(r) \/ UploadGlobalIsoChunk(r)
    \/ UploadAppAssetChunk(r) \/ UploadGlobalAppAssetChunk(r)
    \/ FinalizeIsoUpload(r) \/ FinalizeGlobalIsoUpload(r)
    \/ FinalizeAppAssetUpload(r) \/ FinalizeGlobalAppAssetUpload(r)

Delete(r) ==
    \/ LoadForDelete(r) \/ CommitDelete(r)
    \/ DeleteIsoAsset(r) \/ DeleteGlobalIsoAsset(r)
    \/ DeleteAppAsset(r) \/ DeleteGlobalAppAsset(r)

Designate(r) ==
    \/ SetRemoteAgent(r) \/ ClearOtherAgents(r) \/ CommitDesignation(r)
    \/ RefreshRemoteAgentAsset(r) \/ CurrentAsset(r) \/ RemoteSize(r)
    \/ FetchInstaller(r) \/ CommitSeed(r) \/ UnlinkOld(r)

Handle(r) ==
    \/ Upload(r) \/ Delete(r) \/ Designate(r)
    \/ DownloadAppAsset(r) \/ OpenFile(r) \/ ReadFile(r)
    \/ \E op \in {"chunk", "finalize", "delete", "designate", "undesignate",
                  "download"} : NotFound(r, op)

Next ==
    \/ Restart
    \/ \E a \in AssetIds :
          Create(a) \/ AbandonUpload(a) \/ \E r \in Reqs : Send(a, r)
    \/ \E r \in Reqs : Handle(r)

Spec == Init /\ [][Next]_vars

-----------------------------------------------------------------------------
(* Properties *)

TypeOK ==
    /\ kind \in Kinds
    /\ rows \in [AssetIds -> Rows \cup {NoRow}]
    /\ part \in [AssetIds -> Seq(1 .. NChunks)]
    /\ file \in [AssetIds \cup {AgentPath} -> Contents]
    /\ tab \in [AssetIds -> {"unused", "chunk", "waiting", "finalize", "failed", "seeded"}]
    /\ sent \in [AssetIds -> 0 .. NChunks + 1]
    /\ \A r \in Reqs : req[r] = Idle \/
          /\ req[r].asset \in AssetIds \cup {""}
          /\ req[r].copy \in Rows \cup {NoRow} /\ req[r].new \in Rows \cup {NoRow}
          /\ req[r].seen \subseteq AssetIds /\ req[r].data \in Contents

Whole == [n \in 1 .. NChunks |-> n]

(* A complete asset's file is every chunk of its upload once and in order, *)
(* and the row's checksum is that of the file in storage, remastered or    *)
(* not, whatever tabs were closed, commits failed and rows were deleted.   *)
CompleteIsWhole ==
    \A a \in AssetIds :
        rows[a].status = "complete" /\ rows[a].path = a =>
            file[a].chunks = Whole /\ rows[a].sum = file[a]

(* A row that names an uploaded file is never without it: files are in     *)
(* place before the row names them and go after the row has gone.  (All    *)
(* seeded rows share one file, which the deletion of any of them removes.) *)
RowNamesFile ==
    \A a \in AssetIds :
        rows[a] # NoRow /\ rows[a].path = a => file[a] # Absent

(* A guest that gets the file of an upload gets every chunk of it, however *)
(* its request falls between uploads, deletions and designations.  Nothing *)
(* is said of the seeded installer: a guest that reads it while a seed     *)
(* rewrites it may get parts of two builds.                                *)
DownloadWhole ==
    \A r \in Reqs : At(r, "download", "read") /\ req[r].copy.path # AgentPath =>
        req[r].data.chunks = Whole

(* app_assets.py, set_remote_agent_app_asset: "Only one asset can hold     *)
(* this at a time".  The code does not keep it when designations or seeds  *)
(* overlap.                                                                *)
OneAgent == Cardinality(AgentAssets) <= 1

===============================================================================
