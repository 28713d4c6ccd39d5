--------------------------- MODULE SidecarHydrate ---------------------------
(***************************************************************************)
(* Restoring an index from the sidecar files of other devices, without     *)
(* embedding (src/src/sidecar/sidecar-sync.ts, sidecar-preflight.ts,       *)
(* sidecar-fleet.ts, hydrate-catalog.ts, sidecar-coordinator.ts).          *)
(*                                                                         *)
(* A sync service delivers a peer's meta, log and shards one by one and in *)
(* any order while the peer goes on publishing and compacting, and notes   *)
(* change while a hydrate walks them.  A chunk id is a hash of its text:   *)
(* here the pair of a note and the version that has the text; version 0 is *)
(* the part of a note that no edit changes.                                *)
(***************************************************************************)
EXTENDS Integers, FiniteSets, Functions

CONSTANTS HyNotes,    \* notes of the vault
          HyPeers,    \* other devices with sidecar files
          HyVersions, \* bound: versions of a note, 1 .. HyVersions
          HyRole,     \* the role the settings fix, or "auto"
          HyMobile,   \* BOOLEAN: a phone
          HyMoves         \* bound: moves of the vault, the peers and the sync

ASSUME HyAssumption ==
  /\ HyVersions \in Nat \ {0} /\ HyMoves \in Nat /\ HyMobile \in BOOLEAN
  /\ HyRole \in {"auto", "producer", "contributor", "consumer"}

VARIABLES ver,       \* note -> its version, 0 when the note does not exist
          published, \* peer -> the chunks its sidecar holds on its own disk
          local,     \* peer -> [meta, log, bytes]: what has reached this disk
          idb,       \* chunk ids in the store
          recs,      \* note -> chunk ids of its file record, {} for none
          catalog,   \* CatchUpHydrateCatalog: [sig, scan, existing]
          savedSig,  \* the signature persisted by the last reconcile
          hyJob,     \* the hydrate in progress
          orphans,   \* chunks a sweep has found and not deleted yet
          moves      \* moves of the world so far

hyVars == <<ver, published, local, idb, recs, catalog, savedSig, hyJob, orphans, moves>>

-----------------------------------------------------------------------------
(* Chunks and files.                                                       *)

ChunksOf(n) == IF ver[n] = 0 THEN {} ELSE {<<n, 0>>, <<n, ver[n]>>}
HyLive == {n \in HyNotes : ver[n] # 0}
NoLog == [has |-> FALSE, ids |-> {}]
FileCount == Cardinality({n \in HyNotes : recs[n] # {}})

(* metaAccepts; scanProducerGate's accepted logs: a peer whose meta this   *)
(* build can use and whose log has arrived.                                *)
metaAccepts(p) == local[p].meta = "current"
HasArtifact(p) == local[p].meta # "none" \/ local[p].log.has \/ local[p].bytes # {}
AcceptedLogs == {p \in HyPeers : metaAccepts(p) /\ local[p].log.has}

(* scanJsonl over the accepted logs; a record resolves to some peer.       *)
ScanLogs == {e \in HyPeers \X UNION {local[p].log.ids : p \in HyPeers}
             : e[1] \in AcceptedLogs /\ e[2] \in local[e[1]].log.ids}
Winner(scan, c) == CHOOSE p \in HyPeers : <<p, c>> \in scan
Ids(scan) == {e[2] : e \in scan}

(* readSidecarShardBuffer and decodeRecord of a resolved record.           *)
ReadRecord(scan, c) == c \in local[Winner(scan, c)].bytes

(* hydrateScanSignature: the logs and their sizes.  sidecarDirSignature:   *)
(* sizes and times of logs and metas, none of the shards.                  *)
ScanSignature == [p \in AcceptedLogs |-> Cardinality(local[p].log.ids)]
DirSignature == [p \in HyPeers |-> <<local[p].meta, local[p].log>>]

(* preflightSidecar: every resolved record has its bytes on this disk.     *)
PreflightReady ==
  \A c \in Ids(ScanLogs) : ReadRecord(ScanLogs, c)
matchingProducers == AcceptedLogs

(* resolveFleetRole: a device without a newer full reindex of its own.     *)
FleetRole ==
  CASE HyRole # "auto" -> HyRole
    [] HyRole = "auto" /\ HyMobile -> "consumer"
    [] OTHER -> IF \E p \in HyPeers : HasArtifact(p) THEN "contributor"
                ELSE IF FileCount > 0 THEN "consumer" ELSE "producer"

(* shouldWaitForProducer.                                                  *)
WaitingForProducer ==
  /\ FleetRole # "producer"
  /\ ~(matchingProducers # {} /\ PreflightReady)
  /\ \/ ~PreflightReady
     \/ HyLive # {} /\ (FileCount = 0 \/ 2 * FileCount < Cardinality(HyLive))

(* hydrateCandidates: the chunks of a note that its records give back, and *)
(* whether that is all of them.                                            *)
Got(scan, n) == {c \in ChunksOf(n) : c \in Ids(scan) /\ ReadRecord(scan, c)}
SomeRead(scan, n) == Got(scan, n) # {}
Whole(scan, n) == Got(scan, n) = ChunksOf(n)

NoCatalog == [sig |-> {}, scan |-> {}, existing |-> {}, loaded |-> FALSE, known |-> FALSE]
CatalogKept == catalog
CatalogAfterWipe == NoCatalog
HyIdle == [pc |-> "idle", kind |-> "none", sig |-> {}, scan |-> {}, todo |-> {},
          owed |-> {}]

-----------------------------------------------------------------------------
(* The world around: notes, peers and the sync service.  hyJob.owed is a   *)
(* history of the notes that have been covered since a rebuild's wipe.     *)

Covered(n) == /\ ChunksOf(n) \subseteq Ids(ScanLogs)
              /\ \A c \in ChunksOf(n) : ReadRecord(ScanLogs, c)
Forget(n) == hyJob' = [hyJob EXCEPT !.owed = @ \ {n}]

Move == moves < HyMoves /\ moves' = moves + 1

ChangeNote(n) ==
  /\ Move
  /\ ver[n] < HyVersions /\ ver' = [ver EXCEPT ![n] = @ + 1]
  /\ Forget(n)
  /\ UNCHANGED <<published, local, idb, recs, catalog, savedSig, orphans>>

ForgetNote(n) ==
  /\ Move
  /\ ver[n] # 0 /\ ver' = [ver EXCEPT ![n] = 0]
  /\ Forget(n)
  /\ UNCHANGED <<published, local, idb, recs, catalog, savedSig, orphans>>

(* A peer embeds a note, or compacts away what no note has any more.       *)
PeerPublishes(p, n) ==
  /\ Move
  /\ ver[n] # 0 /\ published' = [published EXCEPT ![p] = @ \cup ChunksOf(n)]
  /\ UNCHANGED <<ver, local, idb, recs, catalog, savedSig, hyJob, orphans>>

PeerCompacts(p) ==
  /\ Move
  /\ published' = [published EXCEPT ![p] = @ \cap UNION {ChunksOf(n) : n \in HyNotes}]
  /\ UNCHANGED <<ver, local, idb, recs, catalog, savedSig, hyJob, orphans>>

(* One file of a peer reaches this disk: its meta (of this build's version *)
(* or of another), its log, or its shards.                                 *)
Deliver(p) ==
  /\ Move
  /\ \/ \E m \in {"current", "other"} :
          local' = [local EXCEPT ![p].meta = m]
     \/ local' = [local EXCEPT ![p].log = [has |-> TRUE, ids |-> published[p]]]
     \/ local' = [local EXCEPT ![p].bytes = published[p]]
  /\ UNCHANGED <<ver, published, idb, recs, catalog, savedSig, orphans>>
  /\ hyJob' = [hyJob EXCEPT !.owed = {n \in @ : /\ Covered(n)'
                                                   /\ \A scan \in {hyJob.scan} :
                                                        hyJob.pc = "walk" => Whole(scan, n)'}]

-----------------------------------------------------------------------------
(* A hydrate, under the write mutex from Inspect to its end.               *)

Idle == hyJob.pc = "idle"

(* reconcileSidecarIfChanged: skipped when no log or meta has changed.     *)
ReconcileSidecar ==
  /\ Idle
  /\ savedSig # {DirSignature} \/ FileCount = 0
  /\ hyJob' = [HyIdle EXCEPT !.pc = "inspect", !.kind = "reconcile", !.sig = {DirSignature}]
  /\ UNCHANGED <<ver, published, local, idb, recs, catalog, savedSig, orphans, moves>>

(* rebuildFromSidecar: wipes only for producers that are all here.         *)
RebuildFromSidecar ==
  /\ Idle
  /\ hyJob' = [HyIdle EXCEPT !.pc = "inspect", !.kind = "rebuild"]
  /\ UNCHANGED <<ver, published, local, idb, recs, catalog, savedSig, orphans, moves>>

(* The end of a hydrate: reconcile persists the signature it started from, *)
(* after a blocked hydrate too.                                            *)
Finish ==
  /\ hyJob' = HyIdle
  /\ savedSig' = IF hyJob.kind = "reconcile" THEN hyJob.sig ELSE savedSig

(* inspectFleet in hydrateSidecarExclusive and in rebuildFromSidecar.      *)
Blocked ==
  \/ WaitingForProducer
  \/ matchingProducers # {} /\ ~PreflightReady
  \/ hyJob.kind = "rebuild" /\ (matchingProducers = {} \/ ~PreflightReady)

Inspect ==
  /\ hyJob.pc = "inspect"
  /\ IF Blocked
     THEN Finish /\ UNCHANGED <<idb, recs, catalog>>
     ELSE /\ hyJob' = [hyJob EXCEPT !.pc = "scan",
                                    !.owed = {n \in HyLive : ChunksOf(n) \subseteq Ids(ScanLogs)}]
          /\ savedSig' = savedSig
          /\ IF hyJob.kind = "rebuild"
             THEN /\ idb' = {} /\ recs' = [n \in HyNotes |-> {}]
                  /\ catalog' = CatalogAfterWipe
             ELSE UNCHANGED <<idb, recs, catalog>>
  /\ UNCHANGED <<ver, published, local, orphans, moves>>

(* getScan and getExisting of the catalog: the scan is kept while the      *)
(* sizes of the logs are, the ids of the store while the scan is.          *)
WithCatalog ==
  IF catalog.loaded /\ catalog.sig = {ScanSignature}
    THEN IF catalog.known THEN catalog
         ELSE [catalog EXCEPT !.existing = idb, !.known = TRUE]
    ELSE [sig |-> {ScanSignature}, scan |-> ScanLogs, existing |-> idb,
          loaded |-> TRUE, known |-> TRUE]

(* hydrateFromSidecar up to its walk: no accepted log or no fresh id ends  *)
(* it.                                                                     *)
HyScan ==
  /\ hyJob.pc = "scan"
  /\ IF AcceptedLogs = {}
     THEN Finish /\ catalog' = catalog
     ELSE /\ catalog' = WithCatalog
          /\ IF Ids(catalog'.scan) \subseteq catalog'.existing
             THEN Finish
             ELSE /\ hyJob' = [hyJob EXCEPT !.pc = "walk", !.scan = catalog'.scan,
                                            !.todo = HyLive]
                  /\ savedSig' = savedSig
  /\ UNCHANGED <<ver, published, local, idb, recs, orphans, moves>>

(* selectCandidates for one note: not indexed already, some id fresh, and  *)
(* every id in the scan.                                                   *)
Candidate(scan, n) ==
  /\ ChunksOf(n) # {}
  /\ ~(ChunksOf(n) \subseteq catalog.existing)
  /\ ChunksOf(n) \subseteq Ids(scan)

(* hydrateCandidates for one note: the chunks first, then its record.      *)
PutNote(scan, n) ==
  /\ idb' = idb \cup Got(scan, n)
  /\ recs' = [recs EXCEPT ![n] = ChunksOf(n)]
  /\ catalog' = [catalog EXCEPT !.existing = @ \cup ChunksOf(n), !.known = TRUE]

(* hydrateFromSidecarGreedy: the next file of the tiers, newest first;     *)
(* the walk stops when every id of the scan is in the store.               *)
WalkNote(n) ==
  /\ hyJob.pc = "walk" /\ n \in hyJob.todo
  /\ ~(Ids(hyJob.scan) \subseteq catalog.existing)
  /\ hyJob' = [hyJob EXCEPT !.todo = @ \ {n}]
  /\ IF Candidate(hyJob.scan, n) /\ Whole(hyJob.scan, n)
     THEN PutNote(hyJob.scan, n) ELSE UNCHANGED <<idb, recs, catalog>>
  /\ UNCHANGED <<ver, published, local, savedSig, orphans, moves>>

WalkEnds ==
  /\ hyJob.pc = "walk"
  /\ hyJob.todo = {} \/ Ids(hyJob.scan) \subseteq catalog.existing
  /\ Finish
  /\ UNCHANGED <<ver, published, local, idb, recs, catalog, orphans, moves>>

-----------------------------------------------------------------------------
(* Other work under the mutex.                                             *)

HyDirty(n) == recs[n] # ChunksOf(n)

(* dedupViaSidecar for one dirty note of a delta: the stale chunks of a    *)
(* note that was hydrated go, the others stay for the embedding engine.    *)
DedupViaSidecar(n) ==
  /\ Idle /\ HyDirty(n) /\ ver[n] # 0 /\ AcceptedLogs # {}
  /\ LET cat == WithCatalog
         hit == /\ ~(Ids(cat.scan) \subseteq cat.existing)
                /\ ~(ChunksOf(n) \subseteq cat.existing)
                /\ ChunksOf(n) \subseteq Ids(cat.scan)
                /\ Whole(cat.scan, n)
     IN IF hit
        THEN /\ idb' = (idb \cup Got(cat.scan, n)) \ (recs[n] \ ChunksOf(n))
             /\ recs' = [recs EXCEPT ![n] = ChunksOf(n)]
             /\ catalog' = [cat EXCEPT !.existing = @ \cup ChunksOf(n)]
        ELSE catalog' = cat /\ UNCHANGED <<idb, recs>>
  /\ UNCHANGED <<ver, published, local, savedSig, hyJob, orphans, moves>>

(* The engine embeds what the sidecar did not cover (not on a consumer).   *)
EmbedNote(n) ==
  /\ Idle /\ HyDirty(n) /\ ver[n] # 0 /\ FleetRole # "consumer"
  /\ idb' = (idb \cup ChunksOf(n)) \ (recs[n] \ ChunksOf(n))
  /\ recs' = [recs EXCEPT ![n] = ChunksOf(n)]
  /\ UNCHANGED <<ver, published, local, catalog, savedSig, hyJob, orphans, moves>>

RemoveNote(n) ==
  /\ Idle /\ ver[n] = 0 /\ recs[n] # {}
  /\ idb' = idb \ recs[n] /\ recs' = [recs EXCEPT ![n] = {}]
  /\ UNCHANGED <<ver, published, local, catalog, savedSig, hyJob, orphans, moves>>

(* The reset of a full reindex, which does not invalidate the catalog.     *)
ClearAllStores ==
  /\ Move /\ Idle
  /\ idb' = {} /\ recs' = [n \in HyNotes |-> {}]
  /\ UNCHANGED <<ver, published, local, catalog, savedSig, hyJob, orphans>>

(* A missed delete event: the record goes and its chunks stay.             *)
LoseRecord(n) ==
  /\ Move /\ Idle /\ recs[n] # {}
  /\ recs' = [recs EXCEPT ![n] = {}]
  /\ UNCHANGED <<ver, published, local, idb, catalog, savedSig, hyJob, orphans>>

(* sweepOrphanChunks: one exclusive section finds the orphans, the next    *)
(* deletes them.                                                           *)
FindOrphans ==
  /\ Idle /\ orphans = {}
  /\ orphans' = idb \ UNION {recs[n] : n \in HyNotes}
  /\ orphans' # {}
  /\ UNCHANGED <<ver, published, local, idb, recs, catalog, savedSig, hyJob, moves>>

DeleteOrphans ==
  /\ orphans # {} /\ Idle
  /\ idb' = idb \ orphans /\ orphans' = {}
  /\ UNCHANGED <<ver, published, local, recs, catalog, savedSig, hyJob, moves>>

-----------------------------------------------------------------------------
(* The device joins a fleet: a peer has indexed the notes, and its meta may *)
(* have reached this disk.                                                 *)
HyInit ==
  /\ ver = [n \in HyNotes |-> 1]
  /\ published = [p \in HyPeers |-> UNION {ChunksOf(n) : n \in HyNotes}]
  /\ \E m \in {"none", "current"} :
       local = [p \in HyPeers |-> [meta |-> m, log |-> NoLog, bytes |-> {}]]
  /\ idb = {} /\ recs = [n \in HyNotes |-> {}]
  /\ catalog = NoCatalog /\ savedSig = {} /\ hyJob = HyIdle /\ orphans = {} /\ moves = 0

HyNext ==
  \/ \E n \in HyNotes : ChangeNote(n) \/ ForgetNote(n)
  \/ \E p \in HyPeers, n \in HyNotes : PeerPublishes(p, n)
  \/ \E p \in HyPeers : PeerCompacts(p) \/ Deliver(p)
  \/ ReconcileSidecar \/ RebuildFromSidecar \/ Inspect \/ HyScan
  \/ \E n \in HyNotes : WalkNote(n)
  \/ WalkEnds
  \/ \E n \in HyNotes : DedupViaSidecar(n) \/ EmbedNote(n) \/ RemoveNote(n) \/ LoseRecord(n)
  \/ ClearAllStores \/ FindOrphans \/ DeleteOrphans

HySpec == HyInit /\ [][HyNext]_hyVars

-----------------------------------------------------------------------------
(* Properties.                                                             *)

(* A file record never names a chunk the store lacks, whatever order the   *)
(* peers' files arrive in: it is written with all its chunks, and no step  *)
(* but the delete half of an orphan sweep takes one of them away.          *)
HyRecordsWhole ==
  [][\A n \in HyNotes :
       \/ recs'[n] \subseteq idb'
       \/ recs'[n] = recs[n] /\ (idb \ idb') \cap recs[n] \subseteq orphans]_hyVars

(* The same with no exception.  (sidecar-coordinator.ts: "Referential-     *)
(* integrity sweep: delete every chunk no FILES record references".)       *)
HyNoDangling == \A n \in HyNotes : recs[n] \subseteq idb

(* A rebuild that wiped the store gives every note back that the sidecar   *)
(* covered when it wiped, while neither the note nor the files it needs    *)
(* change under it.                                                        *)
HyRebuildRestores ==
  [][hyJob.kind = "rebuild" /\ hyJob.pc \in {"scan", "walk"} /\ hyJob'.pc = "idle"
       => \A n \in hyJob.owed :
            recs[n] = ChunksOf(n)]_hyVars

(* An empty store recovers: a reconcile that ends its scan with nothing to *)
(* fetch leaves no note out that the sidecar covers.  (sidecar-sync.ts:    *)
(* "the empty-store eviction case never reaches here as a no-op".)         *)
HyEmptyRecovers ==
  [][hyJob.pc = "scan" /\ hyJob'.pc = "idle" /\ idb = {}
       => \A n \in HyLive : ~(ChunksOf(n) \subseteq Ids(ScanLogs))]_hyVars
=============================================================================
