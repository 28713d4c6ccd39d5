---------------------------- MODULE StatusReport ----------------------------
(***************************************************************************)
(* What the plugin says about its index, as functions of its flags:         *)
(* the report of index-status-report.ts with the precedence of              *)
(* index-notice.ts and the progress of index-progress-indicator.ts, and     *)
(* the four surfaces that show it: the status bar, the footer and the body  *)
(* of the search modal, and the gate of the command line.                  *)
(*                                                                         *)
(* i is a record of the flags (getIndexStatusReport's input).  A count that *)
(* is not known is Unknown; no job and no walk have total 0; a walk that    *)
(* does not say what it needs has needed = Unknown.  Texts, percentages and *)
(* rates are left out; whether a percentage is shown is not.               *)
(***************************************************************************)
EXTENDS Integers

Unknown == -1
NoJob   == [done |-> 0, total |-> 0, kind |-> "none"]
NoWalk  == [done |-> 0, total |-> 0, needed |-> Unknown]
NoUnits == [done |-> 0, total |-> 0, determinate |-> FALSE]

Lesser(a, b) == IF a < b THEN a ELSE b
Larger(a, b) == IF a > b THEN a ELSE b

(* The value of the first row whose condition holds.                       *)
Ranked(rows) ==
  rows[CHOOSE k \in DOMAIN rows :
         rows[k][1] /\ \A j \in 1 .. (k - 1) : ~rows[j][1]][2]

-----------------------------------------------------------------------------
(* catch-up-presentation.ts.                                               *)

isSmallCatchUpPass(total, files) == total > 0 /\ files > 0 /\ 50 * total < files
isCatchUpEmbedKind(kind) == kind \in {"catchup", "delta"}

classifyCatchUpPresentation(good, files, job, active) ==
  IF ~active \/ job.total = 0 \/ ~good \/ files <= 0 \/ job.kind = "full" THEN "none"
  ELSE IF isSmallCatchUpPass(job.total, files) THEN "quiet" ELSE "moderate"

isCatchUpHeldByEnergySaver(i) ==
  /\ i.energySaver /\ ~i.catchUpRunning
  /\ ~i.hydrating /\ ~i.waiting /\ ~i.dropRecovering
  /\ i.job.kind # "full"
  /\ i.catchUpPending \/ i.dirty > 0 \/ isCatchUpEmbedKind(i.job.kind)

shouldPreferPassCountsOverCoverage(quiet, job, files) ==
  \/ quiet \/ isCatchUpEmbedKind(job.kind)
  \/ job.kind # "full" /\ isSmallCatchUpPass(job.total, files)

(* Unknown: an ellipsis is shown in the place of a count.                  *)
honestIndexingRemaining(remaining, i) ==
  CASE remaining > 0 -> remaining
    [] remaining <= 0 /\ i.dirty > 0 -> i.dirty
    [] remaining <= 0 /\ i.dirty = 0 ->
         IF i.flushing /\ i.job.total = 0 THEN Unknown ELSE remaining

-----------------------------------------------------------------------------
(* index-self-heal.ts.                                                     *)

vaultCoverageIncomplete(files, notes) == Larger(files, 0) < notes

shouldResumeIndexing(files, notes, busy) == ~busy /\ vaultCoverageIncomplete(files, notes)

staleCompleteHydrateWalk(w, notes) == w.total > 0 /\ w.done >= w.total /\ notes > w.total

(* A walk of the whole vault, or one that only verifies.                   *)
hydrateProgressAgainstVault(w, notes) ==
  IF w.total = 0 \/ (w.needed # 0 /\ notes > 0 /\ w.total < notes) THEN NoUnits
  ELSE [done |-> Lesser(w.total, w.done), total |-> w.total, determinate |-> TRUE]

applySidecarHydrateProgressUpdate(current, incoming, inFlight) ==
  IF \/ incoming.total = 0
     \/ inFlight /\ incoming.total < current.total /\ incoming.needed # 0
  THEN current ELSE incoming

resolveSidecarHydrateProgress(i) ==
  LET live  == i.hydrating \/ i.waiting \/ i.dropRecovering
      seen  == hydrateProgressAgainstVault(i.walk, i.notes)
      files == Larger(i.files, 0)
      bare  == \/ ~(live \/ (i.booting /\ ~i.goodEnough))
               \/ Larger(files, i.notes) = 0
               \/ i.walk.needed = 0 /\ files < i.notes
  IN IF live /\ seen.total > 0
     THEN IF i.walk.needed = 0 /\ files < i.notes /\ seen.total >= i.notes
          THEN NoUnits ELSE seen
     ELSE IF bare THEN NoUnits
          ELSE [done |-> files, total |-> Larger(files, i.notes), determinate |-> TRUE]

-----------------------------------------------------------------------------
(* index-notice.ts: the precedence tree, the banner, the wait for a         *)
(* producer.                                                               *)

emptyInventory(i) == i.chunks <= 0 /\ i.files <= 0
jobActive(i) == i.indexing \/ i.job.total > 0
Catch(i) == classifyCatchUpPresentation(i.goodEnough, i.files, i.job, jobActive(i))

uiRows(i) == <<
  <<i.storeLocked, "locked">>,
  <<i.stuck, "stuck">>,
  <<i.waiting \/ i.peerSync, "restoring">>,
  <<i.hydrating /\ i.goodEnough /\ ~emptyInventory(i) /\ i.chunks # Unknown, "indexing">>,
  <<i.hydrating, "restoring">>,
  <<i.booting /\ i.mayFull = "no", "restoring">>,
  <<i.booting, "starting">>,
  <<i.dropRecovering /\ ~jobActive(i), "restoring">>,
  <<i.health = "degraded" \/ i.reason = "peer-ahead", "error">>,
  <<Catch(i) = "quiet", "ok">>,
  <<Catch(i) = "moderate", "updating">>,
  <<jobActive(i), "indexing">>,
  <<i.decisionPending \/ i.chunks = Unknown, "starting">>,
  <<emptyInventory(i) /\ i.catchUpPending, "starting">>,
  <<emptyInventory(i), "none">>,
  <<TRUE, "ok">> >>
resolveIndexUiStatus(i) == Ranked(uiRows(i))

indexBannerSpec(i) == Ranked(<<
  <<i.reason = "stuck", "stuck">>,
  <<i.reason = "peer-ahead", "peer-ahead">>,
  <<i.waiting, "waiting">>,
  <<i.reason # "version", "none">>,
  <<i.peerSync, "syncing">>,
  <<i.health = "degraded", "stale">>,
  <<TRUE, "none">> >>)

(* r: what a hydrate came back with.                                       *)
resolveSidecarWait(r, chunks) ==
  r.waiting \/ (r.hydrated = 0 /\ r.skipped > 0 /\ chunks <= 0)

sidecarHydrateHealedIndex(r) == ~r.waiting /\ (r.hydrated > 0 \/ r.accepted > 0)

-----------------------------------------------------------------------------
(* index-progress-indicator.ts: the phase and the units of work.           *)

unitsFromCounts(done, total, determinate) ==
  IF total = 0 THEN NoUnits
  ELSE [done |-> Lesser(total, done), total |-> total, determinate |-> determinate]

isVerifyOnlyWalk(i) ==
  ~i.waiting /\ ~i.dropRecovering /\ i.walk.needed = 0 /\ i.notes > 0 /\ i.files >= i.notes

(* embedUnits, to which the report gives no coverage.                      *)
embedUnits(i) == unitsFromCounts(i.job.done, i.job.total, i.job.done > 0)

RestoreUnits(i) ==
  LET seen == hydrateProgressAgainstVault(i.walk, i.notes)
      raw  == IF seen.total > 0 THEN seen ELSE resolveSidecarHydrateProgress(i)
  IN unitsFromCounts(raw.done, raw.total, i.dropRecovering => raw.done > 0)

Phase(name, units) == [phase |-> name, units |-> units]

walkUnits(i) == unitsFromCounts(i.walk.done, i.walk.total, i.walk.done > 0)
shortVerify(i) ==
  /\ i.walk.needed = 0 /\ i.notes > 0 /\ Larger(i.files, 0) < i.notes
  /\ ~i.waiting /\ ~i.dropRecovering
isTier(i) == i.walk.total > 0 /\ (i.walk.total < i.notes \/ i.walk.done > 0)
restoreLive(i) ==
  \/ i.hydrating \/ i.waiting \/ i.dropRecovering
  \/ i.booting /\ i.mayFull = "no" /\ ~i.goodEnough
verifyLive(mode, i) ==
  isVerifyOnlyWalk(i) /\ (i.hydrating \/ i.booting \/ mode \in {"restoring", "starting", "verifying"})

indicatorRows(mode, i) == <<
  <<shortVerify(i) /\ i.walk.total > 0 /\ i.walk.total < i.notes, Phase("verifying", walkUnits(i))>>,
  <<shortVerify(i) /\ (i.hydrating \/ mode \in {"verifying", "restoring"}),
    Phase("verifying", NoUnits)>>,
  <<mode \in {"stuck", "locked", "error", "none"}, Phase(mode, NoUnits)>>,
  <<mode = "updating", Phase("catching-up", NoUnits)>>,
  <<verifyLive(mode, i), Phase("verifying", IF isTier(i) THEN walkUnits(i) ELSE NoUnits)>>,
  <<restoreLive(i) /\ mode # "ok" /\ (i.hydrating \/ mode # "catching-up"),
    Phase(IF i.dropRecovering THEN "recovering"
          ELSE IF i.hydrating THEN "hydrating" ELSE "restoring", RestoreUnits(i))>>,
  <<mode = "catching-up" \/ (mode = "indexing" /\ i.job.kind = "catchup"),
    Phase("catching-up", embedUnits(i))>>,
  <<mode \in {"full-reindex", "indexing"}, Phase("indexing", embedUnits(i))>>,
  <<i.catchUpPending /\ mode \in {"ok", "starting"}, Phase("catching-up", embedUnits(i))>>,
  <<mode = "starting",
    Phase("starting", IF i.files > 0 THEN unitsFromCounts(i.files, Larger(i.files, i.notes), TRUE)
                      ELSE NoUnits)>>,
  <<mode = "ok", Phase("ready", NoUnits)>>,
  <<TRUE, Phase(mode, NoUnits)>> >>
computeIndexProgressIndicator(mode, i) ==
  Ranked(indicatorRows(mode, i))

-----------------------------------------------------------------------------
(* index-status-report.ts.                                                 *)

modeRows(ui, verifying, i) == <<
  <<ui \in {"locked", "stuck", "updating"}, ui>>,
  <<verifying, "verifying">>,
  <<i.dropRecovering /\ ui \in {"restoring", "starting"}, "recovering">>,
  <<i.job.kind = "full", "full-reindex">>,
  <<ui = "indexing" /\ i.job.kind = "catchup" /\ ~i.hydrating, "catching-up">>,
  <<ui = "ok" /\ i.catchUpPending, "catching-up">>,
  <<TRUE, ui>> >>
indexStatusModeFromUi(ui, verifying, i) == Ranked(modeRows(ui, verifying, i))

healthRows(mode) == <<
  <<mode \in {"full-reindex", "catching-up"}, "indexing">>,
  <<mode = "catch-up-paused", "ok">>,
  <<mode = "recovering", "restoring">>,
  <<mode = "verifying", "starting">>,
  <<TRUE, mode>> >>
indexStatusHealth(mode) == Ranked(healthRows(mode))

Blocked == {"stuck", "locked", "error", "ok", "updating", "none", "catch-up-paused"}

isVerifying(ui, i) ==
  isVerifyOnlyWalk(i) /\ (ui \in {"restoring", "starting"} \/ (i.hydrating /\ ~i.goodEnough))

(* The mode m corrected by a small pass and by the phase of the progress;   *)
(* then by a flush over a complete inventory.                              *)
correctedRows(m, phase, quiet) == <<
  <<quiet, "ok">>,
  <<phase = "verifying", "verifying">>,
  <<phase = "catching-up" /\ m \in {"ok", "starting"}, "catching-up">>,
  <<phase = "recovering" /\ m \in {"restoring", "starting"}, "recovering">>,
  <<TRUE, m>> >>
corrected(m, phase, quiet) == Ranked(correctedRows(m, phase, quiet))

flushed(m, i) ==
  IF /\ i.notes > 0 /\ i.files >= i.notes /\ i.job.total = 0
     /\ i.dirty > 0 \/ i.flushing
     /\ m \in {"indexing", "catching-up"}
  THEN "updating" ELSE m

reported(mode, p, quiet, i) ==
  IF isCatchUpHeldByEnergySaver(i)
       /\ mode \in {"ok", "starting", "catching-up", "updating", "indexing"}
  THEN [mode |-> "catch-up-paused", health |-> indexStatusHealth("catch-up-paused"),
        quiet |-> FALSE, phase |-> "catch-up-paused", units |-> NoUnits]
  ELSE [mode |-> mode, health |-> indexStatusHealth(mode), quiet |-> quiet,
        phase |-> p.phase, units |-> IF mode \in Blocked THEN NoUnits ELSE p.units]

(* IndexStatusReporter.compute.                                            *)
computeWith(p, m, quiet, i) == reported(flushed(corrected(m, p.phase, quiet), i), p, quiet, i)
computeMode(m, i) == computeWith(computeIndexProgressIndicator(m, i), m, Catch(i) = "quiet", i)
computeUi(ui, i)  == computeMode(indexStatusModeFromUi(ui, isVerifying(ui, i), i), i)
compute(i)        == computeUi(resolveIndexUiStatus(i), i)

-----------------------------------------------------------------------------
(* index-progress-snapshot.ts: cover is what folder coverage last counted,  *)
(* rep the report.                                                         *)

(* resolveIndexProgressPhase; the hydrate walk it looks at is that of the  *)
(* indicator, or of a greedy hydrate.                                      *)
phaseRows(rep, i) == <<
  <<rep.quiet /\ rep.health = "ok", "idle">>,
  <<rep.phase = "catch-up-paused", "idle">>,
  <<"error" \in {rep.health, rep.phase}, "error">>,
  <<"locked" \in {rep.health, rep.phase}, "locked">>,
  <<"stuck" \in {rep.health, rep.phase}, "stuck">>,
  <<rep.phase = "verifying", "verify">>,
  <<rep.phase \in {"hydrating", "restoring", "recovering"}, "hydrate">>,
  <<rep.mode = "indexing" /\ i.hydrating /\ rep.units.total > 0 /\ rep.units.determinate, "hydrate">>,
  <<rep.phase = "starting" \/ rep.health = "starting", "starting">>,
  <<rep.health = "restoring", "hydrate">>,
  <<rep.phase \in {"catching-up", "indexing"}, "embed">>,
  <<i.job.total > 0 /\ (rep.health = "indexing" \/ i.job.done < i.job.total), "embed">>,
  <<rep.health = "indexing", "embed">>,
  <<TRUE, "idle">> >>
resolveIndexProgressPhase(rep, i) == Ranked(phaseRows(rep, i))

(* buildIndexProgressSnapshot: the counts that are shown, and the job the   *)
(* modal is given, which in a hydrate is the walk.                         *)
isWalk(phase, rep)     == phase \in {"hydrate", "verify"} /\ rep.units.total > 0
isEmbed(phase, rep, i) == phase = "embed" /\ (i.job.total > 0 \/ rep.units.total > 0)

countRows(phase, files, rep, i, cover) == <<
  <<isWalk(phase, rep), <<rep.units.done, rep.units.total>> >>,
  <<isEmbed(phase, rep, i) /\ i.job.total > 0
      /\ shouldPreferPassCountsOverCoverage(rep.quiet, i.job, files), <<i.job.done, i.job.total>> >>,
  <<cover.total > 0, <<cover.done, cover.total>> >>,
  <<phase = "embed" /\ files > 0, <<files, Larger(files, i.job.total)>> >>,
  <<isEmbed(phase, rep, i), <<i.job.done, i.job.total>> >>,
  <<files > 0, <<files, Larger(files, i.notes)>> >>,
  <<TRUE, <<0, 0>> >> >>
snapshotCounts(phase, files, rep, i, cover) == Ranked(countRows(phase, files, rep, i, cover))

snapshotWith(phase, counts, rep, i) ==
  LET left == IF counts[2] = 0 THEN Unknown ELSE Larger(0, counts[2] - counts[1])
  IN [phase |-> phase, done |-> counts[1], total |-> counts[2],
      job |-> IF isWalk(phase, rep) \/ isEmbed(phase, rep, i)
              THEN [done |-> counts[1], total |-> counts[2], kind |-> i.job.kind]
              ELSE NoJob,
      remaining |-> IF rep.mode \in {"indexing", "full-reindex", "catching-up"}
                    THEN honestIndexingRemaining(left, i) ELSE left]

snapshotOf(phase, rep, i, cover) ==
  snapshotWith(phase, snapshotCounts(phase, Larger(i.files, 0), rep, i, cover), rep, i)

buildIndexProgressSnapshot(rep, i, cover) ==
  snapshotOf(resolveIndexProgressPhase(rep, i), rep, i, cover)

-----------------------------------------------------------------------------
(* The surfaces.                                                           *)

(* paintFromSnapshot: what the status bar's chrome stands for.             *)
chromeRows(rep, snap) == <<
  <<rep.quiet, "ok">>,
  <<rep.mode = "catch-up-paused", "paused">>,
  <<snap.phase = "embed" /\ rep.health # "updating" /\ snap.total > 0, "indexing">>,
  <<TRUE, rep.health>> >>
paintFromSnapshot(rep, snap) == Ranked(chromeRows(rep, snap))

\* Mutant: the modal believes its own probe.
ProbedChunks(probe, rep, i) == probe

(* The modal's own probe of the store, or the inventory when the probe says *)
(* zero while the report says ok.                                          *)
effectiveModalChunks(probe, rep, i) ==
  IF rep.health = "ok" /\ probe <= 0 /\ i.chunks > 0 THEN i.chunks ELSE probe

resolveIndexLoadPhase(i, writing) ==
  IF i.loading THEN "hydrating" ELSE IF i.indexing \/ writing THEN "indexing" ELSE "idle"

loadRows(probe, rep, snap, i, writing) ==
  LET chunks == effectiveModalChunks(probe, rep, i)
      phase  == resolveIndexLoadPhase(i, writing)
  IN <<
  <<rep.health \in {"locked", "stuck"}, rep.health>>,
  <<snap.job.kind = "full" /\ phase = "indexing", "indexing">>,
  <<chunks > 0, "resting">>,
  <<i.waiting, "restoring">>,
  <<phase = "hydrating", "starting">>,
  <<chunks = Unknown,
    IF i.catchUpPending \/ phase = "indexing" THEN "starting" ELSE "resting">>,
  <<phase = "indexing", "indexing">>,
  <<i.catchUpPending, "starting">>,
  <<TRUE, "onboarding">> >>
indexLoadSpec(probe, rep, snap, i, writing) ==
  Ranked(loadRows(probe, rep, snap, i, writing))

isIndexWaitKind(kind) == kind \in {"starting", "restoring", "indexing", "locked", "stuck"}

isInventoryCompleteFlush(snap, i) ==
  LET raw == IF snap.remaining = Unknown /\ snap.job.total > 0
             THEN Larger(0, snap.job.total - snap.job.done) ELSE snap.remaining
  IN raw = 0 \/ (raw = Unknown /\ (i.flushing \/ i.dirty > 0))

footerCatchUpPresentation(load, rep, snap, i, writing) ==
  IF rep.quiet THEN "quiet"
  ELSE classifyCatchUpPresentation(i.goodEnough, i.files, snap.job,
         \/ resolveIndexLoadPhase(i, writing) = "indexing" \/ load = "indexing"
         \/ rep.health \in {"indexing", "updating"} \/ snap.job.total > 0)

(* indexFooterStatusCore, to which the plugin always gives the report.     *)
footerRows(load, rep, snap, i, writing, modelReady) ==
  LET pass == footerCatchUpPresentation(load, rep, snap, i, writing) IN <<
  <<rep.health \in {"locked", "stuck", "restoring", "starting", "error"}, rep.health>>,
  <<rep.mode = "catch-up-paused", "up-to-date">>,
  <<pass = "quiet", "up-to-date">>,
  <<pass = "moderate", "updating">>,
  <<rep.health = "updating", "updating">>,
  <<rep.mode = "catching-up", "indexing">>,
  <<rep.health = "indexing",
    IF isInventoryCompleteFlush(snap, i) THEN "updating" ELSE "indexing">>,
  <<~modelReady, "model-loading">>,
  <<rep.health = "none", "no-index">>,
  <<TRUE, "up-to-date">> >>
indexFooterStatus(load, rep, snap, i, writing, modelReady) ==
  Ranked(footerRows(load, rep, snap, i, writing, modelReady))

(* resolveCliSearchGate: "serve", "warming" (words only), or a refusal.    *)
gateRows(chunks, warm, rep, i) ==
  LET says(s) == s \in {warm, rep.health}
  IN <<
  <<rep.health = "locked", "locked">>,
  <<rep.health = "stuck", IF chunks > 0 THEN "serve" ELSE "stuck">>,
  <<i.job.kind = "full", "indexing">>,
  <<chunks > 0, IF says("starting") \/ says("restoring") THEN "warming" ELSE "serve">>,
  <<says("starting"), "starting">>,
  <<says("restoring"), "restoring">>,
  <<rep.health = "indexing", "indexing">>,
  <<chunks = Unknown, "starting">>,
  <<TRUE, "no-index">> >>
resolveCliSearchGate(chunks, warm, rep, i) ==
  Ranked(gateRows(chunks, warm, rep, i))
=============================================================================
