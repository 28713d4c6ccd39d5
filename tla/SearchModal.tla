---------------------------- MODULE SearchModal ----------------------------
(***************************************************************************)
(* The search modal of src/src/ui/search-modal.ts, and the ends of it in   *)
(* src/src/main.ts: the debounce, the runs of runSearch with their cold    *)
(* path while the model loads, what they paint and when they find that     *)
(* they are stale, the poll that repeats a query as the index fills, the   *)
(* keyboard model, closing and opening again; beside one headless query.   *)
(*                                                                         *)
(* An action is what runs between two awaits.  currentSearch is a stamp    *)
(* that is only compared for equality: here it is the run that carries it, *)
(* or 0 for none, and a run that has ended frees its number.  The layout   *)
(* of the window, the preview, pills and suggestions are left out.         *)
(***************************************************************************)
EXTENDS SearchQuery, Integers

CONSTANTS
    MdBothers,
    MdFlips       \* how often the resident frame comes and goes

ASSUME SearchConstants == SearchSlots \in Nat \ {0} /\ MdFlips \in Nat

VARIABLES
    md,           \* the open modal
    run,          \* its runs, and those of the modals closed before it
    model,        \* the plugin's model: idle, loading, ready
    headless,     \* the headless query: none, model, search
    count,        \* queryInFlightCount
    recents,      \* the recent searches there are, none or some
    stored,       \* the chunks of the store
    warming,      \* the index is being restored or built
    flips,        \* of the frame, and
    opened,       \* the modal has been: bounds
    bother        \* what one behaviour is about besides typing

mdVars == <<sqVars, md, run, model, headless, count, recents, stored, warming, flips, opened, bother>>

Runs   == 1 .. SearchSlots
Page   == 1          \* PAGE_SIZE: half of what a search finds
NoText == "none"     \* no latestSearchEntry; texts are those of Queries and ""
NoKey  == <<>>

Smaller(a, b) == IF a < b THEN a ELSE b
Larger(a, b)  == IF a > b THEN a ELSE b

-----------------------------------------------------------------------------
(* The footer's ladder (pipeline-stage.ts).                                *)

Ladder0 == [name |-> "pending", lexical |-> "pending", hybrid |-> "pending"]
LadderDone == [name |-> "done", lexical |-> "done", hybrid |-> "done"]

nextPipelineStage(p, event) ==
    CASE event = "query" -> [Ladder0 EXCEPT !.name = "active"]
      [] event = "name" ->
            IF p.name # "active" THEN p ELSE [p EXCEPT !.name = "done", !.lexical = "active"]
      [] event \in {"lexical", "exact"} ->
            IF "active" \notin {p.name, p.lexical} THEN p
            ELSE [name |-> IF p.name = "active" THEN "done" ELSE p.name,
                  lexical |-> "done",
                  hybrid |-> IF p.hybrid = "pending" THEN "active" ELSE p.hybrid]
      [] event = "final" -> LadderDone
      [] event = "clear" -> Ladder0

\* An exact query has two rungs, and no event of it is out of place.
exactStage(event) ==
    CASE event = "query" -> [Ladder0 EXCEPT !.name = "active"]
      [] event = "name" -> [Ladder0 EXCEPT !.name = "done"]
      [] event \in {"lexical", "exact", "final"} -> LadderDone
      [] event = "clear" -> Ladder0

Advance(d, event) ==
    [d EXCEPT !.pipe = IF d.text \in {"exact", "broken"} THEN exactStage(event)
                       ELSE nextPipelineStage(d.pipe, event)]

-----------------------------------------------------------------------------
(* Painting: what becomes of the modal d.                                  *)

clearRows(d)     == [d EXCEPT !.shown = 0, !.dom = {}]
Replaced(d, dom) == [clearRows(d) EXCEPT !.rows = 0, !.dim = FALSE, !.dom = dom]

renderStatus(d, what) == Replaced(d, {what})
renderNoIndex(d)      == Replaced(d, {"noindex"})
renderSkeleton(d)     == Replaced(d, {"skeleton"})

renderResting(d)      == Replaced(d, IF recents THEN {"recents"} ELSE {})

\* indexLoadSpec over the chunks the modal has last seen.
LoadKind(d) ==
    CASE d.chunks > 0 -> "resting"
      [] d.chunks <= 0 /\ warming -> "starting"
      [] d.chunks < 0 /\ ~warming -> "resting"
      [] OTHER -> "onboarding"

renderEmpty(d) ==
    IF LoadKind(d) = "onboarding" THEN renderNoIndex(d) ELSE renderResting(d)

renderEmptyQuery(d, kind) ==
    CASE kind = "onboarding" -> renderNoIndex(d)
      [] kind = "starting"   -> renderResting(d)
      [] OTHER -> [clearRows(d) EXCEPT !.dom = {"empty"}]

\* renderResults: rows are reused, placeholders go, the selection is clamped.
\* It does not touch the recents (see MdRecentsWiped).
renderResults(d, n) ==
    IF n = 0
      THEN [renderEmptyQuery(d, LoadKind(d)) EXCEPT !.dim = FALSE, !.rows = 0]
      ELSE [d EXCEPT !.dim = FALSE, !.rows = n, !.kind = "resting",
               !.chunks = IF @ = 0 THEN n ELSE @,
               !.dom = @ \cap {"recents"},
               !.shown = Smaller(Page, n),
               !.sel = Smaller(@, Smaller(Page, n) - 1)]

paintWarmupHint(d) == [d EXCEPT !.dom = @ \cup {"hint"}]

setSearching(d) == IF d.shown > 0 THEN [d EXCEPT !.dim = TRUE] ELSE renderSkeleton(d)

Partial(d, kind, t) ==
    Advance(IF kind = "lexical" THEN paintWarmupHint(renderResults(d, 2))
                                ELSE renderResults(d, 2), t.emit)

-----------------------------------------------------------------------------
(* The state.                                                              *)

NewModal(open, text, ready) ==
    [open |-> open, text |-> text, current |-> 0, ctl |-> 0, timer |-> text # "",
     inFlight |-> 0, sel |-> 0, rows |-> 0, shown |-> 0, dom |-> {}, dim |-> FALSE,
     pipe |-> Ladder0, entry |-> NoText, key |-> NoKey, kind |-> "resting",
     chunks |-> -1, frameSeen |-> FALSE, ready |-> ready, failed |-> FALSE, lost |-> FALSE]

Closed == NewModal(FALSE, "", FALSE)

NoRun == [at |-> "none", mine |-> FALSE]

MdInit ==
    /\ SqInit
    /\ md = Closed
    /\ run = [i \in Runs |-> NoRun]
    /\ model \in {"idle", "ready"}
    /\ headless = "none" /\ count = 0
    /\ recents = FALSE
    /\ stored \in Hits /\ (hasFrame => stored > 0)
    /\ warming \in BOOLEAN
    /\ flips = 0
    /\ bother \in MdBothers
    /\ opened = FALSE
    /\ bother # "index" => stored = 2 /\ ~warming
    /\ bother \in {"keys", "switch"} => hasFrame
    /\ bother = "keys" => model = "ready"
    /\ bother = "vault" => model = "idle" /\ ~hasFrame

MdTypeOK ==
    /\ SqTypeOK
    /\ md.text \in Queries \cup {""} /\ md.entry \in Queries \cup {NoText}
    /\ md.current \in 0..SearchSlots /\ md.ctl \in 0..SearchSlots
    /\ md.inFlight \in 0..SearchSlots
    /\ md.rows \in Hits /\ md.shown \in 0..2 /\ md.sel \in 0..2
    /\ md.dom \subseteq {"recents", "skeleton", "empty", "status", "noindex", "hint"}
    /\ md.chunks \in {-1} \cup Hits
    /\ md.kind \in {"resting", "starting", "onboarding"}
    /\ run \in [Runs -> [at : {"none", "lexical", "model", "search"}, mine : BOOLEAN]]
    /\ model \in {"idle", "loading", "ready"}
    /\ headless \in {"none", "model", "search"} /\ count \in Nat

Only(c) == {c} \ {0}

Typed == {""} \cup CASE bother = "switch" -> {"words", "exact"}
                     [] bother \in Queries -> {bother}
                     [] OTHER -> {"words"}

\* A run may touch the modal: it is the newest, and the modal is the one it
\* was started from.
Live(i) == md.open /\ run[i].mine /\ md.current = i

-----------------------------------------------------------------------------
(* Typing and the debounce.                                                *)

\* scheduleSearch: a changed text gives up the search it replaces, an empty
\* one also its claim to paint.
Retyped(d) == [d EXCEPT !.sel = 0, !.key = NoKey, !.lost = FALSE]
\* A mutated form: the run in flight keeps its claim to paint.
ClearedUnclaimed(d) ==
    renderEmpty(Advance([d EXCEPT !.text = "", !.timer = FALSE, !.entry = NoText], "clear"))

Cleared(d) ==
    renderEmpty(Advance([d EXCEPT !.text = "", !.timer = FALSE, !.current = 0, !.entry = NoText],
                        "clear"))
Armed(d, t) == [d EXCEPT !.text = t, !.timer = TRUE]

Type(t) ==
    /\ bother # "index" /\ md.open
    /\ \/ t # md.text /\ superseded' = superseded \cup Only(md.ctl)
          /\ md' = IF t = "" THEN Cleared(Retyped(md)) ELSE Armed(Retyped(md), t)
       \/ t = md.text /\ UNCHANGED superseded
          /\ md' = IF t = "" THEN Cleared(md) ELSE Armed(md, t)
    /\ UNCHANGED <<call, hasFrame, vaultLex, run, model, headless, count, recents,
                   stored, warming, flips, opened, bother>>

\* The search itself: the plugin is told of the first one in flight.
BeginSearch(d, i, text, gone) ==
    /\ md' = [setSearching(d) EXCEPT !.inFlight = @ + 1]
    /\ count' = IF d.inFlight = 0 THEN count + 1 ELSE count
    /\ run' = [run EXCEPT ![i] = [at |-> "search", mine |-> TRUE]]
    /\ call' = [call EXCEPT ![i] = Started("full", text, gone)]

\* runSearch, up to its first await, in a modal that reads d.
Claimed(d, i) ==
    Advance([d EXCEPT !.current = i, !.ctl = i, !.timer = FALSE, !.lost = FALSE], "query")

StartRun(d, i) ==
    /\ superseded' = (superseded \cup Only(d.ctl)) \ {i}
    /\ \/ d.ready /\ BeginSearch(Claimed(d, i), i, d.text, FALSE)
       \/ /\ ~d.ready /\ ~d.failed
          /\ md' = Claimed(d, i)
          /\ run' = [run EXCEPT ![i] = [at |-> "lexical", mine |-> TRUE]]
          /\ call' = [call EXCEPT ![i] = Started("lexical", d.text, FALSE)]
          /\ UNCHANGED count
       \/ /\ ~d.ready /\ d.failed
          /\ md' = [renderStatus(Claimed(d, i), "status") EXCEPT !.ctl = 0, !.lost = TRUE]
          /\ UNCHANGED <<run, call, count>>

\* Bound: beside the headless query, one run at a time.
FreeRun(i) ==
    /\ bother = "vault" => i = 1
    /\ run[i].at = "none" /\ \A j \in 1..(i-1) : run[j].at # "none"

Fire(i) ==
    /\ md.timer /\ FreeRun(i)
    /\ StartRun(md, i)
    /\ UNCHANGED <<hasFrame, vaultLex, model, headless, recents, stored, warming, flips, opened, bother>>

-----------------------------------------------------------------------------
(* A run.                                                                  *)

\* A step of its call; what it finds is painted if the run is live.
Painted(i, t) == IF t.emit # "none" /\ Live(i) THEN Partial(md, call[i].kind, t) ELSE md

Step(i) ==
    /\ run[i].at \in {"lexical", "search"}
    /\ \E t \in SqSteps(i) :
          /\ t.stage \notin Ended
          /\ call' = Moved(i, t)
          /\ vaultLex' \in VaultLexAfter(i, t)
          /\ md' = Painted(i, t)
    /\ UNCHANGED <<superseded, hasFrame, run, model, headless, count, recents, stored,
                   warming, flips, opened, bother>>

\* The finally of runSearch.
EndRun(d, i, calls) ==
    /\ md' = [d EXCEPT !.ctl = IF run[i].mine /\ @ = i THEN 0 ELSE @]
    /\ run' = [run EXCEPT ![i] = NoRun]
    /\ call' = [calls EXCEPT ![i] = NoCall]
    /\ superseded' = superseded \ {i}

\* The rows the lexical search found, or a word on the wait for the model.
Found(d, hits) ==
    IF hits > 0 /\ d.rows = 0 THEN paintWarmupHint(renderResults(d, 2)) ELSE d
Told(d) ==
    IF d.rows = 0 /\ d.entry = NoText /\ LoadKind(d) # "starting"
      THEN renderStatus(d, "status") ELSE d

\* searchLexicalOnly settles.  An error of its own leaves runSearch, and the
\* list as it is.
LexicalEnds(i) ==
    /\ run[i].at = "lexical"
    /\ \E t \in SqSteps(i) :
          /\ t.stage \in Ended
          /\ \/ /\ t.stage = "answered" /\ Live(i)
                /\ md' = Told(Found(Painted(i, t), t.hits))
                /\ run' = [run EXCEPT ![i].at = "model"]
                /\ call' = [Moved(i, t) EXCEPT ![i].hits = 0]
                /\ UNCHANGED superseded
             \/ /\ t.stage # "answered" \/ ~Live(i)
                /\ EndRun([Painted(i, t) EXCEPT !.lost = @ \/ (t.stage = "failed" /\ Live(i))],
                          i, Moved(i, t))
    /\ UNCHANGED <<hasFrame, vaultLex, model, headless, count, recents, stored,
                   warming, flips, opened, bother>>

\* modelReadyPromise has settled.
ModelAwaited(i) ==
    /\ run[i].at = "model"
    /\ \/ Live(i) /\ md.ready /\ BeginSearch(md, i, call[i].text, i \in superseded) /\ UNCHANGED superseded
       \/ Live(i) /\ md.failed /\ EndRun([renderStatus(md, "status") EXCEPT !.lost = TRUE], i, call)
             /\ UNCHANGED count
       \/ ~Live(i) /\ (run[i].mine => md.ready \/ md.failed) /\ EndRun(md, i, call)
             /\ UNCHANGED count
    /\ UNCHANGED <<hasFrame, vaultLex, model, headless, recents, stored, warming, flips, opened, bother>>

\* endInFlight; a modal that was closed has settled its account then.
Landed(d, i) == IF run[i].mine THEN [d EXCEPT !.inFlight = @ - 1] ELSE d

Answered(d, text, hits) ==
    Advance(IF text = "broken" THEN renderStatus([d EXCEPT !.entry = text], "status")
            ELSE renderResults([d EXCEPT !.entry = text], hits), "final")

Shown(d, i, t) ==
    CASE t.stage = "answered" /\ Live(i) -> Answered(d, call[i].text, t.hits)
      [] t.stage = "failed" /\ Live(i) -> [renderStatus(d, "status") EXCEPT !.lost = TRUE]
      [] OTHER -> d

\* search() settles.
SearchEnds(i) ==
    /\ run[i].at = "search"
    /\ \E t \in SqSteps(i) :
          /\ t.stage \in Ended
          /\ EndRun(Shown(Landed(Painted(i, t), i), i, t), i, Moved(i, t))
    /\ count' = IF run[i].mine /\ md.inFlight = 1 THEN Larger(0, count - 1) ELSE count
    /\ UNCHANGED <<hasFrame, vaultLex, model, headless, recents, stored, warming, flips, opened, bother>>

-----------------------------------------------------------------------------
(* The model, the index, and the poll that watches it.                     *)

\* ensureModelLoaded settles: the modal that waits for it takes note before the
\* run behind it goes on, and the headless query searches or ends.
Waits == md.open /\ ~md.ready /\ ~md.failed

Loaded ==
    /\ model' = "ready"
    /\ md' = CASE ~Waits -> md
                [] Waits /\ md.text = "" -> renderEmpty([md EXCEPT !.ready = TRUE])
                [] OTHER -> [md EXCEPT !.ready = TRUE]
    /\ \/ /\ headless = "model" /\ headless' = "search"
          /\ call' = [call EXCEPT ![Headless] = Started("full", "words", FALSE)]
       \/ headless # "model" /\ UNCHANGED <<headless, call>>
    /\ UNCHANGED count

NotLoaded ==
    /\ model' = "idle"
    /\ md' = CASE ~Waits -> md
                [] Waits /\ md.text = "" -> renderStatus([md EXCEPT !.failed = TRUE], "status")
                [] OTHER -> [md EXCEPT !.failed = TRUE]
    /\ \/ headless = "model" /\ headless' = "none" /\ count' = Larger(0, count - 1)
       \/ headless # "model" /\ UNCHANGED <<headless, count>>
    /\ UNCHANGED call

ModelSettles ==
    /\ model = "loading"
    /\ Loaded \/ NotLoaded
    /\ UNCHANGED <<superseded, hasFrame, vaultLex, run, recents, stored, warming, flips,
                   opened, bother>>

\* checkIndexState, its one read included: a query that found nothing is repeated
\* when there is more to find, any query when the frame has just come; once for
\* each such state.
Seen(d, n, kind) ==
    [d EXCEPT !.chunks = IF n < 0 THEN @ ELSE n, !.kind = kind, !.frameSeen = hasFrame]

Retries(n, kind) ==
    /\ md.text # "" /\ md.inFlight = 0 /\ <<n, kind, hasFrame>> # md.key
    /\ \/ hasFrame /\ ~md.frameSeen
       \/ /\ md.rows = 0
          /\ n > md.chunks \/ (md.kind = "starting" /\ kind # "starting")

Repainted(d, kind, counted) ==
    IF kind = md.kind /\ ~counted THEN d
    ELSE IF md.text = "" THEN renderEmpty(d)
    ELSE IF md.rows = 0 THEN renderEmptyQuery(d, kind) ELSE d

Poll(i) ==
    /\ bother = "index" /\ md.open
    /\ \E n \in {stored, -1} : \E kind \in {LoadKind(Seen(md, n, "resting"))} :
          \/ /\ Retries(n, kind) /\ FreeRun(i)
             /\ StartRun([Seen(md, n, kind) EXCEPT !.key = <<n, kind, hasFrame>>], i)
          \/ /\ ~Retries(n, kind) /\ i = 1
             /\ \E counted \in {FALSE, warming} :   \* the files left have changed
                   md' = Repainted(Seen(md, n, kind), kind, counted)
             /\ UNCHANGED <<superseded, run, call, count>>
    /\ UNCHANGED <<hasFrame, vaultLex, model, headless, recents, stored, warming, flips,
                   opened, bother>>

-----------------------------------------------------------------------------
(* Keys, opening, closing.                                                 *)

MoveSelection ==
    /\ bother = "keys" /\ md.rows > 0
    /\ \E dir \in {-1, 1} :
          LET next == Smaller(Larger(0, md.sel + dir), md.rows - 1)
          IN md' = [md EXCEPT !.sel = next,
                       !.shown = IF next < @ THEN @
                                 ELSE Smaller(Larger(next + 1, @ + Page), md.rows)]
    /\ UNCHANGED <<sqVars, run, model, headless, count, recents, stored, warming, flips, opened, bother>>

Hover ==
    /\ bother = "keys"
    /\ \E row \in 0 .. md.shown - 1 : md' = [md EXCEPT !.sel = row]
    /\ UNCHANGED <<sqVars, run, model, headless, count, recents, stored, warming, flips, opened, bother>>

\* The sentinel scrolls into view.
RevealMore ==
    /\ bother = "keys" /\ md.shown < md.rows
    /\ md' = [md EXCEPT !.shown = Smaller(@ + Page, md.rows)]
    /\ UNCHANGED <<sqVars, run, model, headless, count, recents, stored, warming, flips, opened, bother>>

\* openResult: the search counts as made; the modal may stay.
OpenResult ==
    /\ bother \in {"keys", "close"} /\ md.rows > 0
    /\ recents' = TRUE
    /\ UNCHANGED <<sqVars, md, run, model, headless, count, stored, warming, flips, opened, bother>>

\* A mutated form: the count is left to the searches that are still in flight.
CloseUnsettled ==
    /\ bother \in {"close", "vault"} /\ md.open
    /\ recents' = (recents \/ (md.rows > 0 /\ md.text # ""))
    /\ superseded' = superseded \cup Only(md.ctl)
    /\ run' = [i \in Runs |-> [run[i] EXCEPT !.mine = FALSE]]
    /\ md' = Closed
    /\ UNCHANGED <<call, hasFrame, vaultLex, model, headless, count, stored, warming, flips, opened, bother>>

Close ==
    /\ bother \in {"close", "vault"} /\ md.open
    /\ recents' = (recents \/ (md.rows > 0 /\ md.text # ""))
    /\ superseded' = superseded \cup Only(md.ctl)
    /\ count' = IF md.inFlight # 0 THEN Larger(0, count - 1) ELSE count
    /\ run' = [i \in Runs |-> [run[i] EXCEPT !.mine = FALSE]]
    /\ md' = Closed
    /\ UNCHANGED <<call, hasFrame, vaultLex, model, headless, stored, warming, flips, opened, bother>>

\* openSearchModal, with the query of a link or none; a load that failed is retried.
Open ==
    /\ ~md.open /\ (bother = "close" \/ ~opened)
    /\ opened' = TRUE
    /\ model' = IF model = "ready" THEN model ELSE "loading"
    /\ \E t \in Typed :
          md' = renderEmpty(NewModal(TRUE, t, model = "ready"))
    /\ UNCHANGED <<sqVars, run, headless, count, recents, stored, warming, flips, bother>>

\* withQueryInFlight around a command's search.
HeadlessStarts ==
    /\ bother = "vault" /\ headless = "none"
    /\ count' = count + 1
    /\ \/ /\ model = "ready" /\ headless' = "search"
          /\ call' = [call EXCEPT ![Headless] = Started("full", "words", FALSE)]
          /\ UNCHANGED model
       \/ /\ model # "ready" /\ headless' = "model" /\ model' = "loading"
          /\ UNCHANGED call
    /\ UNCHANGED <<superseded, hasFrame, vaultLex, md, run, recents, stored, warming, flips, opened, bother>>

HeadlessStep ==
    /\ \E t \in SqSteps(Headless) :
          /\ t.stage \notin Ended
          /\ call' = Moved(Headless, t) /\ vaultLex' \in VaultLexAfter(Headless, t)
    /\ UNCHANGED <<superseded, hasFrame, md, run, model, headless, count, recents, stored,
                   warming, flips, opened, bother>>

HeadlessEnds ==
    /\ headless = "search"
    /\ \E t \in SqSteps(Headless) :
          t.stage \in Ended /\ call' = [Moved(Headless, t) EXCEPT ![Headless] = NoCall]
    /\ headless' = "none" /\ count' = Larger(0, count - 1)
    /\ UNCHANGED <<superseded, hasFrame, vaultLex, md, run, model, recents, stored,
                   warming, flips, opened, bother>>

-----------------------------------------------------------------------------
(* What happens to the index and the vault meanwhile.                      *)

StoreFills == stored = 0 /\ stored' = 2 /\ UNCHANGED <<hasFrame, vaultLex, warming, flips>>
WarmingEnds == warming /\ warming' = FALSE /\ UNCHANGED <<hasFrame, vaultLex, stored, flips>>
VaultChanges ==
    /\ bother = "vault" /\ vaultLex = "fresh" /\ vaultLex' = "stale" /\ UNCHANGED <<hasFrame, stored, warming, flips>>
FrameFlips ==
    /\ bother = "index" /\ stored > 0 /\ flips < MdFlips
    /\ hasFrame' = ~hasFrame /\ flips' = flips + 1
    /\ UNCHANGED <<vaultLex, stored, warming>>

IndexMoves ==
    /\ StoreFills \/ WarmingEnds \/ VaultChanges \/ FrameFlips
    /\ UNCHANGED <<call, superseded, md, run, model, headless, count, recents, opened, bother>>

MdNext ==
    \/ \E t \in Typed : Type(t)
    \/ \E i \in Runs : Fire(i) \/ Step(i) \/ LexicalEnds(i) \/ ModelAwaited(i)
                        \/ SearchEnds(i) \/ Poll(i)
    \/ ModelSettles
    \/ MoveSelection \/ Hover \/ RevealMore \/ OpenResult \/ Close \/ Open
    \/ HeadlessStarts \/ HeadlessStep \/ HeadlessEnds
    \/ IndexMoves

MdSpec == MdInit /\ [][MdNext]_mdVars

-----------------------------------------------------------------------------
(* Safety.                                                                 *)

(* queryInFlightCount, which holds all indexing, is the headless query and *)
(* the one edge of a modal that has searches in flight: whichever searches *)
(* overlap, fail, are superseded, or outlive the modal they were typed in, *)
(* it neither sticks above zero nor is cleared by somebody else's end.     *)
MdInFlight ==
    /\ count = Cardinality({"headless" : h \in {headless} \ {"none"}}
                           \cup {"modal" : n \in {md.inFlight} \ {0}})
    /\ md.inFlight = Cardinality({i \in Runs : run[i].mine /\ run[i].at = "search"})

\* Nothing is typed, and no run of this modal is on its way.
Resting == md.open /\ ~md.timer /\ \A i \in Runs : ~run[i].mine

(* What the list shows belongs to the text in the field.  An empty field   *)
(* shows no result, however many searches are still in flight; a modal at  *)
(* rest has answered its text, undimmed and with the ladder at its end,    *)
(* unless its last search threw; and the row that Enter opens is on        *)
(* screen.                                                                 *)
MdSettled ==
    /\ md.rows > 0 => md.sel < md.shown /\ md.shown <= md.rows
    /\ md.text = "" => /\ md.rows = 0 /\ ~md.dim /\ "skeleton" \notin md.dom
                       /\ md.pipe = Ladder0
    /\ Resting /\ md.text # "" /\ ~md.lost =>
          /\ md.entry = md.text /\ ~md.dim /\ "skeleton" \notin md.dom
          /\ md.pipe = LadderDone

-----------------------------------------------------------------------------
(* What a comment says, and the code does not keep.                        *)

(* search-modal.ts: recents are "painted only into the resting state [...] *)
(* so they never sit under results"; the cold path clears nothing before   *)
(* it paints.                                                              *)
MdRecentsWiped == md.rows > 0 => "recents" \notin md.dom

(* search-modal.ts: a query typed while the model loads is upgraded "when  *)
(* the model loads"; an error of its lexical half ends the run.            *)
MdUpgraded == Resting /\ md.text # "" /\ md.lost => md.failed \/ "status" \in md.dom

-----------------------------------------------------------------------------
(* Liveness.                                                               *)

(* Once nobody types, the modal comes to rest or is closed: no run waits   *)
(* for ever for the model, for the index over the vault another search is  *)
(* building, or for its own partial, and no repetition repeats for ever.   *)
MdRests == <>[]~md.timer => []<>(~md.open \/ Resting)
=============================================================================
