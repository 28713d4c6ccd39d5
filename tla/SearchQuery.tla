---------------------------- MODULE SearchQuery ----------------------------
(***************************************************************************)
(* The calls of search() and searchLexicalOnly() in                        *)
(* src/src/search/search-query.ts, from one await to the next: what they   *)
(* paint on the way (onPartial), where they notice that they are           *)
(* superseded (throwIfAborted), and the lexical index over the vault that  *)
(* they share.                                                             *)
(*                                                                         *)
(* A query is its kind, rows are a number: none or two.  Scores and        *)
(* snippets are left out; what the resident frame holds is in              *)
(* ResidentCaches, here it is there or not.                                *)
(***************************************************************************)
EXTENDS Naturals, FiniteSets

CONSTANT SearchSlots   \* the searches of the modal that overlap at most

Headless == 0          \* the call of a command or a link: no signal, no partials
SqIds == Headless .. SearchSlots

Words   == {"words", "more"}
Queries == Words \cup {"exact", "broken", "filters"}
Hits    == {0, 2}

VARIABLES
    call,         \* the calls: kind, query, the await they stand at, rows so far
    superseded,   \* the calls whose AbortSignal is aborted
    hasFrame,     \* peekResidentFrame() answers
    vaultLex      \* SearchQuery.vaultLex: none, of another vault, of this one

sqVars == <<call, superseded, hasFrame, vaultLex>>

VaultStages == {"vname", "vnamed", "vwait", "vbuild", "vgot"}
Ended == {"answered", "failed", "aborted"}
Stages == {"idle", "read", "yield", "browse", "name", "bm25", "lex", "embed",
           "log"} \cup VaultStages \cup Ended

NoCall == [kind |-> "full", text |-> "words", stage |-> "idle", hits |-> 0]

SqTypeOK ==
    /\ call \in [SqIds -> [kind : {"lexical", "full"}, text : Queries,
                           stage : Stages, hits : Hits]]
    /\ superseded \subseteq SqIds
    /\ hasFrame \in BOOLEAN
    /\ vaultLex \in {"none", "stale", "fresh"}

SqInit ==
    /\ call = [c \in SqIds |-> NoCall]
    /\ superseded = {}
    /\ hasFrame \in BOOLEAN
    /\ vaultLex = "none"

-----------------------------------------------------------------------------
Listens(c) == c # Headless

\* Where a call gets to before its first await.
FirstStage(kind, text, gone) ==
    IF gone THEN "aborted" ELSE
    CASE text = "broken"  -> IF kind = "lexical" THEN "answered" ELSE "log"
      [] text = "exact"   -> "read"
      [] text = "filters" -> IF kind = "lexical" THEN "answered" ELSE "browse"
      [] OTHER -> IF kind = "full" /\ hasFrame THEN "name" ELSE "vname"

Started(kind, text, gone) ==
    [kind |-> kind, text |-> text, stage |-> FirstStage(kind, text, gone), hits |-> 0]

To(stage, emit, hits) == [stage |-> stage, emit |-> emit, hits |-> hits]

\* throwIfAborted
Checked(c, S) == IF c \in superseded THEN {To("aborted", "none", 0)} ELSE S

\* ensureVaultLex: the index at hand, the build in flight, or a build of one's own.
EnsureVaultLex ==
    IF vaultLex = "fresh" THEN "vgot"
    ELSE IF \E c \in SqIds : call[c].stage = "vbuild" THEN "vwait" ELSE "vbuild"

\* The ladder is climbed: a full search still writes its telemetry.
Climbed(q) == IF q.kind = "lexical" THEN "answered" ELSE "log"

\* The vault ladder: basenames first, then the index over all notes.
VaultSteps(c, q) ==
    CASE q.stage = "vname" ->
             Checked(c, {To(EnsureVaultLex, "none", 0),
                         IF Listens(c) THEN To("vnamed", "name", 2)
                                       ELSE To(EnsureVaultLex, "none", 2)})
      [] q.stage = "vnamed" -> Checked(c, {To(EnsureVaultLex, "none", 2)})
      [] q.stage = "vbuild" ->
             Checked(c, {To(Climbed(q), "none", q.hits)}) \cup {To("vgot", "none", q.hits)}
      [] q.stage = "vgot" ->
             Checked(c, {To(Climbed(q), "none", q.hits),
                         To(Climbed(q), IF Listens(c) THEN "lexical" ELSE "none", 2)})
      [] OTHER -> {}   \* "vwait": moved by the build it waits for

\* runExactTextSearch reads the bodies and yields; its partial is all it finds.
ExactSteps(c, q) ==
    IF q.stage = "read"
      THEN Checked(c, {To("yield", "none", h) : h \in Hits}) \cup {To("failed", "none", 0)}
      ELSE {To(IF c \in superseded THEN "aborted" ELSE "log",
               IF q.hits > 0 /\ Listens(c) THEN "exact" ELSE "none", q.hits)}

\* The three stages over the resident frame.  A query that does not embed, or
\* finds no coherent BM25, is answered with nothing.
FrameSteps(c, q) ==
    CASE q.stage = "name" ->
             Checked(c, {To("bm25", "none", 0),
                         To("bm25", IF Listens(c) THEN "name" ELSE "none", 0)})
      [] q.stage = "bm25" ->
             Checked(c, {To("log", "none", 0), To("embed", "none", 0),
                         To(IF Listens(c) THEN "lex" ELSE "embed", "none", 0)})
      [] q.stage = "lex"   -> Checked(c, {To("embed", "lexical", 2)})
      [] q.stage = "embed" ->
             Checked(c, {To("log", "none", h) : h \in Hits}) \cup {To("failed", "none", 0)}

SqSteps(c) ==
    LET q == call[c] IN
    CASE q.stage \in VaultStages -> VaultSteps(c, q)
      [] q.stage \in {"read", "yield"} -> ExactSteps(c, q)
      [] q.stage = "browse" ->
             Checked(c, {To("log", "none", h) : h \in Hits}) \cup {To("failed", "none", 0)}
      [] q.stage = "log" -> {To("answered", "none", q.hits)}
      [] q.stage = "idle" -> {}
      [] q.stage \in Ended -> {To(q.stage, "none", q.hits)}   \* it never got to an await
      [] OTHER -> FrameSteps(c, q)

\* A mutated form: a build that is cancelled forgets those that joined it.
WaitersOfSuccess(c) ==
    IF call[c].stage = "vbuild" /\ c \notin superseded
      THEN {d \in SqIds : call[d].stage = "vwait"} ELSE {}

\* A build that ends is the end of the wait of those that joined it; they get
\* what it built, or the index there was.
Waiters(c) ==
    IF call[c].stage = "vbuild" THEN {d \in SqIds : call[d].stage = "vwait"} ELSE {}

Moved(c, t) ==
    [d \in SqIds |->
        CASE d = c -> [call[d] EXCEPT !.stage = t.stage, !.hits = t.hits]
          [] d \in Waiters(c) ->
                [call[d] EXCEPT !.stage =
                    CASE t.stage = "vgot" \/ vaultLex = "stale" -> "vgot"
                      [] d \in superseded -> "aborted"
                      [] OTHER -> Climbed(call[d])]
          [] OTHER -> call[d]]

\* The build is kept unless the vault has changed under it.
VaultLexAfter(c, t) ==
    IF call[c].stage = "vbuild" /\ t.stage = "vgot" THEN {"fresh", vaultLex} ELSE {vaultLex}
=============================================================================
