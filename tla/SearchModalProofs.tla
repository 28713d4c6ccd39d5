------------------------ MODULE SearchModalProofs ------------------------
(***************************************************************************)
(* What the search modal keeps, for any number of overlapping searches and *)
(* anything that happens to the index and the vault beside them: its hold  *)
(* on indexing is the truth, and at rest its list belongs to its text.     *)
(*                                                                         *)
(* The list is painted by a few functions that touch neither the field nor *)
(* the runs (Paints).  Owned says that a run which may paint was started   *)
(* for the text in the field and is not superseded, unless a new search is *)
(* due; Replied that without one the text is answered, or on its way.      *)
(***************************************************************************)
EXTENDS SearchModal, FiniteSetTheorems, TLAPS

---------------------------------------------------------------------------
(* The types of the modal and of its runs. *)

Doms  == {"recents", "skeleton", "empty", "status", "noindex", "hint"}
Rungs == {"pending", "active", "done"}
Loads == {"resting", "starting", "onboarding"}
Ladders == [name : Rungs, lexical : Rungs, hybrid : Rungs]
Texts == Queries \cup {""}

Filled(d) == d.text # ""

ModalType ==
  [open : BOOLEAN, text : Texts, current : 0 .. SearchSlots, ctl : 0 .. SearchSlots,
   timer : BOOLEAN, inFlight : Nat, sel : Nat, rows : Hits, shown : 0 .. 2, dom : SUBSET Doms,
   dim : BOOLEAN, pipe : Ladders, entry : Queries \cup {NoText},
   key : {NoKey} \cup (Int \X Loads \X BOOLEAN), kind : Loads, chunks : Int,
   frameSeen : BOOLEAN, ready : BOOLEAN, failed : BOOLEAN, lost : BOOLEAN]

RunType  == [at : {"none", "lexical", "model", "search"}, mine : BOOLEAN]
CallType == [kind : {"lexical", "full"}, text : Queries, stage : Stages, hits : Hits]

---------------------------------------------------------------------------
(* Painting. *)

\* What no painting touches.
Kept(d, e) ==
  /\ e.open = d.open /\ e.text = d.text /\ e.current = d.current /\ e.ctl = d.ctl
  /\ e.timer = d.timer /\ e.inFlight = d.inFlight /\ e.lost = d.lost /\ e.entry = d.entry
Neat(d) == /\ d.rows > 0 => d.sel < d.shown /\ d.shown <= d.rows
           /\ d.rows = 0 => d.shown = 0
Clear(d) == ~d.dim /\ "skeleton" \notin d.dom
Draws(d, e) == e \in ModalType /\ Neat(e) /\ Kept(d, e)
Paints(d, e) == Draws(d, e) /\ e.pipe = d.pipe

LEMMA KeptFilled ==
  \A d, e : e.text = d.text => (Filled(e) <=> Filled(d))
  BY DEF Filled

LEMMA FieldsTyped ==
  ASSUME NEW d \in ModalType
  PROVE  /\ \A v \in 0 .. 2 : [d EXCEPT !.shown = v] \in ModalType
         /\ \A v \in SUBSET Doms : [d EXCEPT !.dom = v] \in ModalType
         /\ \A v \in Hits : [d EXCEPT !.rows = v] \in ModalType
         /\ \A v \in BOOLEAN : [d EXCEPT !.dim = v] \in ModalType
         /\ \A v \in Loads : [d EXCEPT !.kind = v] \in ModalType
         /\ \A v \in Int : [d EXCEPT !.chunks = v] \in ModalType
         /\ \A v \in Nat : [d EXCEPT !.sel = v] \in ModalType
  BY DEF ModalType

LEMMA ReplacedPaints ==
  ASSUME NEW d \in ModalType, NEW dom \in SUBSET Doms
  PROVE  /\ Paints(d, Replaced(d, dom)) /\ Replaced(d, dom).rows = 0
         /\ ~Replaced(d, dom).dim /\ Replaced(d, dom).dom = dom
<1> DEFINE e == Replaced(d, dom)
<1>1. e \in ModalType
  <2>1. PICK a : a = [d EXCEPT !.shown = 0]
    OBVIOUS
  <2>2. PICK b : b = [a EXCEPT !.rows = 0]
    OBVIOUS
  <2>3. PICK c : c = [b EXCEPT !.dim = FALSE]
    OBVIOUS
  <2>4. a \in ModalType /\ b \in ModalType /\ c \in ModalType
    BY <2>1, <2>2, <2>3, FieldsTyped, 0 \in 0 .. 2 DEF Hits
  <2>5. [c EXCEPT !.dom = dom] \in ModalType
    BY <2>4, FieldsTyped
  <2>6. e = [c EXCEPT !.dom = dom]
    BY <2>1, <2>2, <2>3 DEF Replaced, clearRows, ModalType
  <2> QED
    BY <2>5, <2>6
<1>3. e.rows = 0 /\ e.shown = 0 /\ ~e.dim /\ e.dom = dom
  BY DEF Replaced, clearRows, ModalType
<1>2. Kept(d, e) /\ e.pipe = d.pipe
  BY DEF Replaced, clearRows, ModalType, Kept
<1> QED
  BY <1>1, <1>2, <1>3 DEF Paints, Draws, Neat

LEMMA StatusPaints ==
  ASSUME NEW d \in ModalType
  PROVE  /\ Paints(d, renderStatus(d, "status")) /\ renderStatus(d, "status").rows = 0
         /\ Clear(renderStatus(d, "status"))
<1>1. {"status"} \in SUBSET Doms
  BY DEF Doms
<1> QED
  BY <1>1, ReplacedPaints DEF renderStatus, Clear

LEMMA RestingPaints ==
  ASSUME NEW d \in ModalType
  PROVE  /\ Paints(d, renderResting(d)) /\ renderResting(d).rows = 0
         /\ Clear(renderResting(d))
         /\ Paints(d, renderNoIndex(d)) /\ renderNoIndex(d).rows = 0
         /\ Clear(renderNoIndex(d))
<1>1. {"recents"} \in SUBSET Doms /\ {"noindex"} \in SUBSET Doms /\ {} \in SUBSET Doms
  BY DEF Doms
<1> QED
  BY <1>1, ReplacedPaints DEF renderResting, renderNoIndex, Clear

LEMMA EmptyPaints ==
  ASSUME NEW d \in ModalType
  PROVE  Paints(d, renderEmpty(d)) /\ renderEmpty(d).rows = 0 /\ Clear(renderEmpty(d))
  BY RestingPaints DEF renderEmpty

\* The result list is cleared; the count of its rows is set by who asks for it.
LEMMA EmptyQueryPaints ==
  ASSUME NEW d \in ModalType, NEW kind
  PROVE  LET e == renderEmptyQuery(d, kind)
         IN  /\ e \in ModalType /\ Kept(d, e) /\ e.pipe = d.pipe /\ e.shown = 0
             /\ "skeleton" \notin e.dom /\ (e.dim => d.dim) /\ e.rows \in {0, d.rows}
<1>1. CASE kind \in {"onboarding", "starting"}
  BY <1>1, RestingPaints DEF renderEmptyQuery, Paints, Draws, Neat, Clear
<1>2. CASE kind \notin {"onboarding", "starting"}
  <2> DEFINE e == [clearRows(d) EXCEPT !.dom = {"empty"}]
  <2>1. e \in ModalType
    <3>1. PICK a : a = [d EXCEPT !.shown = 0]
      OBVIOUS
    <3>2. a \in ModalType
      BY <3>1, FieldsTyped, 0 \in 0 .. 2
    <3>3. [a EXCEPT !.dom = {"empty"}] \in ModalType
      BY <3>2, FieldsTyped DEF Doms
    <3>4. e = [a EXCEPT !.dom = {"empty"}]
      BY <3>1 DEF clearRows, ModalType
    <3> QED
      BY <3>3, <3>4
  <2>3. e.shown = 0 /\ e.dom = {"empty"} /\ e.dim = d.dim /\ e.rows = d.rows
    BY DEF clearRows, ModalType
  <2>2. Kept(d, e) /\ e.pipe = d.pipe
    BY DEF clearRows, ModalType, Kept
  <2> QED
    BY <1>2, <2>1, <2>2, <2>3 DEF renderEmptyQuery
<1> QED
  BY <1>1, <1>2

LEMMA ResultsPaint ==
  ASSUME NEW d \in ModalType, NEW n \in Hits
  PROVE  /\ Paints(d, renderResults(d, n)) /\ Clear(renderResults(d, n))
         /\ renderResults(d, n).rows = n
<1>1. CASE n = 0
  <2>1. PICK e : e = renderEmptyQuery(d, LoadKind(d))
    OBVIOUS
  <2>2. /\ e \in ModalType /\ Kept(d, e) /\ e.pipe = d.pipe /\ e.shown = 0
        /\ "skeleton" \notin e.dom
    BY <2>1, EmptyQueryPaints
  <2>3. PICK r : r = [e EXCEPT !.dim = FALSE, !.rows = 0]
    OBVIOUS
  <2>7. r \in ModalType
    <3>1. PICK a : a = [e EXCEPT !.dim = FALSE]
      OBVIOUS
    <3>2. a \in ModalType
      BY <2>2, <3>1, FieldsTyped
    <3>3. [a EXCEPT !.rows = 0] \in ModalType
      BY <3>2, FieldsTyped DEF Hits
    <3>4. r = [a EXCEPT !.rows = 0]
      BY <2>2, <2>3, <3>1 DEF ModalType
    <3> QED
      BY <3>3, <3>4
  <2>4. r.shown = e.shown /\ r.dom = e.dom /\ ~r.dim /\ r.rows = 0
    BY <2>2, <2>3 DEF ModalType
  <2>5. Kept(e, r) /\ r.pipe = e.pipe
    BY <2>2, <2>3 DEF ModalType, Kept
  <2>6. renderResults(d, n) = r
    BY <1>1, <2>1, <2>3 DEF renderResults
  <2> QED
    BY <1>1, <2>2, <2>4, <2>5, <2>6, <2>7 DEF Paints, Draws, Neat, Clear, Kept
<1>2. CASE n = 2
  <2>1. PICK sel : sel = Smaller(d.sel, Smaller(Page, n) - 1)
    OBVIOUS
  <2>2. sel = 0 /\ Smaller(Page, n) = 1
    BY <1>2, <2>1 DEF Smaller, Page, ModalType
  <2>3. PICK r : r = [d EXCEPT !.dim = FALSE, !.rows = 2, !.kind = "resting",
                        !.chunks = IF d.chunks = 0 THEN 2 ELSE d.chunks,
                        !.dom = d.dom \cap {"recents"}, !.shown = 1, !.sel = 0]
    OBVIOUS
  <2>4. renderResults(d, n) = r
    <3>1. n # 0
      BY <1>2
    <3>2. renderResults(d, n) =
            [d EXCEPT !.dim = FALSE, !.rows = n, !.kind = "resting",
               !.chunks = IF d.chunks = 0 THEN n ELSE d.chunks,
               !.dom = d.dom \cap {"recents"},
               !.shown = Smaller(Page, n),
               !.sel = Smaller(d.sel, Smaller(Page, n) - 1)]
      BY <3>1 DEF renderResults
    <3> QED
      BY <1>2, <2>1, <2>2, <2>3, <3>2
  <2>5. r.rows = 2 /\ r.shown = 1 /\ r.sel = 0 /\ ~r.dim /\ "skeleton" \notin r.dom
    BY <2>3 DEF ModalType
  <2>7. r \in ModalType
    <3>1. PICK c \in Int : c = IF d.chunks = 0 THEN 2 ELSE d.chunks
      BY DEF ModalType
    <3>2. PICK dom \in SUBSET Doms : dom = d.dom \cap {"recents"}
      BY DEF ModalType
    <3>3. PICK a1 : a1 = [d EXCEPT !.dim = FALSE]
      OBVIOUS
    <3>4. PICK a2 : a2 = [a1 EXCEPT !.rows = 2]
      OBVIOUS
    <3>5. PICK a3 : a3 = [a2 EXCEPT !.kind = "resting"]
      OBVIOUS
    <3>6. PICK a4 : a4 = [a3 EXCEPT !.chunks = c]
      OBVIOUS
    <3>7. PICK a5 : a5 = [a4 EXCEPT !.dom = dom]
      OBVIOUS
    <3>8. PICK a6 : a6 = [a5 EXCEPT !.shown = 1]
      OBVIOUS
    <3>9. a1 \in ModalType /\ a2 \in ModalType
      BY <3>3, <3>4, FieldsTyped DEF Hits
    <3>10. a3 \in ModalType /\ a4 \in ModalType
      BY <3>9, <3>5, <3>6, FieldsTyped DEF Loads
    <3>11. a5 \in ModalType /\ a6 \in ModalType
      BY <3>10, <3>7, <3>8, FieldsTyped, 1 \in 0 .. 2
    <3>12. [a6 EXCEPT !.sel = 0] \in ModalType
      BY <3>11, FieldsTyped
    <3>13. r = [a6 EXCEPT !.sel = 0]
      BY <2>3, <3>1, <3>2, <3>3, <3>4, <3>5, <3>6, <3>7, <3>8 DEF ModalType
    <3> QED
      BY <3>12, <3>13
  <2>6. Kept(d, r) /\ r.pipe = d.pipe
    BY <2>3 DEF ModalType, Kept
  <2> QED
    BY <1>2, <2>4, <2>5, <2>6, <2>7 DEF Paints, Draws, Neat, Clear
<1> QED
  BY <1>1, <1>2 DEF Hits

LEMMA HintPaints ==
  ASSUME NEW d \in ModalType, Neat(d)
  PROVE  /\ Paints(d, paintWarmupHint(d)) /\ paintWarmupHint(d).rows = d.rows
         /\ Clear(d) => Clear(paintWarmupHint(d))
<1> DEFINE e == [d EXCEPT !.dom = d.dom \cup {"hint"}]
<1>1. /\ e \in ModalType /\ e.rows = d.rows /\ e.shown = d.shown /\ e.sel = d.sel /\ e.dim = d.dim
      /\ e.dom = d.dom \cup {"hint"}
  BY DEF ModalType, Doms
<1>2. Kept(d, e) /\ e.pipe = d.pipe
  BY DEF ModalType, Kept
<1> QED
  BY <1>1, <1>2 DEF Paints, Draws, Neat, Clear, paintWarmupHint

LEMMA SearchingPaints ==
  ASSUME NEW d \in ModalType, Neat(d)
  PROVE  Paints(d, setSearching(d))
<1>1. Paints(d, [d EXCEPT !.dim = TRUE])
  <2> DEFINE e == [d EXCEPT !.dim = TRUE]
  <2>1. e \in ModalType /\ e.rows = d.rows /\ e.shown = d.shown /\ e.sel = d.sel
    BY DEF ModalType
  <2>2. Kept(d, e) /\ e.pipe = d.pipe
    BY DEF ModalType, Kept
  <2> QED
    BY <2>1, <2>2 DEF Paints, Draws, Neat
<1>2. {"skeleton"} \in SUBSET Doms
  BY DEF Doms
<1> QED
  BY <1>1, <1>2, ReplacedPaints DEF setSearching, renderSkeleton

---------------------------------------------------------------------------
(* The ladder. *)

Emits  == {"name", "lexical", "exact"}
Events == Emits \cup {"query", "final", "clear"}

LEMMA LadderTyped ==
  ASSUME NEW p \in Ladders, NEW event \in Events
  PROVE  /\ nextPipelineStage(p, event) \in Ladders /\ exactStage(event) \in Ladders
         /\ event = "final" => nextPipelineStage(p, event) = LadderDone
                               /\ exactStage(event) = LadderDone
         /\ event = "clear" => nextPipelineStage(p, event) = Ladder0
                               /\ exactStage(event) = Ladder0
<1>1. Ladder0 \in Ladders /\ LadderDone \in Ladders
  BY DEF Ladder0, LadderDone, Ladders, Rungs
<1>2. [Ladder0 EXCEPT !.name = "active"] \in Ladders /\ [Ladder0 EXCEPT !.name = "done"] \in Ladders
  BY <1>1 DEF Ladders, Rungs
<1>3. /\ [p EXCEPT !.name = "done", !.lexical = "active"] \in Ladders
      /\ [name |-> IF p.name = "active" THEN "done" ELSE p.name, lexical |-> "done",
          hybrid |-> IF p.hybrid = "pending" THEN "active" ELSE p.hybrid] \in Ladders
  BY DEF Ladders, Rungs
<1> QED
  BY <1>1, <1>2, <1>3 DEF nextPipelineStage, exactStage, Events, Emits

LEMMA AdvanceDraws ==
  ASSUME NEW d \in ModalType, Neat(d), NEW event \in Events
  PROVE  /\ Draws(d, Advance(d, event)) /\ Advance(d, event).rows = d.rows
         /\ Clear(d) => Clear(Advance(d, event))
         /\ event = "final" => Advance(d, event).pipe = LadderDone
         /\ event = "clear" => Advance(d, event).pipe = Ladder0
<1>1. PICK p : p = IF d.text \in {"exact", "broken"} THEN exactStage(event)
                   ELSE nextPipelineStage(d.pipe, event)
  OBVIOUS
<1>2. /\ p \in Ladders
      /\ event = "final" => p = LadderDone
      /\ event = "clear" => p = Ladder0
  <2>1. d.pipe \in Ladders
    BY DEF ModalType
  <2> QED
    BY <1>1, <2>1, LadderTyped
<1>3. PICK e : e = [d EXCEPT !.pipe = p]
  OBVIOUS
<1>4. /\ e \in ModalType /\ e.rows = d.rows /\ e.shown = d.shown /\ e.sel = d.sel
      /\ e.dim = d.dim /\ e.dom = d.dom /\ e.pipe = p
  BY <1>2, <1>3 DEF ModalType
<1>5. Kept(d, e)
  BY <1>3 DEF ModalType, Kept
<1>6. Advance(d, event) = e
  BY <1>1, <1>3 DEF Advance
<1> QED
  BY <1>2, <1>4, <1>5, <1>6 DEF Draws, Neat, Clear

\* onPartial.
LEMMA PartialDraws ==
  ASSUME NEW d \in ModalType, NEW kind, NEW t, t.emit \in Emits
  PROVE  Draws(d, Partial(d, kind, t))
<1>1. PICK r : r = renderResults(d, 2)
  OBVIOUS
<1>2. Paints(d, r)
  BY <1>1, ResultsPaint DEF Hits
<1>3. PICK h : h = IF kind = "lexical" THEN paintWarmupHint(r) ELSE r
  OBVIOUS
<1>4. Draws(d, h)
  BY <1>2, <1>3, HintPaints DEF Paints, Draws, Kept
<1>5. Draws(h, Advance(h, t.emit))
  BY <1>4, AdvanceDraws DEF Draws, Events
<1> QED
  BY <1>1, <1>3, <1>4, <1>5 DEF Partial, Draws, Kept

---------------------------------------------------------------------------
(* The invariant. *)

Searching == {i \in Runs : run[i].mine /\ run[i].at = "search"}
Holds(h, n) == (IF h = "none" THEN 0 ELSE 1) + (IF n = 0 THEN 0 ELSE 1)

MdTyped ==
  /\ run \in [Runs -> RunType]
  /\ call \in [SqIds -> CallType]
  /\ headless \in {"none", "model", "search"}
  /\ hasFrame \in BOOLEAN
  /\ stored \in Hits

\* The list is whole, and an empty field shows nothing and claims nothing.
Shape(d) ==
  /\ d \in ModalType
  /\ Neat(d)
  /\ ~Filled(d) => /\ d.current = 0 /\ ~d.timer /\ d.rows = 0 /\ Clear(d)
                   /\ d.pipe = Ladder0

Counted == count = Holds(headless, md.inFlight)
Landing == md.inFlight = Cardinality(Searching)

\* A closed modal has no search of its own, nor has a run that is over.
Claims ==
  /\ ~md.open => ~Filled(md) /\ ~md.timer /\ \A i \in Runs : ~run[i].mine
  /\ \A i \in Runs : run[i].at = "none" => ~run[i].mine

Owns(i) == i \notin superseded /\ call[i].text = md.text /\ call[i].stage # "aborted"
Owned   == \A i \in Runs : Live(i) /\ ~md.timer => Owns(i)

Done(d) == d.entry = d.text /\ Clear(d) /\ d.pipe = LadderDone
Rests(d) == d.open /\ ~d.timer /\ Filled(d) /\ ~d.lost
OnItsWay == \E i \in Runs : Live(i)
Replied  == Rests(md) => OnItsWay \/ Done(md)

Base    == MdTyped /\ Shape(md) /\ Landing /\ Claims /\ Owned /\ Replied
ModalInv == Base /\ Counted

\* As far as the invariant is concerned.
Alike(d, e) ==
  /\ e.open = d.open /\ e.text = d.text /\ e.current = d.current
  /\ e.timer = d.timer /\ e.inFlight = d.inFlight /\ e.entry = d.entry
  /\ e.rows = d.rows /\ e.shown = d.shown /\ e.sel = d.sel
  /\ e.dim = d.dim /\ e.dom = d.dom /\ e.pipe = d.pipe

LEMMA AlikeShape ==
  ASSUME NEW d, NEW e, Shape(d), e \in ModalType, Alike(d, e)
  PROVE  Shape(e)
<1>1. Filled(e) <=> Filled(d)
  BY KeptFilled DEF Alike
<1>2. Neat(e) /\ (Clear(d) => Clear(e))
  BY DEF Shape, Neat, Clear, Alike
<1> QED
  BY <1>1, <1>2 DEF Shape, Alike

LEMMA RunsTyped ==
  /\ Runs \subseteq SqIds /\ IsFiniteSet(Runs) /\ 0 \notin Runs /\ Runs \subseteq Nat
  /\ Runs \subseteq 0 .. SearchSlots /\ Headless \notin Runs /\ Headless \in SqIds
<1>1. SearchSlots \in Nat
  BY SearchConstants
<1>2. IsFiniteSet(Runs)
  BY <1>1, FS_Interval DEF Runs
<1> QED
  BY <1>1, <1>2 DEF Runs, SqIds, Headless

\* One search more, or one less.
LEMMA CountsSearches ==
  ASSUME MdTyped
  PROVE  /\ IsFiniteSet(Searching) /\ Cardinality(Searching) \in Nat
         /\ \A i \in Runs : Cardinality(Searching \ {i}) =
              IF i \in Searching THEN Cardinality(Searching) - 1 ELSE Cardinality(Searching)
         /\ \A i \in Runs : Cardinality(Searching \cup {i}) =
              IF i \in Searching THEN Cardinality(Searching) ELSE Cardinality(Searching) + 1
         /\ \A i \in Runs : i \in Searching => Cardinality(Searching) > 0
<1>1. IsFiniteSet(Searching) /\ Cardinality(Searching) \in Nat
  BY RunsTyped, FS_Subset, FS_CardinalityType DEF Searching
<1>2. ASSUME NEW i \in Runs
      PROVE  Cardinality(Searching \ {i}) =
              IF i \in Searching THEN Cardinality(Searching) - 1 ELSE Cardinality(Searching)
  BY <1>1, FS_RemoveElement
<1>3. ASSUME NEW i \in Runs
      PROVE  Cardinality(Searching \cup {i}) =
              IF i \in Searching THEN Cardinality(Searching) ELSE Cardinality(Searching) + 1
  BY <1>1, FS_AddElement
<1>4. ASSUME NEW i \in Runs, i \in Searching
      PROVE  Cardinality(Searching) > 0
  BY <1>1, <1>4, FS_EmptySet
<1> QED
  BY <1>1, <1>2, <1>3, <1>4

---------------------------------------------------------------------------
(* The calls. *)

LEMMA StepsTyped ==
  ASSUME MdTyped, NEW c \in SqIds, NEW t, t \in SqSteps(c)
  PROVE  /\ t.stage \in Stages /\ t.hits \in Hits /\ t.emit \in Emits \cup {"none"}
         /\ t.stage = "aborted" => c \in superseded \/ call[c].stage = "aborted"
<1>1. PICK q : q = call[c]
  OBVIOUS
<1>2. q \in CallType
  BY <1>1 DEF MdTyped
<1>3. q.stage \in Stages /\ q.hits \in Hits /\ q.kind \in {"lexical", "full"}
  BY <1>2 DEF CallType
<1> DEFINE Good(x) == /\ x.stage \in Stages /\ x.hits \in Hits /\ x.emit \in Emits \cup {"none"}
                      /\ x.stage = "aborted" => c \in superseded \/ q.stage = "aborted"
<1>4. EnsureVaultLex \in {"vgot", "vwait", "vbuild"} /\ Climbed(q) \in {"answered", "log"}
  BY DEF EnsureVaultLex, Climbed
<1>5. ASSUME NEW S, \A x \in S : Good(x), NEW x \in Checked(c, S)
      PROVE  Good(x)
  BY <1>5 DEF Checked, To, Stages, Ended, Hits
<1>6. CASE q.stage \in VaultStages
  <2>1. t \in VaultSteps(c, q)
    <3>1. call[c].stage \in VaultStages
      BY <1>1, <1>6
    <3>2. SqSteps(c) = VaultSteps(c, call[c])
      BY <3>1 DEF SqSteps, VaultStages, Ended
    <3> QED
      BY <1>1, <3>2
  <2>2. CASE q.stage = "vname"
    <3>1. PICK S : S = {To(EnsureVaultLex, "none", 0),
                        IF Listens(c) THEN To("vnamed", "name", 2)
                                      ELSE To(EnsureVaultLex, "none", 2)}
      OBVIOUS
    <3>2. \A x \in S : Good(x)
      BY <3>1, <1>4 DEF To, Stages, VaultStages, Hits, Emits
    <3>3. t \in Checked(c, S)
      BY <2>1, <2>2, <3>1 DEF VaultSteps
    <3> QED
      BY <3>2, <3>3, <1>5, <1>1
  <2>3. CASE q.stage = "vnamed"
    <3>1. PICK S : S = {To(EnsureVaultLex, "none", 2)}
      OBVIOUS
    <3>2. \A x \in S : Good(x)
      BY <3>1, <1>4 DEF To, Stages, VaultStages, Hits, Emits
    <3>3. t \in Checked(c, S)
      BY <2>1, <2>3, <3>1 DEF VaultSteps
    <3> QED
      BY <3>2, <3>3, <1>5, <1>1
  <2>4. CASE q.stage = "vbuild"
    <3>1. PICK S : S = {To(Climbed(q), "none", q.hits)}
      OBVIOUS
    <3>2. \A x \in S : Good(x)
      BY <3>1, <1>3, <1>4 DEF To, Stages, Ended, Hits, Emits
    <3>3. t \in Checked(c, S) \cup {To("vgot", "none", q.hits)}
      BY <2>1, <2>4, <3>1 DEF VaultSteps
    <3>4. Good(To("vgot", "none", q.hits))
      BY <1>3 DEF To, Stages, VaultStages
    <3> QED
      BY <3>2, <3>3, <3>4, <1>5, <1>1
  <2>5. CASE q.stage = "vgot"
    <3>1. PICK S : S = {To(Climbed(q), "none", q.hits),
                        To(Climbed(q), IF Listens(c) THEN "lexical" ELSE "none", 2)}
      OBVIOUS
    <3>2. \A x \in S : Good(x)
      BY <3>1, <1>3, <1>4 DEF To, Stages, Ended, Hits, Emits
    <3>3. t \in Checked(c, S)
      BY <2>1, <2>5, <3>1 DEF VaultSteps
    <3> QED
      BY <3>2, <3>3, <1>5, <1>1
  <2> QED
    BY <1>6, <2>1, <2>2, <2>3, <2>4, <2>5 DEF VaultSteps, VaultStages
<1>7. CASE q.stage \in {"read", "yield"}
  <2>1. t \in ExactSteps(c, q)
    <3>1. call[c].stage \in {"read", "yield"} /\ call[c].stage \notin VaultStages
      BY <1>1, <1>7 DEF VaultStages
    <3>2. SqSteps(c) = ExactSteps(c, call[c])
      BY <3>1 DEF SqSteps, VaultStages, Ended
    <3> QED
      BY <1>1, <3>2
  <2>2. CASE q.stage = "read"
    <3>1. PICK S : S = {To("yield", "none", h) : h \in Hits}
      OBVIOUS
    <3>2. \A x \in S : Good(x)
      BY <3>1 DEF To, Stages
    <3>3. t \in Checked(c, S) \cup {To("failed", "none", 0)}
      BY <2>1, <2>2, <3>1 DEF ExactSteps
    <3>4. Good(To("failed", "none", 0))
      BY DEF To, Stages, Ended, Hits
    <3> QED
      BY <3>2, <3>3, <3>4, <1>5, <1>1
  <2>3. CASE q.stage # "read"
    BY <2>1, <2>3, <1>1, <1>3 DEF ExactSteps, To, Stages, Ended, Emits
  <2> QED
    BY <2>2, <2>3
<1>8. CASE q.stage = "browse" \/ q.stage = "embed"
  <2>1. PICK S : S = {To("log", "none", h) : h \in Hits}
    OBVIOUS
  <2>2. \A x \in S : Good(x)
    BY <2>1 DEF To, Stages
  <2>3. t \in Checked(c, S) \cup {To("failed", "none", 0)}
    BY <1>1, <1>8, <2>1 DEF SqSteps, FrameSteps, VaultStages, Ended
  <2>4. Good(To("failed", "none", 0))
    BY DEF To, Stages, Ended, Hits
  <2> QED
    BY <2>2, <2>3, <2>4, <1>5, <1>1
<1>9. CASE q.stage \in {"log", "idle"} \cup Ended
  BY <1>1, <1>3, <1>9 DEF SqSteps, To, Stages, Ended, VaultStages
<1>10. CASE q.stage = "name"
  <2>1. PICK S : S = {To("bm25", "none", 0),
                      To("bm25", IF Listens(c) THEN "name" ELSE "none", 0)}
    OBVIOUS
  <2>2. \A x \in S : Good(x)
    BY <2>1 DEF To, Stages, Hits, Emits
  <2>3. t \in Checked(c, S)
    BY <1>1, <1>10, <2>1 DEF SqSteps, FrameSteps, VaultStages, Ended
  <2> QED
    BY <2>2, <2>3, <1>5, <1>1
<1>11. CASE q.stage = "bm25"
  <2>1. PICK S : S = {To("log", "none", 0), To("embed", "none", 0),
                      To(IF Listens(c) THEN "lex" ELSE "embed", "none", 0)}
    OBVIOUS
  <2>2. \A x \in S : Good(x)
    BY <2>1 DEF To, Stages, Hits
  <2>3. t \in Checked(c, S)
    BY <1>1, <1>11, <2>1 DEF SqSteps, FrameSteps, VaultStages, Ended
  <2> QED
    BY <2>2, <2>3, <1>5, <1>1
<1>12. CASE q.stage = "lex"
  <2>1. PICK S : S = {To("embed", "lexical", 2)}
    OBVIOUS
  <2>2. \A x \in S : Good(x)
    BY <2>1 DEF To, Stages, Hits, Emits
  <2>3. t \in Checked(c, S)
    BY <1>1, <1>12, <2>1 DEF SqSteps, FrameSteps, VaultStages, Ended
  <2> QED
    BY <2>2, <2>3, <1>5, <1>1
<1> QED
  BY <1>3, <1>6, <1>7, <1>8, <1>9, <1>10, <1>11, <1>12 DEF Stages

\* What a step does to the calls: the one that takes it, and those that wait for its build.
LEMMA MovedCalls ==
  ASSUME MdTyped, NEW c \in SqIds, NEW t, t \in SqSteps(c)
  PROVE  /\ Moved(c, t) \in [SqIds -> CallType]
         /\ Moved(c, t)[c].text = call[c].text /\ Moved(c, t)[c].stage = t.stage
         /\ \A d \in SqIds :
              /\ Moved(c, t)[d].text = call[d].text
              /\ Moved(c, t)[d].stage = "aborted" =>
                   d \in superseded \/ call[d].stage = "aborted"
<1>1. /\ t.stage \in Stages /\ t.hits \in Hits
      /\ t.stage = "aborted" => c \in superseded \/ call[c].stage = "aborted"
  BY StepsTyped
<1>2. ASSUME NEW d \in SqIds
      PROVE  /\ Moved(c, t)[d] \in CallType
             /\ Moved(c, t)[d].text = call[d].text
             /\ Moved(c, t)[d].stage = "aborted" =>
                   d \in superseded \/ call[d].stage = "aborted"
             /\ d = c => Moved(c, t)[d].stage = t.stage
  <2>1. call[d] \in CallType
    BY DEF MdTyped
  <2>2. CASE d = c
    <3>1. Moved(c, t)[d] = [call[d] EXCEPT !.stage = t.stage, !.hits = t.hits]
      BY <2>2 DEF Moved, Waiters
    <3> QED
      BY <1>1, <2>1, <2>2, <3>1 DEF CallType
  <2>3. CASE d # c /\ d \in Waiters(c)
    <3>1. PICK s : s = CASE t.stage = "vgot" \/ vaultLex = "stale" -> "vgot"
                         [] d \in superseded -> "aborted"
                         [] OTHER -> Climbed(call[d])
      OBVIOUS
    <3>2. s \in Stages /\ (s = "aborted" => d \in superseded)
      BY <3>1 DEF Climbed, Stages, VaultStages, Ended
    <3>3. Moved(c, t)[d] = [call[d] EXCEPT !.stage = s]
      BY <2>3, <3>1 DEF Moved
    <3> QED
      BY <2>1, <2>3, <3>2, <3>3 DEF CallType
  <2>4. CASE d # c /\ d \notin Waiters(c)
    <3>1. Moved(c, t)[d] = call[d]
      BY <2>4 DEF Moved
    <3> QED
      BY <2>1, <2>4, <3>1
  <2> QED
    BY <2>2, <2>3, <2>4
<1>3. Moved(c, t) = [d \in SqIds |-> Moved(c, t)[d]]
  BY DEF Moved
<1> QED
  BY <1>2, <1>3

LEMMA StartedTyped ==
  ASSUME NEW kind \in {"lexical", "full"}, NEW text \in Queries, NEW gone \in BOOLEAN
  PROVE  /\ Started(kind, text, gone) \in CallType /\ Started(kind, text, gone).text = text
         /\ Started(kind, text, gone).stage = "aborted" => gone = TRUE
<1>1. PICK s : s = FirstStage(kind, text, gone)
  OBVIOUS
<1>2. s \in Stages /\ (s = "aborted" => gone = TRUE)
  BY <1>1 DEF FirstStage, Stages, VaultStages, Ended
<1>3. Started(kind, text, gone) = [kind |-> kind, text |-> text, stage |-> s, hits |-> 0]
  BY <1>1 DEF Started
<1> QED
  BY <1>2, <1>3 DEF CallType, Hits

---------------------------------------------------------------------------
(* Three shapes of step: one that starts or ends no run, one that begins a *)
(* search, one that ends a run.                                            *)

LEMMA SameRuns ==
  ASSUME Base, MdTyped', Shape(md)', Kept(md, md'), superseded' = superseded,
         Searching' = Searching,
         \A i \in Runs : /\ run'[i].mine <=> run[i].mine
                         /\ run'[i].at = "none" => run[i].at = "none",
         \A i \in Runs : /\ call'[i].text = call[i].text
                         /\ call'[i].stage = "aborted" =>
                              i \in superseded \/ call[i].stage = "aborted",
         Rests(md) /\ Done(md) => OnItsWay \/ Done(md')
  PROVE  Base'
<1>0. Filled(md') <=> Filled(md)
  BY KeptFilled DEF Kept
<1>1. \A i \in Runs : Live(i)' <=> Live(i)
  BY DEF Live, Kept
<1>2. Landing'
  BY DEF Base, Landing, Kept
<1>3. Claims'
  BY <1>0 DEF Base, Claims, Kept
<1>4. Owned'
  <2> SUFFICES ASSUME NEW i \in Runs, Live(i)', ~md'.timer
               PROVE  Owns(i)'
    BY DEF Owned
  <2>1. Owns(i)
    BY <1>1 DEF Base, Owned, Kept
  <2> QED
    BY <2>1 DEF Owns, Kept
<1>5. Replied'
  <2>1. OnItsWay' <=> OnItsWay
    BY <1>1 DEF OnItsWay
  <2>2. Rests(md)' => Rests(md)
    BY <1>0 DEF Rests, Kept
  <2> QED
    BY <2>1, <2>2 DEF Base, Replied
<1> QED
  BY <1>2, <1>3, <1>4, <1>5 DEF Base

LEMMA Begins ==
  ASSUME Base, NEW i \in Runs, NEW d, NEW c \in CallType,
         md' = [setSearching(d) EXCEPT !.inFlight = @ + 1],
         count' = IF d.inFlight = 0 THEN count + 1 ELSE count,
         run' = [run EXCEPT ![i] = [at |-> "search", mine |-> TRUE]],
         call' = [call EXCEPT ![i] = c],
         Shape(d), d.open, d.current = i, Filled(d),
         d.inFlight = md.inFlight, i \notin Searching,
         ~d.timer => c.text = d.text /\ c.stage # "aborted" /\ i \notin superseded',
         UNCHANGED <<headless, hasFrame, stored>>
  PROVE  Base' /\ (Counted => Counted')
<1>1. PICK e : e = setSearching(d)
  OBVIOUS
<1>2. e \in ModalType /\ Neat(e) /\ Kept(d, e) /\ e.pipe = d.pipe
  BY <1>1, SearchingPaints DEF Shape, Paints, Draws
<1>3. md' = [e EXCEPT !.inFlight = e.inFlight + 1]
  BY <1>1
<1>4. /\ md' \in ModalType /\ md'.inFlight = d.inFlight + 1 /\ d.inFlight \in Nat
      /\ md'.open /\ md'.text = d.text /\ md'.current = i /\ md'.timer = d.timer
      /\ md'.rows = e.rows /\ md'.shown = e.shown /\ md'.sel = e.sel
  <2>1. e.inFlight = d.inFlight /\ d.inFlight \in Nat
    BY <1>2 DEF Shape, ModalType, Kept
  <2>2. e.inFlight + 1 \in Nat
    BY <2>1
  <2>3. md' \in ModalType
    BY <1>2, <1>3, <2>2 DEF ModalType
  <2>4. /\ md'.inFlight = e.inFlight + 1
        /\ md'.open = e.open /\ md'.text = e.text /\ md'.current = e.current
        /\ md'.timer = e.timer /\ md'.rows = e.rows /\ md'.shown = e.shown /\ md'.sel = e.sel
        /\ md'.pipe = e.pipe
    BY <1>2, <1>3 DEF ModalType
  <2> QED
    BY <1>2, <2>1, <2>3, <2>4 DEF Kept
<1>5. Shape(md)'
  <2>1. Filled(md')
    BY <1>4, KeptFilled
  <2>2. Neat(md')
    BY <1>2, <1>4 DEF Neat
  <2> QED
    BY <1>4, <2>1, <2>2 DEF Shape
<1>7. MdTyped'
  <2>1. run' \in [Runs -> RunType]
    BY DEF Base, MdTyped, RunType
  <2>2. call' \in [SqIds -> CallType]
    BY DEF Base, MdTyped
  <2> QED
    BY <2>1, <2>2 DEF Base, MdTyped
<1>8. \A j \in Runs : j # i => run'[j] = run[j]
  BY DEF Base, MdTyped
<1>9. run'[i].mine /\ run'[i].at = "search"
  BY DEF Base, MdTyped
<1>10. Landing'
  <2>1. Searching' = Searching \cup {i}
    BY <1>8, <1>9 DEF Searching
  <2>2. Cardinality(Searching \cup {i}) = Cardinality(Searching) + 1
    BY CountsSearches DEF Base
  <2> QED
    BY <2>1, <2>2, <1>4 DEF Base, Landing
<1>11. Claims'
  BY <1>4, <1>8, <1>9 DEF Base, Claims
<1>12. Live(i)'
  BY <1>4, <1>9 DEF Live
<1>13. Owned'
  <2> SUFFICES ASSUME NEW j \in Runs, Live(j)', ~md'.timer
               PROVE  Owns(j)'
    BY DEF Owned
  <2>1. j = i
    BY <1>4 DEF Live
  <2>2. call'[i] = c
    BY RunsTyped DEF Base, MdTyped
  <2> QED
    BY <2>1, <2>2, <1>4 DEF Owns
<1>14. Replied'
  BY <1>12 DEF Replied, OnItsWay
<1>15. ASSUME Counted
       PROVE  Counted'
  <2>1. headless' = headless
    OBVIOUS
  <2>2. count = (IF headless = "none" THEN 0 ELSE 1) + (IF d.inFlight = 0 THEN 0 ELSE 1)
    BY <1>15 DEF Counted, Holds
  <2>3. md'.inFlight # 0
    BY <1>4
  <2>4. count' = (IF headless = "none" THEN 0 ELSE 1) + 1
    BY <2>2
  <2> QED
    BY <2>1, <2>3, <2>4 DEF Counted, Holds
<1> QED
  BY <1>5, <1>7, <1>10, <1>11, <1>13, <1>14, <1>15 DEF Base

LEMMA Ends ==
  ASSUME Base, NEW i \in Runs, NEW d, NEW calls \in [SqIds -> CallType], EndRun(d, i, calls),
         Shape(d), d.open = md.open, d.text = md.text, d.current = md.current,
         d.timer = md.timer, d.inFlight = Cardinality(Searching \ {i}),
         \A j \in Runs \ {i} : /\ calls[j].text = call[j].text
                               /\ calls[j].stage = "aborted" =>
                                    j \in superseded \/ call[j].stage = "aborted",
         Rests(d) => (\E j \in Runs \ {i} : Live(j)) \/ Done(d),
         headless' \in {"none", "model", "search"}, UNCHANGED <<hasFrame, stored>>
  PROVE  Base' /\ md'.inFlight = d.inFlight
<1>1. PICK c \in 0 .. SearchSlots : c = IF run[i].mine /\ d.ctl = i THEN 0 ELSE d.ctl
  <2>1. 0 \in 0 .. SearchSlots
    BY SearchConstants
  <2>2. d.ctl \in 0 .. SearchSlots
    BY DEF Shape, ModalType
  <2> QED
    BY <2>1, <2>2
<1>2. md' = [d EXCEPT !.ctl = c]
  BY <1>1 DEF EndRun
<1>3. /\ md'.open = md.open /\ md'.text = md.text /\ md'.current = md.current
      /\ md'.timer = md.timer /\ md'.inFlight = d.inFlight /\ md'.lost = d.lost
      /\ md'.entry = d.entry /\ md'.dim = d.dim /\ md'.dom = d.dom /\ md'.pipe = d.pipe
      /\ md'.rows = d.rows /\ md'.shown = d.shown /\ md'.sel = d.sel
  BY <1>2 DEF Shape, ModalType
<1>4. md' \in ModalType
  BY <1>1, <1>2 DEF Shape, ModalType
<1>20. (Filled(md') <=> Filled(md)) /\ (Filled(d) <=> Filled(md))
  BY <1>3, KeptFilled
<1>5. Shape(md)'
  <2>1. Neat(md')
    BY <1>3 DEF Shape, Neat
  <2>2. Clear(d) => Clear(md')
    BY <1>3 DEF Clear
  <2> QED
    BY <1>3, <1>4, <1>20, <2>1, <2>2 DEF Shape
<1>6. run' = [run EXCEPT ![i] = NoRun] /\ call' = [calls EXCEPT ![i] = NoCall]
      /\ superseded' = superseded \ {i}
  BY DEF EndRun
<1>7. MdTyped'
  <2>1. NoRun \in RunType
    BY DEF NoRun, RunType
  <2>2. NoCall \in CallType
    BY DEF NoCall, CallType, Queries, Words, Stages, Hits
  <2> QED
    BY <1>6, <2>1, <2>2 DEF Base, MdTyped
<1>8. \A j \in Runs : j # i => run'[j] = run[j] /\ call'[j] = calls[j]
  BY <1>6, RunsTyped DEF Base, MdTyped
<1>9. run'[i].at = "none" /\ ~run'[i].mine
  BY <1>6 DEF Base, MdTyped, NoRun
<1>10. Landing'
  <2>1. Searching' = Searching \ {i}
    BY <1>8, <1>9 DEF Searching
  <2> QED
    BY <2>1, <1>3 DEF Landing
<1>11. Claims'
  BY <1>3, <1>8, <1>9, <1>20 DEF Base, Claims
<1>12. \A j \in Runs : Live(j)' <=> j # i /\ Live(j)
  BY <1>3, <1>8, <1>9 DEF Live
<1>13. Owned'
  <2> SUFFICES ASSUME NEW j \in Runs, Live(j)', ~md'.timer
               PROVE  Owns(j)'
    BY DEF Owned
  <2>1. j # i /\ Owns(j)
    BY <1>3, <1>12 DEF Base, Owned
  <2> QED
    BY <2>1, <1>3, <1>6, <1>8 DEF Owns
<1>14. Replied'
  <2>1. Rests(md)' => Rests(d)
    BY <1>3, <1>20 DEF Rests
  <2>2. (\E j \in Runs \ {i} : Live(j)) => OnItsWay'
    BY <1>12 DEF OnItsWay
  <2>3. Done(d) => Done(md)'
    BY <1>3 DEF Done, Clear
  <2> QED
    BY <2>1, <2>2, <2>3 DEF Replied
<1> QED
  BY <1>3, <1>5, <1>7, <1>10, <1>11, <1>13, <1>14 DEF Base

LEMMA FilledText ==
  ASSUME NEW d \in ModalType, Filled(d)
  PROVE  d.text \in Queries
<1>1. d.text \in Texts
  BY DEF ModalType
<1> QED
  BY <1>1, Zenon DEF Filled, Texts

LEMMA RunStarts ==
  ASSUME Base, NEW i \in Runs, NEW d, Shape(d), d.open, Filled(d), d.inFlight = md.inFlight,
         run[i].at = "none", StartRun(d, i), UNCHANGED <<headless, hasFrame, stored>>
  PROVE  Base' /\ (Counted => Counted')
<1>1. ~run[i].mine /\ i \notin Searching
  BY DEF Base, Claims, Searching
<1>2. d.text \in Queries
  BY FilledText DEF Shape
<1>3. PICK e : e = Claimed(d, i)
  OBVIOUS
<1>4. /\ e \in ModalType /\ Neat(e) /\ e.open /\ Filled(e) /\ e.current = i
      /\ ~e.timer /\ ~e.lost /\ e.inFlight = md.inFlight /\ e.text = d.text
  <2>1. PICK a : a = [d EXCEPT !.current = i, !.ctl = i, !.timer = FALSE, !.lost = FALSE]
    OBVIOUS
  <2>2. a \in ModalType
    BY <2>1, RunsTyped DEF Shape, ModalType
  <2>3. /\ a.open /\ a.text = d.text /\ a.current = i /\ ~a.timer /\ ~a.lost
        /\ a.inFlight = md.inFlight /\ a.rows = d.rows /\ a.shown = d.shown /\ a.sel = d.sel
    BY <2>1 DEF Shape, ModalType
  <2>4. Neat(a)
    BY <2>3 DEF Shape, Neat
  <2>5. Draws(a, Advance(a, "query"))
    BY <2>2, <2>4, AdvanceDraws DEF Events
  <2>6. e = Advance(a, "query")
    BY <1>3, <2>1 DEF Claimed
  <2>7. e \in ModalType /\ Neat(e) /\ Kept(a, e)
    BY <2>5, <2>6 DEF Draws
  <2>8. e.text = d.text
    BY <2>3, <2>7 DEF Kept
  <2>9. Filled(e)
    BY <2>8, KeptFilled
  <2> QED
    BY <2>3, <2>7, <2>8, <2>9 DEF Kept
<1>5. Shape(e)
  BY <1>4 DEF Shape
<1>6. i \notin superseded'
  BY DEF StartRun
<1>7. ASSUME NEW kind \in {"lexical", "full"}
      PROVE  /\ Started(kind, d.text, FALSE) \in CallType
             /\ Started(kind, d.text, FALSE).text = d.text
             /\ Started(kind, d.text, FALSE).stage # "aborted"
  BY <1>2, StartedTyped
<1>8. \/ d.ready /\ BeginSearch(e, i, d.text, FALSE)
      \/ /\ md' = e
         /\ run' = [run EXCEPT ![i] = [at |-> "lexical", mine |-> TRUE]]
         /\ call' = [call EXCEPT ![i] = Started("lexical", d.text, FALSE)]
         /\ UNCHANGED count
      \/ /\ md' = [renderStatus(e, "status") EXCEPT !.ctl = 0, !.lost = TRUE]
         /\ UNCHANGED <<run, call, count>>
  BY <1>3 DEF StartRun
<1>9. CASE BeginSearch(e, i, d.text, FALSE)
  <2>1. PICK c \in CallType : c = Started("full", d.text, FALSE)
    BY <1>7
  <2>2. c.text = e.text /\ c.stage # "aborted"
    BY <1>4, <1>7, <2>1
  <2>3. /\ md' = [setSearching(e) EXCEPT !.inFlight = @ + 1]
        /\ count' = IF e.inFlight = 0 THEN count + 1 ELSE count
        /\ run' = [run EXCEPT ![i] = [at |-> "search", mine |-> TRUE]]
        /\ call' = [call EXCEPT ![i] = c]
    BY <1>9, <2>1 DEF BeginSearch
  <2> QED
    BY <1>1, <1>4, <1>5, <1>6, <2>2, <2>3, Begins
<1> DEFINE Fresh == /\ Shape(md)' /\ md'.open /\ Filled(md)' /\ md'.current = i
                    /\ md'.inFlight = md.inFlight /\ UNCHANGED count
<1>10. Fresh => (Counted => Counted')
  BY DEF Counted, Holds
<1>11. CASE /\ md' = e
            /\ run' = [run EXCEPT ![i] = [at |-> "lexical", mine |-> TRUE]]
            /\ call' = [call EXCEPT ![i] = Started("lexical", d.text, FALSE)]
            /\ UNCHANGED count
  <2>1. Fresh
    BY <1>4, <1>5, <1>11
  <2>2. PICK c \in CallType : c = Started("lexical", d.text, FALSE)
    BY <1>7
  <2>3. c.text = d.text /\ c.stage # "aborted"
    BY <1>7, <2>2
  <2>4. call' = [call EXCEPT ![i] = c]
    BY <1>11, <2>2
  <2>5. MdTyped'
    BY <1>11, <2>4 DEF Base, MdTyped, RunType
  <2>6. \A j \in Runs : j # i => run'[j] = run[j]
    BY <1>11 DEF Base, MdTyped
  <2>7. run'[i].mine /\ run'[i].at = "lexical"
    BY <1>11 DEF Base, MdTyped
  <2>8. Landing'
    <3>1. Searching' = Searching
      BY <1>1, <2>6, <2>7 DEF Searching
    <3> QED
      BY <2>1, <3>1 DEF Base, Landing
  <2>9. Claims'
    BY <2>1, <2>6, <2>7 DEF Base, Claims
  <2>10. Owned'
    <3> SUFFICES ASSUME NEW j \in Runs, Live(j)', ~md'.timer
                 PROVE  Owns(j)'
      BY DEF Owned
    <3>1. j = i
      BY <2>1 DEF Live
    <3>2. call'[i] = c
      BY <2>4, RunsTyped DEF Base, MdTyped
    <3>3. md'.text = d.text
      BY <1>4, <1>11
    <3> QED
      BY <1>6, <2>3, <3>1, <3>2, <3>3 DEF Owns
  <2>11. Replied'
    BY <2>1, <2>7 DEF Replied, OnItsWay, Live
  <2> QED
    BY <1>10, <2>1, <2>5, <2>8, <2>9, <2>10, <2>11 DEF Base
<1>12. CASE /\ md' = [renderStatus(e, "status") EXCEPT !.ctl = 0, !.lost = TRUE]
            /\ UNCHANGED <<run, call, count>>
  <2>1. PICK b : b = renderStatus(e, "status")
    OBVIOUS
  <2>2. b \in ModalType /\ Neat(b) /\ Kept(e, b)
    BY <1>4, <2>1, StatusPaints DEF Paints, Draws
  <2>3. md' = [b EXCEPT !.ctl = 0, !.lost = TRUE]
    BY <1>12, <2>1
  <2>4. 0 \in 0 .. SearchSlots
    BY SearchConstants
  <2>5. md' \in ModalType
    BY <2>2, <2>3, <2>4 DEF ModalType
  <2>6. /\ md'.open = b.open /\ md'.text = b.text /\ md'.current = b.current /\ md'.lost
        /\ md'.inFlight = b.inFlight /\ md'.rows = b.rows /\ md'.shown = b.shown
        /\ md'.sel = b.sel
    BY <2>2, <2>3 DEF ModalType
  <2>7. md'.text = e.text /\ md'.open /\ md'.current = i /\ md'.inFlight = md.inFlight
    BY <1>4, <2>2, <2>6 DEF Kept
  <2>8. Filled(md')
    BY <1>4, <2>7, KeptFilled
  <2>9. Neat(md')
    BY <2>2, <2>6 DEF Neat
  <2>10. Fresh
    BY <1>12, <2>5, <2>7, <2>8, <2>9 DEF Shape
  <2>11. MdTyped'
    BY <1>12 DEF Base, MdTyped
  <2>12. Landing'
    <3>1. Searching' = Searching
      BY <1>12 DEF Searching
    <3> QED
      BY <2>7, <3>1 DEF Base, Landing
  <2>13. Claims'
    BY <1>12, <2>7 DEF Base, Claims
  <2>14. Owned'
    BY <1>1, <1>12, <2>7 DEF Owned, Live
  <2>15. Replied'
    BY <2>6 DEF Replied, Rests
  <2> QED
    BY <1>10, <2>10, <2>11, <2>12, <2>13, <2>14, <2>15 DEF Base
<1> QED
  BY <1>8, <1>9, <1>11, <1>12

---------------------------------------------------------------------------
(* Typing. *)

LEMMA TypedTexts ==
  Typed \subseteq Texts
<1>1. bother \in Queries => Typed \subseteq Texts
  <2>1. bother \in Queries => bother # "switch"
    BY DEF Queries, Words
  <2> QED
    BY <2>1, Zenon DEF Typed, Texts
<1>2. bother = "switch" => Typed \subseteq Texts
  <2>1. bother = "switch" => bother \notin Queries
    BY DEF Queries, Words
  <2>2. {"words", "exact"} \subseteq Queries
    BY DEF Queries, Words
  <2> QED
    BY <2>1, <2>2, Zenon DEF Typed, Texts
<1>3. bother \notin Queries /\ bother # "switch" => Typed \subseteq Texts
  <2>1. {"words"} \subseteq Queries
    BY DEF Queries, Words
  <2> QED
    BY <2>1, Zenon DEF Typed, Texts
<1> QED
  BY <1>1, <1>2, <1>3

LEMMA ClearedShape ==
  ASSUME NEW d \in ModalType, Neat(d)
  PROVE  LET e == Cleared(d)
         IN  Shape(e) /\ ~Filled(e) /\ e.current = 0 /\ ~e.timer /\ e.open = d.open
             /\ e.inFlight = d.inFlight
<1>1. PICK blank \in Texts : blank = ""
  BY Zenon DEF Texts
<1>2. PICK a : a = [d EXCEPT !.text = blank, !.timer = FALSE, !.current = 0, !.entry = NoText]
  OBVIOUS
<1>3. a \in ModalType
  <2>1. 0 \in 0 .. SearchSlots
    BY SearchConstants
  <2> QED
    BY <1>2, <2>1 DEF ModalType
<1>4. /\ a.open = d.open /\ a.text = blank /\ a.current = 0 /\ ~a.timer /\ a.inFlight = d.inFlight
      /\ a.rows = d.rows /\ a.shown = d.shown /\ a.sel = d.sel
  BY <1>2 DEF ModalType
<1>5. Neat(a)
  BY <1>4 DEF Neat
<1>6. PICK b : b = Advance(a, "clear")
  OBVIOUS
<1>7. b \in ModalType /\ Neat(b) /\ Kept(a, b) /\ b.pipe = Ladder0
  BY <1>3, <1>5, <1>6, AdvanceDraws DEF Draws, Events
<1>8. PICK e : e = renderEmpty(b)
  OBVIOUS
<1>9. e \in ModalType /\ Neat(e) /\ Kept(b, e) /\ e.pipe = b.pipe /\ e.rows = 0 /\ Clear(e)
  BY <1>7, <1>8, EmptyPaints DEF Paints, Draws
<1>10. e = Cleared(d)
  <2>1. a = [d EXCEPT !.text = "", !.timer = FALSE, !.current = 0, !.entry = NoText]
    BY <1>1, <1>2, Zenon
  <2> QED
    BY <1>6, <1>8, <2>1, Zenon DEF Cleared
<1>11. /\ e.text = blank /\ e.open = d.open /\ e.current = 0 /\ ~e.timer
       /\ e.inFlight = d.inFlight
  BY <1>4, <1>7, <1>9 DEF Kept
<1>12. ~Filled(e)
  BY <1>1, <1>11, Zenon DEF Filled
<1>13. Shape(e)
  BY <1>7, <1>9, <1>11 DEF Shape
<1> QED
  BY <1>10, <1>11, <1>12, <1>13

LEMMA ArmedShape ==
  ASSUME NEW d \in ModalType, Neat(d), NEW t \in Queries
  PROVE  LET e == Armed(d, t)
         IN  Shape(e) /\ e.timer /\ e.open = d.open /\ e.inFlight = d.inFlight
<1>1. PICK e : e = [d EXCEPT !.text = t, !.timer = TRUE]
  OBVIOUS
<1>2. t \in Texts
  BY Zenon DEF Texts
<1>3. e \in ModalType
  BY <1>1, <1>2 DEF ModalType
<1>4. /\ e.timer /\ e.text = t /\ e.open = d.open /\ e.inFlight = d.inFlight
      /\ e.rows = d.rows /\ e.shown = d.shown /\ e.sel = d.sel
  BY <1>1 DEF ModalType
<1>5. Neat(e)
  BY <1>4 DEF Neat
<1>6. Filled(e)
  <2>1. t # ""
    BY DEF Queries, Words
  <2> QED
    BY <1>4, <2>1, Zenon DEF Filled
<1> QED
  BY <1>1, <1>3, <1>4, <1>5, <1>6 DEF Shape, Armed

\* scheduleSearch.
LEMMA TypeKeeps ==
  ASSUME ModalInv, NEW t \in Typed, Type(t)
  PROVE  ModalInv'
<1>1. PICK r : r = IF t # md.text THEN Retyped(md) ELSE md
  OBVIOUS
<1>2. r \in ModalType /\ Neat(r) /\ r.open /\ r.inFlight = md.inFlight
  <2>1. md \in ModalType /\ Neat(md) /\ md.open
    BY DEF ModalInv, Base, Shape, Type
  <2>2. CASE t = md.text
    BY <1>1, <2>1, <2>2
  <2>3. CASE t # md.text
    <3>1. r = [md EXCEPT !.sel = 0, !.key = NoKey, !.lost = FALSE]
      BY <1>1, <2>3 DEF Retyped
    <3>2. r \in ModalType
      BY <2>1, <3>1 DEF ModalType
    <3>3. /\ r.sel = 0 /\ r.rows = md.rows /\ r.shown = md.shown /\ r.open
          /\ r.inFlight = md.inFlight
      BY <2>1, <3>1 DEF ModalType
    <3>4. Neat(r)
      BY <2>1, <3>3 DEF Neat, ModalType
    <3> QED
      BY <3>2, <3>3, <3>4
  <2> QED
    BY <2>2, <2>3
<1>3. md' = IF t = "" THEN Cleared(r) ELSE Armed(r, t)
  BY <1>1, Zenon DEF Type
<1>4. /\ run' = run /\ call' = call /\ headless' = headless /\ hasFrame' = hasFrame
      /\ stored' = stored /\ count' = count
  BY DEF Type
<1>5. /\ Shape(md') /\ md'.open /\ md'.inFlight = md.inFlight
      /\ md'.timer \/ (md'.current = 0 /\ ~Filled(md'))
  <2>1. t \in Texts
    BY TypedTexts
  <2>2. CASE t = ""
    <3>1. md' = Cleared(r)
      BY <1>3, <2>2, Zenon
    <3> QED
      BY <1>2, <3>1, ClearedShape
  <2>3. CASE t # ""
    <3>1. md' = Armed(r, t) /\ t \in Queries
      BY <1>3, <2>1, <2>3, Zenon DEF Texts
    <3> QED
      BY <1>2, <3>1, ArmedShape
  <2> QED
    BY <2>2, <2>3, Zenon
<1>6. MdTyped' /\ Landing' /\ Claims' /\ Counted'
  <2>1. Searching' = Searching
    BY <1>4 DEF Searching
  <2> QED
    BY <1>4, <1>5, <2>1 DEF ModalInv, Base, MdTyped, Landing, Claims, Counted
<1>7. Owned'
  BY <1>5, RunsTyped DEF Owned, Live
<1>8. Replied'
  BY <1>5 DEF Replied, Rests
<1> QED
  BY <1>5, <1>6, <1>7, <1>8 DEF ModalInv, Base

LEMMA FireKeeps ==
  ASSUME ModalInv, NEW i \in Runs, Fire(i)
  PROVE  ModalInv'
<1>1. md.timer /\ run[i].at = "none" /\ StartRun(md, i)
      /\ UNCHANGED <<headless, hasFrame, stored>>
  BY DEF Fire, FreeRun
<1>2. Base /\ Shape(md) /\ md.open /\ Filled(md)
  BY <1>1 DEF ModalInv, Base, Claims, Shape
<1> QED
  BY <1>1, <1>2, RunStarts DEF ModalInv

---------------------------------------------------------------------------
(* Runs. *)

LEMMA LiveFilled ==
  ASSUME Base, NEW i \in Runs, Live(i)
  PROVE  Filled(md)
  BY RunsTyped DEF Base, Shape, Live

LEMMA PaintedShape ==
  ASSUME Base, NEW i \in Runs, NEW t, t \in SqSteps(i)
  PROVE  /\ Draws(md, Painted(i, t)) /\ Shape(Painted(i, t))
         /\ ~Live(i) => Painted(i, t) = md
<1>1. t.emit \in Emits \cup {"none"}
  BY StepsTyped, RunsTyped DEF Base
<1>2. CASE Painted(i, t) = md
  BY <1>2 DEF Base, Shape, Draws, Kept
<1>3. CASE t.emit # "none" /\ Live(i)
  <2>1. Draws(md, Painted(i, t))
    BY <1>1, <1>3, PartialDraws DEF Base, Shape, Painted
  <2>2. Filled(Painted(i, t))
    BY <1>3, <2>1, LiveFilled, KeptFilled DEF Draws, Kept
  <2> QED
    BY <1>3, <2>1, <2>2 DEF Draws, Shape
<1> QED
  BY <1>2, <1>3 DEF Painted

LEMMA StepKeeps ==
  ASSUME ModalInv, NEW i \in Runs, Step(i)
  PROVE  ModalInv'
<1>1. PICK t \in SqSteps(i) : call' = Moved(i, t) /\ md' = Painted(i, t)
  BY DEF Step
<1>2. /\ run' = run /\ superseded' = superseded /\ headless' = headless /\ hasFrame' = hasFrame
      /\ stored' = stored /\ count' = count
  BY DEF Step
<1>3. Draws(md, md') /\ Shape(md') /\ (~Live(i) => md' = md)
  BY <1>1, PaintedShape DEF ModalInv
<1>4. call' \in [SqIds -> CallType]
  BY <1>1, MovedCalls, RunsTyped DEF ModalInv, Base
<1>5. MdTyped'
  BY <1>2, <1>4 DEF ModalInv, Base, MdTyped
<1>6. \A j \in Runs : /\ call'[j].text = call[j].text
                      /\ call'[j].stage = "aborted" =>
                           j \in superseded \/ call[j].stage = "aborted"
  BY <1>1, MovedCalls, RunsTyped DEF ModalInv, Base
<1>7. Rests(md) /\ Done(md) => OnItsWay \/ Done(md')
  BY <1>3 DEF OnItsWay
<1>10. Searching' = Searching
  BY <1>2 DEF Searching
<1>8. Base'
  BY <1>2, <1>10, <1>3, <1>5, <1>6, <1>7, SameRuns DEF ModalInv, Draws
<1>9. Counted'
  BY <1>2, <1>3 DEF ModalInv, Counted, Draws, Kept
<1> QED
  BY <1>8, <1>9 DEF ModalInv

LEMMA ToldDraws ==
  ASSUME NEW d \in ModalType, Neat(d), NEW hits
  PROVE  Draws(d, Told(Found(d, hits)))
<1>1. PICK f : f = Found(d, hits)
  OBVIOUS
<1>2. Draws(d, f)
  <2>1. PICK r : r = renderResults(d, 2)
    OBVIOUS
  <2>2. r \in ModalType /\ Neat(r) /\ Kept(d, r)
    BY <2>1, ResultsPaint DEF Hits, Paints, Draws
  <2>3. paintWarmupHint(r) \in ModalType /\ Neat(paintWarmupHint(r)) /\ Kept(r, paintWarmupHint(r))
    BY <2>2, HintPaints DEF Paints, Draws
  <2>4. f = paintWarmupHint(r) \/ f = d
    BY <1>1, <2>1 DEF Found
  <2> QED
    BY <2>2, <2>3, <2>4 DEF Draws, Kept
<1>3. Draws(f, Told(f))
  <2>1. Draws(f, renderStatus(f, "status"))
    BY <1>2, StatusPaints DEF Paints, Draws
  <2>2. Draws(f, f)
    BY <1>2 DEF Draws, Kept
  <2> QED
    BY <2>1, <2>2 DEF Told
<1> QED
  BY <1>1, <1>2, <1>3 DEF Draws, Kept

\* searchLexicalOnly settles: the rows, or an error that leaves the list as it is.
LEMMA LexicalEndsKeeps ==
  ASSUME ModalInv, NEW i \in Runs, LexicalEnds(i)
  PROVE  ModalInv'
<1>1. run[i].at = "lexical" /\ headless' = headless /\ hasFrame' = hasFrame /\ stored' = stored
      /\ count' = count
  BY DEF LexicalEnds
<1>2. PICK t \in SqSteps(i) :
        /\ t.stage \in Ended
        /\ \/ /\ t.stage = "answered" /\ Live(i)
              /\ md' = Told(Found(Painted(i, t), t.hits))
              /\ run' = [run EXCEPT ![i].at = "model"]
              /\ call' = [Moved(i, t) EXCEPT ![i].hits = 0]
              /\ UNCHANGED superseded
           \/ /\ t.stage # "answered" \/ ~Live(i)
              /\ EndRun([Painted(i, t) EXCEPT !.lost = @ \/ (t.stage = "failed" /\ Live(i))],
                        i, Moved(i, t))
  BY DEF LexicalEnds
<1>3. Base
  BY DEF ModalInv
<1>4. PICK p : p = Painted(i, t)
  OBVIOUS
<1>5. Draws(md, p) /\ Shape(p) /\ (~Live(i) => p = md)
  BY <1>3, <1>4, PaintedShape
<1>6. PICK calls : calls = Moved(i, t)
  OBVIOUS
<1>7. /\ calls \in [SqIds -> CallType]
      /\ \A j \in Runs : /\ calls[j].text = call[j].text
                         /\ calls[j].stage = "aborted" =>
                              j \in superseded \/ call[j].stage = "aborted"
      /\ calls[i].stage = t.stage
  BY <1>3, <1>6, MovedCalls, RunsTyped DEF Base
<1>8. i \notin Searching
  BY <1>1 DEF Searching
<1>9. CASE /\ t.stage = "answered" /\ Live(i)
           /\ md' = Told(Found(Painted(i, t), t.hits))
           /\ run' = [run EXCEPT ![i].at = "model"]
           /\ call' = [Moved(i, t) EXCEPT ![i].hits = 0]
           /\ UNCHANGED superseded
  <2>1. Draws(p, md')
    BY <1>4, <1>5, <1>9, ToldDraws DEF Shape
  <2>2. md' \in ModalType /\ Neat(md') /\ Kept(md, md')
    BY <1>5, <2>1 DEF Draws, Kept
  <2>3. Filled(md')
    BY <1>3, <1>9, <2>2, LiveFilled, KeptFilled DEF Kept
  <2>4. Shape(md')
    BY <2>2, <2>3 DEF Shape
  <2>5. \A j \in Runs : j # i => run'[j] = run[j]
    BY <1>3, <1>9 DEF Base, MdTyped
  <2>6. (run'[i].mine <=> run[i].mine) /\ run'[i].at = "model"
    BY <1>3, <1>9 DEF Base, MdTyped, RunType
  <2>7. run' \in [Runs -> RunType]
    BY <1>3, <1>9 DEF Base, MdTyped, RunType
  <2>8. call' = [calls EXCEPT ![i].hits = 0]
    BY <1>6, <1>9
  <2>9. call' \in [SqIds -> CallType]
    BY <1>7, <2>8 DEF CallType, Hits
  <2>10. \A j \in Runs : call'[j].text = calls[j].text /\ call'[j].stage = calls[j].stage
    BY <1>7, <2>8, RunsTyped DEF CallType
  <2>11. MdTyped'
    BY <1>1, <1>3, <2>7, <2>9 DEF Base, MdTyped
  <2>12. Searching' = Searching
    BY <1>8, <2>5, <2>6 DEF Searching
  <2>13. \A j \in Runs : /\ run'[j].mine <=> run[j].mine
                         /\ run'[j].at = "none" => run[j].at = "none"
    BY <2>5, <2>6
  <2>14. \A j \in Runs : /\ call'[j].text = call[j].text
                         /\ call'[j].stage = "aborted" =>
                              j \in superseded \/ call[j].stage = "aborted"
    BY <1>7, <2>10
  <2>15. superseded' = superseded /\ OnItsWay
    BY <1>9 DEF OnItsWay
  <2>16. Base'
    BY <1>3, <2>2, <2>4, <2>11, <2>12, <2>13, <2>14, <2>15, SameRuns
  <2>17. Counted'
    BY <1>1, <2>2 DEF ModalInv, Counted, Kept
  <2> QED
    BY <2>16, <2>17 DEF ModalInv
<1>10. CASE /\ t.stage # "answered" \/ ~Live(i)
            /\ EndRun([Painted(i, t) EXCEPT !.lost = @ \/ (t.stage = "failed" /\ Live(i))],
                      i, Moved(i, t))
  <2>1. PICK lost \in BOOLEAN : lost = (p.lost \/ (t.stage = "failed" /\ Live(i)))
    BY Zenon
  <2>2. PICK d : d = [p EXCEPT !.lost = lost]
    OBVIOUS
  <2>3. EndRun(d, i, calls)
    BY <1>4, <1>6, <1>10, <2>1, <2>2, Zenon
  <2>4. d \in ModalType /\ Alike(p, d) /\ (d.lost <=> lost)
    BY <1>5, <2>2 DEF Shape, ModalType, Alike
  <2>5. Shape(d)
    BY <1>5, <2>4, AlikeShape
  <2>6. /\ d.open = md.open /\ d.text = md.text /\ d.current = md.current
        /\ d.timer = md.timer /\ d.inFlight = md.inFlight
    BY <1>5, <2>4 DEF Draws, Kept, Alike
  <2>7. d.inFlight = Cardinality(Searching \ {i})
    <3>1. Searching \ {i} = Searching
      BY <1>8
    <3> QED
      BY <1>3, <2>6, <3>1 DEF Base, Landing
  <2>8. Rests(d) => (\E j \in Runs \ {i} : Live(j)) \/ Done(d)
    <3>1. CASE Live(i) /\ t.stage = "failed"
      <4>1. lost
        BY <2>1, <3>1, Zenon
      <4> QED
        BY <2>4, <4>1 DEF Rests
    <3>2. CASE Live(i) /\ t.stage = "aborted"
      <4>1. ~Owns(i)
        BY <1>7, <3>2 DEF Owns
      <4>2. md.timer
        BY <1>3, <3>2, <4>1 DEF Base, Owned
      <4> QED
        BY <2>6, <4>2 DEF Rests
    <3>3. CASE ~Live(i)
      <4>1. p = md /\ (lost <=> md.lost)
        BY <1>5, <2>1, <3>3, Zenon
      <4>2. Rests(d) => Rests(md)
        BY <2>4, <2>6, <4>1, KeptFilled DEF Rests
      <4>3. Rests(md) => (\E j \in Runs \ {i} : Live(j)) \/ Done(md)
        BY <1>3, <3>3 DEF Base, Replied, OnItsWay
      <4>4. Done(md) => Done(d)
        BY <2>4, <4>1 DEF Alike, Done, Clear
      <4> QED
        BY <4>2, <4>3, <4>4
    <3> QED
      BY <1>2, <1>10, <3>1, <3>2, <3>3 DEF Ended
  <2>9. Base' /\ md'.inFlight = d.inFlight
    BY <1>1, <1>3, <1>7, <2>3, <2>5, <2>6, <2>7, <2>8, Ends DEF Base, MdTyped
  <2>10. Counted'
    BY <1>1, <2>6, <2>9 DEF ModalInv, Counted
  <2> QED
    BY <2>9, <2>10 DEF ModalInv
<1> QED
  BY <1>2, <1>9, <1>10

LEMMA LostShape ==
  ASSUME NEW d \in ModalType
  PROVE  LET e == [renderStatus(d, "status") EXCEPT !.lost = TRUE]
         IN  /\ e \in ModalType /\ Neat(e) /\ e.lost /\ e.open = d.open /\ e.text = d.text
             /\ e.current = d.current /\ e.timer = d.timer /\ e.inFlight = d.inFlight
<1>1. PICK r : r = renderStatus(d, "status")
  OBVIOUS
<1>2. r \in ModalType /\ Neat(r) /\ Kept(d, r)
  BY <1>1, StatusPaints DEF Paints, Draws
<1>3. PICK e : e = [r EXCEPT !.lost = TRUE]
  OBVIOUS
<1>4. e \in ModalType /\ Alike(r, e) /\ e.lost
  BY <1>2, <1>3 DEF ModalType, Alike
<1>5. Neat(e)
  BY <1>2, <1>4 DEF Neat, Alike
<1>6. /\ e.open = d.open /\ e.text = d.text /\ e.current = d.current
      /\ e.timer = d.timer /\ e.inFlight = d.inFlight
  BY <1>2, <1>4 DEF Alike, Kept
<1> QED
  BY <1>1, <1>3, <1>4, <1>5, <1>6

\* The model is there, or it is not.
LEMMA ModelAwaitedKeeps ==
  ASSUME ModalInv, NEW i \in Runs, ModelAwaited(i)
  PROVE  ModalInv'
<1>1. run[i].at = "model" /\ headless' = headless /\ hasFrame' = hasFrame /\ stored' = stored
  BY DEF ModelAwaited
<1>2. \/ Live(i) /\ BeginSearch(md, i, call[i].text, i \in superseded) /\ UNCHANGED superseded
      \/ Live(i) /\ EndRun([renderStatus(md, "status") EXCEPT !.lost = TRUE], i, call)
            /\ UNCHANGED count
      \/ ~Live(i) /\ EndRun(md, i, call) /\ UNCHANGED count
  BY DEF ModelAwaited
<1>3. Base
  BY DEF ModalInv
<1>4. i \notin Searching
  BY <1>1 DEF Searching
<1>5. md.inFlight = Cardinality(Searching \ {i})
  <2>1. Searching \ {i} = Searching
    BY <1>4
  <2> QED
    BY <1>3, <2>1 DEF Base, Landing
<1>6. CASE Live(i) /\ BeginSearch(md, i, call[i].text, i \in superseded) /\ UNCHANGED superseded
  <2>1. PICK gone \in BOOLEAN : gone = (i \in superseded)
    <3>1. (i \in superseded) \in BOOLEAN
      OBVIOUS
    <3> QED
      BY <3>1, Zenon
  <2>2. PICK c : c = Started("full", call[i].text, gone)
    OBVIOUS
  <2>3. call[i].text \in Queries
    BY <1>3, RunsTyped DEF Base, MdTyped, CallType
  <2>4. c \in CallType /\ c.text = call[i].text /\ (c.stage = "aborted" => gone = TRUE)
    BY <2>2, <2>3, StartedTyped
  <2>5. /\ md' = [setSearching(md) EXCEPT !.inFlight = @ + 1]
        /\ count' = IF md.inFlight = 0 THEN count + 1 ELSE count
        /\ run' = [run EXCEPT ![i] = [at |-> "search", mine |-> TRUE]]
        /\ call' = [call EXCEPT ![i] = c]
    BY <1>6, <2>1, <2>2, Zenon DEF BeginSearch
  <2>6. c.stage = "aborted" => i \in superseded
    BY <2>1, <2>4, Zenon
  <2>7. superseded' = superseded
    BY <1>6
  <2>8. ~md.timer => c.text = md.text /\ c.stage # "aborted" /\ i \notin superseded'
    BY <1>3, <1>6, <2>4, <2>6, <2>7 DEF Base, Owned, Owns
  <2>9. Filled(md) /\ md.open /\ md.current = i
    BY <1>3, <1>6, LiveFilled DEF Live
  <2> QED
    BY <1>1, <1>3, <1>4, <2>4, <2>5, <2>8, <2>9, Begins DEF ModalInv, Base
<1>7. ASSUME NEW d, EndRun(d, i, call), UNCHANGED count, Shape(d), d.open = md.open,
             d.text = md.text, d.current = md.current, d.timer = md.timer,
             d.inFlight = md.inFlight,
             Rests(d) => (\E j \in Runs \ {i} : Live(j)) \/ Done(d)
      PROVE  ModalInv'
  <2>1. call \in [SqIds -> CallType] /\ headless' \in {"none", "model", "search"}
    BY <1>1, <1>3 DEF Base, MdTyped
  <2>2. Base' /\ md'.inFlight = d.inFlight
    BY <1>1, <1>3, <1>5, <1>7, <2>1, Ends
  <2>3. Counted'
    BY <1>1, <1>7, <2>2 DEF ModalInv, Counted
  <2> QED
    BY <2>2, <2>3 DEF ModalInv
<1>8. CASE Live(i) /\ EndRun([renderStatus(md, "status") EXCEPT !.lost = TRUE], i, call)
            /\ UNCHANGED count
  <2>1. PICK d : d = [renderStatus(md, "status") EXCEPT !.lost = TRUE]
    OBVIOUS
  <2>2. /\ d \in ModalType /\ Neat(d) /\ d.lost /\ d.open = md.open /\ d.text = md.text
        /\ d.current = md.current /\ d.timer = md.timer /\ d.inFlight = md.inFlight
    BY <1>3, <2>1, LostShape DEF Base, Shape
  <2>3. Filled(d)
    BY <1>3, <1>8, <2>2, LiveFilled, KeptFilled
  <2>4. Shape(d) /\ ~Rests(d)
    BY <2>2, <2>3 DEF Shape, Rests
  <2> QED
    BY <1>7, <1>8, <2>1, <2>2, <2>4
<1>9. CASE ~Live(i) /\ EndRun(md, i, call) /\ UNCHANGED count
  <2>1. Rests(md) => (\E j \in Runs \ {i} : Live(j)) \/ Done(md)
    BY <1>3, <1>9 DEF Base, Replied, OnItsWay
  <2> QED
    BY <1>3, <1>7, <1>9, <2>1 DEF Base
<1> QED
  BY <1>2, <1>6, <1>8, <1>9

\* Answered: the list is painted and the ladder is at its end.
LEMMA AnsweredShape ==
  ASSUME NEW d \in ModalType, Neat(d), NEW text \in Queries, NEW hits \in Hits
  PROVE  LET e == Answered(d, text, hits)
         IN  /\ e \in ModalType /\ Neat(e) /\ Clear(e) /\ e.pipe = LadderDone
             /\ e.entry = text /\ e.lost = d.lost /\ e.open = d.open /\ e.text = d.text
             /\ e.current = d.current /\ e.timer = d.timer /\ e.inFlight = d.inFlight
<1>1. PICK a : a = [d EXCEPT !.entry = text]
  OBVIOUS
<1>2. a \in ModalType
  BY <1>1 DEF ModalType
<1>3. /\ a.entry = text /\ a.lost = d.lost /\ a.open = d.open /\ a.text = d.text
      /\ a.current = d.current /\ a.timer = d.timer /\ a.inFlight = d.inFlight
  BY <1>1 DEF ModalType
<1>4. PICK r : r = IF text = "broken" THEN renderStatus(a, "status") ELSE renderResults(a, hits)
  OBVIOUS
<1>5. r \in ModalType /\ Neat(r) /\ Kept(a, r) /\ Clear(r)
  BY <1>2, <1>4, StatusPaints, ResultsPaint DEF Paints, Draws
<1>6. PICK e : e = Advance(r, "final")
  OBVIOUS
<1>7. e \in ModalType /\ Neat(e) /\ Kept(r, e) /\ Clear(e) /\ e.pipe = LadderDone
  BY <1>5, <1>6, AdvanceDraws DEF Draws, Events
<1>8. e = Answered(d, text, hits)
  BY <1>1, <1>4, <1>6 DEF Answered
<1> QED
  BY <1>3, <1>5, <1>7, <1>8 DEF Kept

\* search() settles.
LEMMA SearchEndsKeeps ==
  ASSUME ModalInv, NEW i \in Runs, SearchEnds(i)
  PROVE  ModalInv'
<1>1. /\ run[i].at = "search" /\ headless' = headless /\ hasFrame' = hasFrame
      /\ stored' = stored
      /\ count' = IF run[i].mine /\ md.inFlight = 1 THEN Larger(0, count - 1) ELSE count
  BY DEF SearchEnds
<1>2. PICK t \in SqSteps(i) :
        /\ t.stage \in Ended
        /\ EndRun(Shown(Landed(Painted(i, t), i), i, t), i, Moved(i, t))
  BY DEF SearchEnds
<1>3. Base
  BY DEF ModalInv
<1>4. PICK p : p = Painted(i, t)
  OBVIOUS
<1>5. Draws(md, p) /\ Shape(p) /\ (~Live(i) => p = md)
  BY <1>3, <1>4, PaintedShape
<1>6. PICK calls : calls = Moved(i, t)
  OBVIOUS
<1>7. /\ calls \in [SqIds -> CallType]
      /\ \A j \in Runs : /\ calls[j].text = call[j].text
                         /\ calls[j].stage = "aborted" =>
                              j \in superseded \/ call[j].stage = "aborted"
      /\ calls[i].stage = t.stage
  BY <1>3, <1>6, MovedCalls, RunsTyped DEF Base
<1>8. i \in Searching <=> run[i].mine
  BY <1>1 DEF Searching
<1>9. PICK l : l = Landed(p, i)
  OBVIOUS
<1>10. /\ l \in ModalType /\ l.inFlight = Cardinality(Searching \ {i})
       /\ l.inFlight = IF run[i].mine THEN md.inFlight - 1 ELSE md.inFlight
       /\ run[i].mine => md.inFlight > 0
       /\ md.inFlight \in Nat
  <2>1. /\ md.inFlight \in Nat /\ md.inFlight = Cardinality(Searching)
        /\ p \in ModalType /\ p.inFlight = md.inFlight
    BY <1>3, <1>5 DEF Base, Landing, Shape, Draws, Kept, ModalType
  <2>2. CASE run[i].mine
    <3>1. md.inFlight > 0 /\ Cardinality(Searching \ {i}) = md.inFlight - 1
      BY <1>3, <1>8, <2>1, <2>2, CountsSearches DEF Base
    <3>2. PICK n \in Nat : n = md.inFlight - 1
      BY <2>1, <3>1
    <3>3. l = [p EXCEPT !.inFlight = n]
      BY <1>9, <2>1, <2>2, <3>2 DEF Landed
    <3>4. l \in ModalType /\ l.inFlight = n
      BY <2>1, <3>3 DEF ModalType
    <3> QED
      BY <2>1, <2>2, <3>1, <3>2, <3>4
  <2>3. CASE ~run[i].mine
    <3>1. Searching \ {i} = Searching /\ l = p
      BY <1>8, <1>9, <2>3 DEF Landed
    <3> QED
      BY <2>1, <2>3, <3>1
  <2> QED
    BY <2>2, <2>3
<1>11. /\ l.open = md.open /\ l.text = md.text /\ l.current = md.current
       /\ l.timer = md.timer /\ l.lost = md.lost /\ l.entry = md.entry
       /\ l.rows = p.rows /\ l.shown = p.shown /\ l.sel = p.sel
       /\ l.dim = p.dim /\ l.dom = p.dom /\ l.pipe = p.pipe
  <2>1. /\ l.open = p.open /\ l.text = p.text /\ l.current = p.current
        /\ l.timer = p.timer /\ l.lost = p.lost /\ l.entry = p.entry
        /\ l.rows = p.rows /\ l.shown = p.shown /\ l.sel = p.sel
        /\ l.dim = p.dim /\ l.dom = p.dom /\ l.pipe = p.pipe
    BY <1>5, <1>9 DEF Landed, Shape, ModalType
  <2> QED
    BY <1>5, <2>1 DEF Draws, Kept
<1>12. Shape(l)
  <2>1. Filled(l) <=> Filled(p)
    BY <1>5, <1>11, KeptFilled DEF Draws, Kept
  <2>2. Neat(l) /\ (Clear(p) => Clear(l))
    BY <1>5, <1>11 DEF Shape, Neat, Clear
  <2>3. p.current = l.current /\ p.timer = l.timer
    BY <1>5, <1>11 DEF Draws, Kept
  <2> QED
    BY <1>5, <1>10, <1>11, <2>1, <2>2, <2>3 DEF Shape
<1>13. PICK d : d = Shown(l, i, t)
  OBVIOUS
<1>14. EndRun(d, i, calls)
  BY <1>2, <1>4, <1>6, <1>9, <1>13
<1> DEFINE Good == /\ Shape(d) /\ d.open = md.open /\ d.text = md.text /\ d.current = md.current
                   /\ d.timer = md.timer /\ d.inFlight = l.inFlight
                   /\ Rests(d) => (\E j \in Runs \ {i} : Live(j)) \/ Done(d)
<1>15. ASSUME t.stage = "answered" /\ Live(i)
       PROVE  Good
  <2>1. call[i].text \in Queries /\ t.hits \in Hits
    BY <1>3, RunsTyped, StepsTyped DEF Base, MdTyped, CallType
  <2>2. d = Answered(l, call[i].text, t.hits)
    BY <1>13, <1>15 DEF Shown
  <2>3. /\ d \in ModalType /\ Neat(d) /\ Clear(d) /\ d.pipe = LadderDone
        /\ d.entry = call[i].text /\ d.open = l.open /\ d.text = l.text
        /\ d.current = l.current /\ d.timer = l.timer /\ d.inFlight = l.inFlight
    BY <1>12, <2>1, <2>2, AnsweredShape DEF Shape
  <2>4. Filled(d)
    BY <1>3, <1>11, <1>15, <2>3, LiveFilled, KeptFilled
  <2>5. Rests(d) => Done(d)
    <3>1. ~md.timer => call[i].text = md.text
      BY <1>3, <1>15 DEF Base, Owned, Owns
    <3> QED
      BY <1>11, <2>3, <3>1 DEF Rests, Done
  <2> QED
    BY <1>11, <2>3, <2>4, <2>5 DEF Shape
<1>16. ASSUME t.stage = "failed" /\ Live(i)
       PROVE  Good
  <2>1. d = [renderStatus(l, "status") EXCEPT !.lost = TRUE]
    BY <1>13, <1>16 DEF Shown
  <2>2. /\ d \in ModalType /\ Neat(d) /\ d.lost /\ d.open = l.open /\ d.text = l.text
        /\ d.current = l.current /\ d.timer = l.timer /\ d.inFlight = l.inFlight
    BY <1>10, <2>1, LostShape
  <2>3. Filled(d)
    BY <1>3, <1>11, <1>16, <2>2, LiveFilled, KeptFilled
  <2> QED
    BY <1>11, <2>2, <2>3 DEF Shape, Rests
<1>17. ASSUME t.stage = "aborted" /\ Live(i)
       PROVE  Good
  <2>1. d = l
    BY <1>13, <1>17 DEF Shown
  <2>2. ~Owns(i)
    BY <1>7, <1>17 DEF Owns
  <2>3. md.timer
    BY <1>3, <1>17, <2>2 DEF Base, Owned
  <2> QED
    BY <1>11, <1>12, <2>1, <2>3 DEF Rests
<1>18. ASSUME ~Live(i)
       PROVE  Good
  <2>1. d = l /\ p = md
    BY <1>5, <1>13, <1>18 DEF Shown
  <2>2. Rests(d) => Rests(md)
    BY <1>11, <2>1, KeptFilled DEF Rests
  <2>3. Rests(md) => (\E j \in Runs \ {i} : Live(j)) \/ Done(md)
    BY <1>3, <1>18 DEF Base, Replied, OnItsWay
  <2>4. Done(md) => Done(d)
    BY <1>11, <2>1 DEF Done, Clear
  <2> QED
    BY <1>11, <1>12, <2>1, <2>2, <2>3, <2>4
<1>19. Good
  BY <1>2, <1>15, <1>16, <1>17, <1>18 DEF Ended
<1>20. Base' /\ md'.inFlight = d.inFlight
  <2>1. headless' \in {"none", "model", "search"} /\ UNCHANGED <<hasFrame, stored>>
    BY <1>1, <1>3 DEF Base, MdTyped
  <2>2. d.inFlight = Cardinality(Searching \ {i})
    BY <1>10, <1>19
  <2> QED
    BY <1>3, <1>7, <1>14, <1>19, <2>1, <2>2, Ends
<1>21. Counted'
  <2>1. md'.inFlight = IF run[i].mine THEN md.inFlight - 1 ELSE md.inFlight
    BY <1>10, <1>19, <1>20
  <2>2. PICK h \in {0, 1} : h = IF headless = "none" THEN 0 ELSE 1
    OBVIOUS
  <2>3. count = h + (IF md.inFlight = 0 THEN 0 ELSE 1)
    BY <2>2 DEF ModalInv, Counted, Holds
  <2>4. count' = h + (IF md'.inFlight = 0 THEN 0 ELSE 1)
    BY <1>1, <1>10, <2>1, <2>3 DEF Larger
  <2> QED
    BY <1>1, <2>2, <2>4 DEF Counted, Holds
<1> QED
  BY <1>20, <1>21 DEF ModalInv

---------------------------------------------------------------------------
(* The model, and the poll of the index. *)

\* What is painted into an empty field.
LEMMA BlankShape ==
  ASSUME NEW d, NEW e, Shape(d), ~Filled(d), Paints(d, e), e.rows = 0, Clear(e)
  PROVE  Shape(e) /\ Kept(d, e)
<1>1. e \in ModalType /\ Neat(e) /\ Kept(d, e) /\ e.pipe = d.pipe
  BY DEF Paints, Draws
<1> QED
  BY <1>1 DEF Shape, Kept

LEMMA HeadlessStarted ==
  ASSUME Base, call' = [call EXCEPT ![Headless] = Started("full", "words", FALSE)]
  PROVE  call' \in [SqIds -> CallType] /\ \A i \in Runs : call'[i] = call[i]
<1>1. "words" \in Queries
  BY DEF Queries, Words
<1>2. PICK c \in CallType : c = Started("full", "words", FALSE)
  BY <1>1, StartedTyped
<1>3. call' = [call EXCEPT ![Headless] = c]
  BY <1>2
<1> QED
  BY <1>3, RunsTyped DEF Base, MdTyped

LEMMA ModelSettlesKeeps ==
  ASSUME ModalInv, ModelSettles
  PROVE  ModalInv'
<1>1. /\ run' = run /\ superseded' = superseded /\ hasFrame' = hasFrame /\ stored' = stored
      /\ Loaded \/ NotLoaded
  BY DEF ModelSettles
<1>2. Base
  BY DEF ModalInv
<1>3. Shape(md) /\ md \in ModalType
  BY <1>2 DEF Base, Shape
<1>4. PICK a : a = [md EXCEPT !.ready = TRUE]
  OBVIOUS
<1>5. PICK b : b = [md EXCEPT !.failed = TRUE]
  OBVIOUS
<1>6. a \in ModalType /\ Alike(md, a) /\ a.ctl = md.ctl /\ a.lost = md.lost
  BY <1>3, <1>4 DEF ModalType, Alike
<1>7. b \in ModalType /\ Alike(md, b) /\ b.ctl = md.ctl /\ b.lost = md.lost
  BY <1>3, <1>5 DEF ModalType, Alike
<1>8. Shape(a) /\ Shape(b) /\ (Filled(a) <=> Filled(md)) /\ (Filled(b) <=> Filled(md))
  BY <1>3, <1>6, <1>7, AlikeShape, KeptFilled DEF Alike
<1> DEFINE Good == Shape(md') /\ Kept(md, md') /\ (Rests(md) /\ Done(md) => Done(md'))
<1>9. ASSUME NEW e, e \in {a, b}
      PROVE  Kept(md, e) /\ (Done(md) => Done(e))
  BY <1>6, <1>7, <1>9 DEF Alike, Kept, Done, Clear
<1>10. \/ md' = md \/ md' = a \/ md' = b
       \/ ~Filled(md) /\ (md' = renderEmpty(a) \/ md' = renderStatus(b, "status"))
  BY <1>1, <1>4, <1>5, Zenon DEF Loaded, NotLoaded, Filled
<1>11. ASSUME md' = md
       PROVE  Good
  BY <1>3, <1>11 DEF Kept
<1>12. ASSUME md' = a \/ md' = b
       PROVE  Good
  BY <1>8, <1>9, <1>12
<1>13. ASSUME ~Filled(md), md' = renderEmpty(a)
       PROVE  Good
  <2>1. Paints(a, md') /\ md'.rows = 0 /\ Clear(md')
    BY <1>6, <1>13, EmptyPaints
  <2>2. Shape(md') /\ Kept(a, md')
    BY <1>8, <1>13, <2>1, BlankShape
  <2>3. Kept(md, md')
    BY <1>9, <2>2 DEF Kept
  <2> QED
    BY <1>13, <2>2, <2>3 DEF Rests
<1>14. ASSUME ~Filled(md), md' = renderStatus(b, "status")
       PROVE  Good
  <2>1. Paints(b, md') /\ md'.rows = 0 /\ Clear(md')
    BY <1>7, <1>14, StatusPaints
  <2>2. Shape(md') /\ Kept(b, md')
    BY <1>8, <1>14, <2>1, BlankShape
  <2>3. Kept(md, md')
    BY <1>9, <2>2 DEF Kept
  <2> QED
    BY <1>14, <2>2, <2>3 DEF Rests
<1>15. Good
  BY <1>10, <1>11, <1>12, <1>13, <1>14
<1>16. /\ call' \in [SqIds -> CallType] /\ \A i \in Runs : call'[i] = call[i]
       /\ headless' \in {"none", "model", "search"}
  <2>1. \/ call' = call
        \/ call' = [call EXCEPT ![Headless] = Started("full", "words", FALSE)]
    BY <1>1 DEF Loaded, NotLoaded
  <2>2. headless' \in {headless, "search", "none"}
    BY <1>1 DEF Loaded, NotLoaded
  <2> QED
    BY <1>2, <2>1, <2>2, HeadlessStarted DEF Base, MdTyped
<1>17. Base'
  <2>1. MdTyped'
    BY <1>1, <1>2, <1>16 DEF Base, MdTyped
  <2>2. Searching' = Searching
    BY <1>1 DEF Searching
  <2> QED
    BY <1>1, <1>2, <1>15, <1>16, <2>1, <2>2, SameRuns
<1>18. Counted'
  <2>1. md'.inFlight = md.inFlight
    BY <1>15 DEF Kept
  <2>2. PICK n \in {0, 1} : n = IF md.inFlight = 0 THEN 0 ELSE 1
    OBVIOUS
  <2>3. count = (IF headless = "none" THEN 0 ELSE 1) + n
    BY <2>2 DEF ModalInv, Counted, Holds
  <2>4. CASE Loaded
    <3>1. count' = count /\ (headless' = headless \/ (headless = "model" /\ headless' = "search"))
      BY <2>4 DEF Loaded
    <3> QED
      BY <2>1, <2>2, <2>3, <3>1 DEF Counted, Holds
  <2>5. CASE NotLoaded
    <3>1. \/ headless' = headless /\ count' = count
          \/ headless = "model" /\ headless' = "none" /\ count' = Larger(0, count - 1)
      BY <2>5 DEF NotLoaded
    <3> QED
      BY <2>1, <2>2, <2>3, <3>1 DEF Counted, Holds, Larger
  <2> QED
    BY <1>1, <2>4, <2>5
<1> QED
  BY <1>17, <1>18 DEF ModalInv

LEMMA SeenAlike ==
  ASSUME Base, NEW n \in Int, NEW kind \in Loads
  PROVE  LET e == Seen(md, n, kind)
         IN  e \in ModalType /\ Alike(md, e) /\ e.ctl = md.ctl /\ e.lost = md.lost
<1>1. PICK c \in Int : c = IF n < 0 THEN md.chunks ELSE n
  BY DEF Base, Shape, ModalType
<1>2. PICK e : e = [md EXCEPT !.chunks = c, !.kind = kind, !.frameSeen = hasFrame]
  OBVIOUS
<1>3. e = Seen(md, n, kind)
  BY <1>1, <1>2 DEF Seen
<1>4. md \in ModalType /\ hasFrame \in BOOLEAN
  BY DEF Base, Shape, MdTyped
<1>5. e \in ModalType
  BY <1>2, <1>4 DEF ModalType
<1>6. Alike(md, e) /\ e.ctl = md.ctl /\ e.lost = md.lost
  BY <1>2, <1>4 DEF ModalType, Alike
<1> QED
  BY <1>3, <1>5, <1>6

\* checkIndexState: the list is repainted, or its query is asked again.
LEMMA PollKeeps ==
  ASSUME ModalInv, NEW i \in Runs, Poll(i)
  PROVE  ModalInv'
<1>1. md.open /\ headless' = headless /\ hasFrame' = hasFrame /\ stored' = stored
  BY DEF Poll
<1>2. Base /\ Shape(md) /\ md \in ModalType
  BY DEF ModalInv, Base, Shape
<1>3. PICK n \in {stored, -1} : \E kind \in {LoadKind(Seen(md, n, "resting"))} :
          \/ /\ Retries(n, kind) /\ FreeRun(i)
             /\ StartRun([Seen(md, n, kind) EXCEPT !.key = <<n, kind, hasFrame>>], i)
          \/ /\ \E counted \in {FALSE, warming} :
                   md' = Repainted(Seen(md, n, kind), kind, counted)
             /\ UNCHANGED <<superseded, run, call, count>>
  BY DEF Poll
<1>4. PICK kind \in Loads :
          \/ /\ Retries(n, kind) /\ FreeRun(i)
             /\ StartRun([Seen(md, n, kind) EXCEPT !.key = <<n, kind, hasFrame>>], i)
          \/ /\ \E counted \in {FALSE, warming} :
                   md' = Repainted(Seen(md, n, kind), kind, counted)
             /\ UNCHANGED <<superseded, run, call, count>>
  <2>1. \A d : LoadKind(d) \in Loads
    BY DEF LoadKind, Loads
  <2> QED
    BY <1>3, <2>1
<1>5. n \in Int
  BY <1>2 DEF Base, MdTyped, Hits
<1>6. PICK s : s = Seen(md, n, kind)
  OBVIOUS
<1>7. /\ s \in ModalType /\ Alike(md, s) /\ s.ctl = md.ctl /\ s.lost = md.lost /\ Shape(s)
      /\ Filled(s) <=> Filled(md)
  <2>1. s \in ModalType /\ Alike(md, s) /\ s.ctl = md.ctl /\ s.lost = md.lost
    BY <1>2, <1>5, <1>6, SeenAlike
  <2> QED
    BY <1>2, <2>1, AlikeShape, KeptFilled DEF Alike
<1>8. CASE /\ Retries(n, kind) /\ FreeRun(i)
           /\ StartRun([Seen(md, n, kind) EXCEPT !.key = <<n, kind, hasFrame>>], i)
  <2>1. PICK key \in Int \X Loads \X BOOLEAN : key = <<n, kind, hasFrame>>
    BY <1>2, <1>5 DEF Base, MdTyped
  <2>2. PICK d : d = [s EXCEPT !.key = key]
    OBVIOUS
  <2>3. d \in ModalType /\ Alike(s, d)
    BY <1>7, <2>2 DEF ModalType, Alike
  <2>4. Shape(d) /\ d.open /\ d.inFlight = md.inFlight /\ (Filled(d) <=> Filled(s))
    BY <1>1, <1>7, <2>3, AlikeShape, KeptFilled DEF Alike
  <2>5. StartRun(d, i) /\ run[i].at = "none"
    BY <1>6, <1>8, <2>1, <2>2 DEF FreeRun
  <2>6. Filled(md)
    BY <1>8, Zenon DEF Retries, Filled
  <2> QED
    BY <1>1, <1>2, <1>7, <2>4, <2>5, <2>6, RunStarts DEF ModalInv
<1>9. CASE /\ \E counted \in {FALSE, warming} :
                   md' = Repainted(Seen(md, n, kind), kind, counted)
           /\ UNCHANGED <<superseded, run, call, count>>
  <2>1. \/ md' = s \/ (~Filled(s) /\ md' = renderEmpty(s))
        \/ s.rows = 0 /\ md' = renderEmptyQuery(s, kind)
    <3>1. PICK counted \in {FALSE, warming} : md' = Repainted(s, kind, counted)
      BY <1>6, <1>9
    <3> QED
      <4>1. \/ md' = s \/ (~Filled(md) /\ md' = renderEmpty(s))
            \/ md.rows = 0 /\ md' = renderEmptyQuery(s, kind)
        BY <3>1, Zenon DEF Repainted, Filled
      <4> QED
        <5>1. s.rows = md.rows /\ (Filled(s) <=> Filled(md))
          BY <1>7 DEF Alike
        <5> QED
          BY <4>1, <5>1, Zenon
  <2> DEFINE Good == Shape(md') /\ Kept(md, md') /\ (Rests(md) /\ Done(md) => Done(md'))
  <2>2. Kept(md, s) /\ (Done(md) => Done(s))
    BY <1>7 DEF Alike, Kept, Done, Clear
  <2>3. ASSUME md' = s
        PROVE  Good
    BY <1>7, <2>2, <2>3
  <2>4. ASSUME ~Filled(s), md' = renderEmpty(s)
        PROVE  Good
    <3>1. Paints(s, md') /\ md'.rows = 0 /\ Clear(md')
      BY <1>7, <2>4, EmptyPaints
    <3>2. Shape(md') /\ Kept(s, md')
      BY <1>7, <2>4, <3>1, BlankShape
    <3>3. Kept(md, md')
      BY <2>2, <3>2 DEF Kept
    <3> QED
      BY <1>7, <2>4, <3>2, <3>3 DEF Rests
  <2>5. ASSUME s.rows = 0, md' = renderEmptyQuery(s, kind)
        PROVE  Good
    <3>1. /\ md' \in ModalType /\ Kept(s, md') /\ md'.pipe = s.pipe /\ md'.shown = 0
          /\ "skeleton" \notin md'.dom /\ (md'.dim => s.dim) /\ md'.rows = 0
      BY <1>7, <2>5, EmptyQueryPaints
    <3>2. Neat(md') /\ (Filled(md') <=> Filled(s)) /\ (Clear(s) => Clear(md'))
      BY <3>1, KeptFilled DEF Neat, Clear, Kept
    <3>3. Shape(md')
      BY <1>7, <3>1, <3>2 DEF Shape, Kept
    <3>4. Done(s) => Done(md')
      BY <3>1, <3>2 DEF Done, Kept
    <3>5. Kept(md, md')
      BY <2>2, <3>1 DEF Kept
    <3> QED
      BY <2>2, <3>3, <3>4, <3>5
  <2>6. Good
    BY <2>1, <2>3, <2>4, <2>5
  <2>7. MdTyped' /\ Searching' = Searching /\ call' = call /\ superseded' = superseded
        /\ run' = run /\ count' = count
    BY <1>1, <1>2, <1>9 DEF Base, MdTyped, Searching
  <2>8. Base'
    BY <1>2, <2>6, <2>7, SameRuns
  <2>9. Counted'
    BY <1>1, <2>6, <2>7 DEF ModalInv, Counted, Kept
  <2> QED
    BY <2>8, <2>9 DEF ModalInv
<1> QED
  BY <1>4, <1>8, <1>9

---------------------------------------------------------------------------
(* Keys, opening and closing, and what happens meanwhile. *)

\* The selection and the page: nothing else moves.
LEMMA ScrollKeeps ==
  ASSUME ModalInv, NEW sel \in Nat, NEW shown \in 0 .. 2,
         md' = [md EXCEPT !.sel = sel, !.shown = shown],
         md.rows > 0 => sel < shown /\ shown <= md.rows, md.rows = 0 => shown = 0,
         UNCHANGED <<call, superseded, hasFrame, run, headless, count, stored>>
  PROVE  ModalInv'
<1>1. Base /\ Shape(md) /\ md \in ModalType
  BY DEF ModalInv, Base, Shape
<1>2. md' \in ModalType
  BY <1>1 DEF ModalType
<1>3. /\ Kept(md, md') /\ md'.rows = md.rows /\ md'.sel = sel /\ md'.shown = shown
      /\ md'.dim = md.dim /\ md'.dom = md.dom /\ md'.pipe = md.pipe
  BY <1>1 DEF ModalType, Kept
<1>4. Neat(md')
  BY <1>3 DEF Neat
<1>5. (Filled(md') <=> Filled(md)) /\ (Clear(md) => Clear(md'))
  BY <1>3, KeptFilled DEF Clear, Kept
<1>6. Shape(md') /\ (Done(md) => Done(md'))
  BY <1>1, <1>2, <1>3, <1>4, <1>5 DEF Shape, Done, Kept
<1>7. MdTyped' /\ Searching' = Searching /\ call' = call /\ run' = run
      /\ superseded' = superseded
  BY <1>1 DEF Base, MdTyped, Searching
<1>8. Base'
  BY <1>1, <1>3, <1>6, <1>7, SameRuns
<1>9. Counted'
  BY <1>3 DEF ModalInv, Counted, Kept
<1> QED
  BY <1>8, <1>9 DEF ModalInv

LEMMA MoveSelectionKeeps ==
  ASSUME ModalInv, MoveSelection
  PROVE  ModalInv'
<1>1. PICK dir \in {-1, 1} :
        LET next == Smaller(Larger(0, md.sel + dir), md.rows - 1)
        IN md' = [md EXCEPT !.sel = next,
                       !.shown = IF next < @ THEN @
                                 ELSE Smaller(Larger(next + 1, @ + Page), md.rows)]
  BY DEF MoveSelection
<1>2. /\ md \in ModalType /\ Neat(md) /\ md.rows > 0
      /\ UNCHANGED <<call, superseded, hasFrame, run, headless, count, stored>>
  BY DEF ModalInv, Base, Shape, MoveSelection, sqVars
<1>3. /\ md.rows = 2 /\ md.sel \in Nat /\ md.shown \in 0 .. 2 /\ md.sel < md.shown
      /\ md.shown <= md.rows
  BY <1>2 DEF ModalType, Hits, Neat
<1>4. PICK sel : sel = Smaller(Larger(0, md.sel + dir), md.rows - 1)
  OBVIOUS
<1>5. sel \in 0 .. 1
  BY <1>3, <1>4 DEF Smaller, Larger
<1>6. PICK shown : shown = IF sel < md.shown THEN md.shown
                           ELSE Smaller(Larger(sel + 1, md.shown + Page), md.rows)
  OBVIOUS
<1>7. shown \in 0 .. 2 /\ sel < shown /\ shown <= md.rows
  BY <1>3, <1>5, <1>6 DEF Smaller, Larger, Page
<1>8. md' = [md EXCEPT !.sel = sel, !.shown = shown]
  BY <1>1, <1>4, <1>6
<1>9. /\ sel \in Nat /\ (md.rows > 0 => sel < shown /\ shown <= md.rows)
      /\ md.rows = 0 => shown = 0
  BY <1>3, <1>5, <1>7
<1> QED
  BY <1>2, <1>7, <1>8, <1>9, ScrollKeeps

LEMMA HoverKeeps ==
  ASSUME ModalInv, Hover
  PROVE  ModalInv'
<1>1. PICK row \in 0 .. md.shown - 1 : md' = [md EXCEPT !.sel = row]
  BY DEF Hover
<1>2. /\ md \in ModalType /\ Neat(md)
      /\ UNCHANGED <<call, superseded, hasFrame, run, headless, count, stored>>
  BY DEF ModalInv, Base, Shape, Hover, sqVars
<1>3. md.shown \in 0 .. 2
  BY <1>2 DEF ModalType
<1>4. row \in Nat /\ row < md.shown
  BY <1>3
<1>5. md' = [md EXCEPT !.sel = row, !.shown = md.shown]
  BY <1>1, <1>2 DEF ModalType
<1> QED
  BY <1>2, <1>3, <1>4, <1>5, ScrollKeeps DEF Neat

LEMMA RevealMoreKeeps ==
  ASSUME ModalInv, RevealMore
  PROVE  ModalInv'
<1>1. /\ md.shown < md.rows /\ md' = [md EXCEPT !.shown = Smaller(md.shown + Page, md.rows)]
      /\ UNCHANGED <<call, superseded, hasFrame, run, headless, count, stored>>
  BY DEF RevealMore, sqVars
<1>2. md \in ModalType /\ Neat(md)
  BY DEF ModalInv, Base, Shape
<1>3. md.rows \in Hits /\ md.shown \in 0 .. 2 /\ md.sel \in Nat
  BY <1>2 DEF ModalType
<1>4. md.rows = 2 /\ md.sel < md.shown
  BY <1>1, <1>2, <1>3 DEF Hits, Neat
<1>5. PICK shown \in 0 .. 2 : shown = Smaller(md.shown + Page, md.rows)
  BY <1>3, <1>4 DEF Smaller, Page
<1>6. md.sel < shown /\ shown <= md.rows
  BY <1>3, <1>4, <1>5 DEF Smaller, Page
<1>7. md' = [md EXCEPT !.sel = md.sel, !.shown = shown]
  BY <1>1, <1>2, <1>5 DEF ModalType
<1>9. /\ md.sel \in Nat /\ (md.rows > 0 => md.sel < shown /\ shown <= md.rows)
      /\ md.rows = 0 => shown = 0
  BY <1>3, <1>4, <1>6
<1> QED
  BY <1>1, <1>5, <1>7, <1>9, ScrollKeeps

LEMMA OpenResultKeeps ==
  ASSUME ModalInv, OpenResult
  PROVE  ModalInv'
<1>1. UNCHANGED <<call, superseded, hasFrame, md, run, headless, count, stored>>
  BY DEF OpenResult, sqVars
<1>2. Base /\ Shape(md) /\ md \in ModalType /\ Neat(md)
  BY DEF ModalInv, Base, Shape
<1>3. md' = [md EXCEPT !.sel = md.sel, !.shown = md.shown]
  BY <1>1, <1>2 DEF ModalType
<1>4. md.sel \in Nat /\ md.shown \in 0 .. 2
  BY <1>2 DEF ModalType
<1> QED
  BY <1>1, <1>2, <1>3, <1>4, ScrollKeeps DEF Neat

LEMMA NewModalShape ==
  ASSUME NEW open \in BOOLEAN, NEW text \in Texts, NEW ready \in BOOLEAN
  PROVE  LET e == NewModal(open, text, ready)
         IN  /\ Shape(e) /\ (e.open <=> open) /\ e.text = text /\ e.current = 0
             /\ e.inFlight = 0 /\ (e.timer <=> Filled(e))
<1>1. PICK timer \in BOOLEAN : timer = (text # "")
  BY Zenon
<1>2. PICK e : e = [open |-> open, text |-> text, current |-> 0, ctl |-> 0, timer |-> timer,
     inFlight |-> 0, sel |-> 0, rows |-> 0, shown |-> 0, dom |-> {}, dim |-> FALSE,
     pipe |-> Ladder0, entry |-> NoText, key |-> NoKey, kind |-> "resting",
     chunks |-> -1, frameSeen |-> FALSE, ready |-> ready, failed |-> FALSE, lost |-> FALSE]
  OBVIOUS
<1>3. e = NewModal(open, text, ready)
  BY <1>1, <1>2, Zenon DEF NewModal
<1>4. Ladder0 \in Ladders
  BY DEF Ladder0, Ladders, Rungs
<1>5. 0 \in 0 .. SearchSlots
  BY SearchConstants
<1>6. e \in ModalType
  BY <1>2, <1>4, <1>5 DEF ModalType, Loads, Hits
<1>7. /\ (e.open <=> open) /\ e.text = text /\ e.current = 0 /\ e.inFlight = 0
      /\ (e.timer <=> timer) /\ e.rows = 0 /\ e.shown = 0 /\ ~e.dim /\ e.dom = {}
      /\ e.pipe = Ladder0
  BY <1>2
<1>8. Filled(e) <=> timer
  BY <1>1, <1>7, Zenon DEF Filled
<1>9. Neat(e) /\ Clear(e)
  BY <1>7 DEF Neat, Clear
<1>10. Shape(e)
  BY <1>6, <1>7, <1>8, <1>9 DEF Shape
<1> QED
  BY <1>3, <1>7, <1>8, <1>10

LEMMA ClosedShape ==
  Shape(Closed) /\ ~Closed.open /\ ~Filled(Closed) /\ ~Closed.timer /\ Closed.inFlight = 0
<1>1. PICK blank \in Texts : blank = ""
  BY Zenon DEF Texts
<1>2. PICK e : e = NewModal(FALSE, blank, FALSE)
  OBVIOUS
<1>3. Shape(e) /\ ~e.open /\ e.text = blank /\ e.inFlight = 0 /\ (e.timer <=> Filled(e))
  BY <1>2, NewModalShape
<1>4. ~Filled(e)
  BY <1>1, <1>3, Zenon DEF Filled
<1>5. e = Closed
  BY <1>1, <1>2, Zenon DEF Closed
<1> QED
  BY <1>3, <1>4, <1>5

LEMMA CloseKeeps ==
  ASSUME ModalInv, Close
  PROVE  ModalInv'
<1>1. /\ count' = IF md.inFlight # 0 THEN Larger(0, count - 1) ELSE count
      /\ run' = [i \in Runs |-> [run[i] EXCEPT !.mine = FALSE]]
      /\ md' = Closed
      /\ UNCHANGED <<call, hasFrame, headless, stored>>
  BY DEF Close
<1>2. run' \in [Runs -> RunType] /\ \A i \in Runs : ~run'[i].mine
  BY <1>1 DEF ModalInv, Base, MdTyped, RunType
<1>3. MdTyped'
  BY <1>1, <1>2 DEF ModalInv, Base, MdTyped
<1>4. Shape(md)' /\ ~md'.open /\ ~Filled(md') /\ md'.inFlight = 0
  BY <1>1, ClosedShape
<1>5. Base'
  <2>1. Searching' = {}
    BY <1>2 DEF Searching
  <2>2. Landing'
    BY <1>4, <2>1, FS_EmptySet DEF Landing
  <2>3. Claims'
    BY <1>2, <1>4 DEF Claims, Shape
  <2>4. Owned'
    BY <1>2 DEF Owned, Live
  <2>5. Replied'
    BY <1>4 DEF Replied, Rests
  <2> QED
    BY <1>3, <1>4, <2>2, <2>3, <2>4, <2>5 DEF Base
<1>6. Counted'
  <2>1. PICK h \in {0, 1} : h = IF headless = "none" THEN 0 ELSE 1
    OBVIOUS
  <2>2. count = h + (IF md.inFlight = 0 THEN 0 ELSE 1)
    BY <2>1 DEF ModalInv, Counted, Holds
  <2>3. count' = h
    BY <1>1, <2>1, <2>2 DEF Larger
  <2> QED
    BY <1>1, <1>4, <2>1, <2>3 DEF Counted, Holds
<1> QED
  BY <1>5, <1>6 DEF ModalInv

LEMMA OpenKeeps ==
  ASSUME ModalInv, Open
  PROVE  ModalInv'
<1>1. PICK t \in Typed : md' = renderEmpty(NewModal(TRUE, t, model = "ready"))
  BY DEF Open
<1>2. ~md.open /\ UNCHANGED <<call, superseded, hasFrame, run, headless, count, stored>>
  BY DEF Open, sqVars
<1>3. \A i \in Runs : ~run[i].mine
  BY <1>2 DEF ModalInv, Base, Claims
<1>4. PICK ready \in BOOLEAN : ready = (model = "ready")
  BY Zenon
<1>5. PICK e : e = NewModal(TRUE, t, ready)
  OBVIOUS
<1>6. t \in Texts
  BY TypedTexts
<1>7. /\ Shape(e) /\ e.open /\ e.current = 0 /\ e.inFlight = 0 /\ (e.timer <=> Filled(e))
  BY <1>5, <1>6, NewModalShape
<1>8. md' = renderEmpty(e)
  BY <1>1, <1>4, <1>5, Zenon
<1>9. Paints(e, md') /\ md'.rows = 0 /\ Clear(md')
  BY <1>7, <1>8, EmptyPaints DEF Shape
<1>10. /\ md' \in ModalType /\ Neat(md') /\ md'.open /\ md'.current = 0 /\ md'.inFlight = 0
       /\ (md'.timer <=> Filled(e)) /\ (Filled(md') <=> Filled(e)) /\ md'.pipe = e.pipe
  BY <1>7, <1>9, KeptFilled DEF Paints, Draws, Kept
<1>11. Shape(md)'
  BY <1>7, <1>9, <1>10 DEF Shape
<1>12. Base'
  <2>1. Searching' = {}
    BY <1>2, <1>3 DEF Searching
  <2>2. Landing'
    BY <1>10, <2>1, FS_EmptySet DEF Landing
  <2>3. Claims'
    BY <1>2, <1>3, <1>10 DEF Claims
  <2>4. Owned'
    BY <1>2, <1>3 DEF Owned, Live
  <2>5. Replied'
    BY <1>10 DEF Replied, Rests
  <2>6. MdTyped'
    BY <1>2 DEF ModalInv, Base, MdTyped
  <2> QED
    BY <1>11, <2>2, <2>3, <2>4, <2>5, <2>6 DEF Base
<1>13. Counted'
  <2>1. md.inFlight = 0
    <3>1. Searching = {}
      BY <1>3 DEF Searching
    <3> QED
      BY <3>1, FS_EmptySet DEF ModalInv, Base, Landing
  <2> QED
    BY <1>2, <1>10, <2>1 DEF ModalInv, Counted
<1> QED
  BY <1>12, <1>13 DEF ModalInv

\* The headless query touches neither the modal nor its runs.
LEMMA BesideKeeps ==
  ASSUME Base, call' \in [SqIds -> CallType], headless' \in {"none", "model", "search"},
         hasFrame' \in BOOLEAN, stored' \in Hits, UNCHANGED <<superseded, md, run>>,
         \A i \in Runs : /\ call'[i].text = call[i].text
                         /\ call'[i].stage = "aborted" =>
                              i \in superseded \/ call[i].stage = "aborted"
  PROVE  Base'
<1>1. MdTyped' /\ Searching' = Searching
  BY DEF Base, MdTyped, Searching
<1>2. Shape(md)' /\ Kept(md, md')
  BY DEF Base, Kept
<1> QED
  BY <1>1, <1>2, SameRuns

LEMMA HeadlessKeeps ==
  ASSUME ModalInv, HeadlessStarts \/ HeadlessStep \/ HeadlessEnds
  PROVE  ModalInv'
<1>1. Base /\ UNCHANGED <<superseded, hasFrame, md, run, stored>>
  BY DEF ModalInv, HeadlessStarts, HeadlessStep, HeadlessEnds
<1>2. /\ call \in [SqIds -> CallType] /\ headless \in {"none", "model", "search"}
      /\ hasFrame' \in BOOLEAN /\ stored' \in Hits
  BY <1>1 DEF Base, MdTyped
<1>3. PICK n \in {0, 1} : n = IF md.inFlight = 0 THEN 0 ELSE 1
  OBVIOUS
<1>4. count = (IF headless = "none" THEN 0 ELSE 1) + n
  BY <1>3 DEF ModalInv, Counted, Holds
<1>5. CASE HeadlessStarts
  <2>1. \/ call' = call
        \/ call' = [call EXCEPT ![Headless] = Started("full", "words", FALSE)]
    BY <1>5 DEF HeadlessStarts
  <2>2. headless = "none" /\ headless' \in {"model", "search"} /\ count' = count + 1
    BY <1>5 DEF HeadlessStarts
  <2>3. call' \in [SqIds -> CallType] /\ \A i \in Runs : call'[i] = call[i]
    BY <1>1, <1>2, <2>1, HeadlessStarted
  <2>4. Base'
    BY <1>1, <1>2, <2>2, <2>3, BesideKeeps
  <2>5. Counted'
    BY <1>1, <1>3, <1>4, <2>2 DEF Counted, Holds
  <2> QED
    BY <2>4, <2>5 DEF ModalInv
<1>6. CASE HeadlessStep
  <2>1. PICK t \in SqSteps(Headless) : call' = Moved(Headless, t)
    BY <1>6 DEF HeadlessStep
  <2>2. headless' = headless /\ count' = count
    BY <1>6 DEF HeadlessStep
  <2>3. /\ call' \in [SqIds -> CallType]
        /\ \A i \in Runs : /\ call'[i].text = call[i].text
                           /\ call'[i].stage = "aborted" =>
                                i \in superseded \/ call[i].stage = "aborted"
    BY <1>1, <2>1, MovedCalls, RunsTyped DEF Base
  <2>4. Base'
    BY <1>1, <1>2, <2>2, <2>3, BesideKeeps
  <2>5. Counted'
    BY <1>1, <2>2 DEF ModalInv, Counted
  <2> QED
    BY <2>4, <2>5 DEF ModalInv
<1>7. CASE HeadlessEnds
  <2>1. PICK t \in SqSteps(Headless) : call' = [Moved(Headless, t) EXCEPT ![Headless] = NoCall]
    BY <1>7 DEF HeadlessEnds
  <2>2. headless = "search" /\ headless' = "none" /\ count' = Larger(0, count - 1)
    BY <1>7 DEF HeadlessEnds
  <2>3. PICK calls : calls = Moved(Headless, t)
    OBVIOUS
  <2>4. /\ calls \in [SqIds -> CallType]
        /\ \A i \in Runs : /\ calls[i].text = call[i].text
                           /\ calls[i].stage = "aborted" =>
                                i \in superseded \/ call[i].stage = "aborted"
    BY <1>1, <2>1, <2>3, MovedCalls, RunsTyped DEF Base
  <2>5. NoCall \in CallType
    BY DEF NoCall, CallType, Queries, Words, Stages, Hits
  <2>6. call' \in [SqIds -> CallType] /\ \A i \in Runs : call'[i] = calls[i]
    BY <2>1, <2>3, <2>4, <2>5, RunsTyped
  <2>7. Base'
    BY <1>1, <1>2, <2>2, <2>4, <2>6, BesideKeeps
  <2>8. Counted'
    BY <1>1, <1>3, <1>4, <2>2 DEF Counted, Holds, Larger
  <2> QED
    BY <2>7, <2>8 DEF ModalInv
<1> QED
  BY <1>5, <1>6, <1>7

LEMMA IndexMovesKeeps ==
  ASSUME ModalInv, IndexMoves
  PROVE  ModalInv'
<1>1. Base /\ UNCHANGED <<call, superseded, md, run, headless, count>>
  BY DEF ModalInv, IndexMoves
<1>2. hasFrame' \in BOOLEAN /\ stored' \in Hits
  BY <1>1 DEF Base, MdTyped, Hits, IndexMoves, StoreFills, WarmingEnds, VaultChanges, FrameFlips
<1>3. call' \in [SqIds -> CallType] /\ headless' \in {"none", "model", "search"}
  BY <1>1 DEF Base, MdTyped
<1>4. Base'
  BY <1>1, <1>2, <1>3, BesideKeeps
<1>5. Counted'
  BY <1>1 DEF ModalInv, Counted
<1> QED
  BY <1>4, <1>5 DEF ModalInv

---------------------------------------------------------------------------
(* The theorems. *)

LEMMA ModalStarts ==
  MdInit => ModalInv
<1> SUFFICES ASSUME MdInit
             PROVE  ModalInv
  OBVIOUS
<1>1. /\ md = Closed /\ run = [i \in Runs |-> NoRun] /\ headless = "none" /\ count = 0
      /\ stored \in Hits /\ hasFrame \in BOOLEAN /\ call = [c \in SqIds |-> NoCall]
  BY DEF MdInit, SqInit
<1>2. MdTyped
  <2>1. NoRun \in RunType
    BY DEF NoRun, RunType
  <2>2. NoCall \in CallType
    BY DEF NoCall, CallType, Queries, Words, Stages, Hits
  <2> QED
    BY <1>1, <2>1, <2>2 DEF MdTyped
<1>3. \A i \in Runs : ~run[i].mine
  BY <1>1 DEF NoRun
<1>4. Shape(md) /\ ~md.open /\ ~Filled(md) /\ ~md.timer /\ md.inFlight = 0
  BY <1>1, ClosedShape
<1>5. Landing
  <2>1. Searching = {}
    BY <1>3 DEF Searching
  <2> QED
    BY <1>4, <2>1, FS_EmptySet DEF Landing
<1>6. Claims /\ Owned /\ Replied
  BY <1>3, <1>4 DEF Claims, Owned, Live, Replied, Rests
<1>7. Counted
  BY <1>1, <1>4 DEF Counted, Holds
<1> QED
  BY <1>2, <1>4, <1>5, <1>6, <1>7 DEF ModalInv, Base

LEMMA ModalKept ==
  ModalInv /\ [MdNext]_mdVars => ModalInv'
<1> SUFFICES ASSUME ModalInv, [MdNext]_mdVars
             PROVE  ModalInv'
  OBVIOUS
<1>1. CASE \E t \in Typed : Type(t)
  BY <1>1, TypeKeeps
<1>2. ASSUME NEW i \in Runs, Fire(i) \/ Step(i)
      PROVE  ModalInv'
  BY <1>2, FireKeeps, StepKeeps
<1>3. ASSUME NEW i \in Runs, LexicalEnds(i) \/ ModelAwaited(i)
      PROVE  ModalInv'
  BY <1>3, LexicalEndsKeeps, ModelAwaitedKeeps
<1>4. ASSUME NEW i \in Runs, SearchEnds(i) \/ Poll(i)
      PROVE  ModalInv'
  BY <1>4, SearchEndsKeeps, PollKeeps
<1>5. CASE ModelSettles
  BY <1>5, ModelSettlesKeeps
<1>6. CASE MoveSelection \/ Hover \/ RevealMore \/ OpenResult
  BY <1>6, MoveSelectionKeeps, HoverKeeps, RevealMoreKeeps, OpenResultKeeps
<1>7. CASE Close \/ Open
  BY <1>7, CloseKeeps, OpenKeeps
<1>8. CASE HeadlessStarts \/ HeadlessStep \/ HeadlessEnds
  BY <1>8, HeadlessKeeps
<1>9. CASE IndexMoves
  BY <1>9, IndexMovesKeeps
<1>10. CASE UNCHANGED mdVars
  <2>1. UNCHANGED <<call, superseded, hasFrame, md, run, headless, count, stored>>
    BY <1>10 DEF mdVars, sqVars
  <2>2. Base'
    <3>1. /\ Base /\ call' \in [SqIds -> CallType] /\ headless' \in {"none", "model", "search"}
          /\ hasFrame' \in BOOLEAN /\ stored' \in Hits
      BY <2>1 DEF ModalInv, Base, MdTyped
    <3> QED
      BY <2>1, <3>1, BesideKeeps
  <2>3. Counted'
    BY <2>1 DEF ModalInv, Counted
  <2> QED
    BY <2>2, <2>3 DEF ModalInv
<1> QED
  BY <1>1, <1>2, <1>3, <1>4, <1>5, <1>6, <1>7, <1>8, <1>9, <1>10 DEF MdNext

LEMMA ModalHolds ==
  MdSpec => []ModalInv
  BY ModalStarts, ModalKept, PTL DEF MdSpec

(* queryInFlightCount holds all indexing: it is at every moment the open   *)
(* modal with a search in flight and the headless query, and the modal's   *)
(* own count is the searches it started that have not landed, however many *)
(* overlap, are superseded, throw, or outlive the modal.                   *)
THEOREM HoldIsTrue ==
  MdSpec => []MdInFlight
<1>1. ModalInv => MdInFlight
  <2> SUFFICES ASSUME ModalInv
               PROVE  MdInFlight
    OBVIOUS
  <2>1. md.inFlight = Cardinality(Searching)
    BY DEF ModalInv, Base, Landing
  <2>2. PICK a : a = {"headless" : h \in {headless} \ {"none"}}
    OBVIOUS
  <2>3. PICK b : b = {"modal" : n \in {md.inFlight} \ {0}}
    OBVIOUS
  <2>4. count = (IF headless = "none" THEN 0 ELSE 1) + (IF md.inFlight = 0 THEN 0 ELSE 1)
    BY DEF ModalInv, Counted, Holds
  <2>5. a = IF headless = "none" THEN {} ELSE {"headless"}
    BY <2>2
  <2>6. b = IF md.inFlight = 0 THEN {} ELSE {"modal"}
    BY <2>3
  <2>7. /\ Cardinality({}) = 0 /\ Cardinality({"headless"}) = 1 /\ Cardinality({"modal"}) = 1
        /\ Cardinality({"headless", "modal"}) = 2
    <3>1. Cardinality({}) = 0
      BY FS_EmptySet
    <3>2. /\ IsFiniteSet({"headless"}) /\ Cardinality({"headless"}) = 1
          /\ Cardinality({"modal"}) = 1
      BY FS_Singleton
    <3>3. Cardinality({"headless"} \cup {"modal"}) = 2
      <4>1. "modal" \notin {"headless"}
        OBVIOUS
      <4> QED
        BY <3>2, <4>1, FS_AddElement
    <3>4. {"headless"} \cup {"modal"} = {"headless", "modal"}
      OBVIOUS
    <3> QED
      BY <3>1, <3>2, <3>3, <3>4
  <2>8. count = Cardinality(a \cup b)
    <3>1. CASE headless = "none" /\ md.inFlight = 0
      <4>1. a \cup b = {}
        BY <2>5, <2>6, <3>1
      <4>2. count = 0
        BY <2>4, <3>1
      <4> QED
        BY <2>7, <4>1, <4>2
    <3>2. CASE headless # "none" /\ md.inFlight = 0
      <4>1. a \cup b = {"headless"}
        BY <2>5, <2>6, <3>2
      <4> QED
        BY <2>4, <2>7, <3>2, <4>1
    <3>3. CASE headless = "none" /\ md.inFlight # 0
      <4>1. a \cup b = {"modal"}
        BY <2>5, <2>6, <3>3
      <4> QED
        BY <2>4, <2>7, <3>3, <4>1
    <3>4. CASE headless # "none" /\ md.inFlight # 0
      <4>1. a \cup b = {"headless", "modal"}
        BY <2>5, <2>6, <3>4
      <4> QED
        BY <2>4, <2>7, <3>4, <4>1
    <3> QED
      BY <3>1, <3>2, <3>3, <3>4
  <2> QED
    BY <2>1, <2>2, <2>3, <2>8 DEF MdInFlight, Searching
<1> QED
  BY <1>1, ModalHolds, PTL

(* What the list shows belongs to the text in the field, whatever searches *)
(* are still on their way: nothing under an empty field, the answer to its *)
(* text once the modal is at rest, and the selected row on screen.         *)
THEOREM ListSettles ==
  MdSpec => []MdSettled
<1>1. ModalInv => MdSettled
  <2> SUFFICES ASSUME ModalInv
               PROVE  MdSettled
    OBVIOUS
  <2>1. md.rows > 0 => md.sel < md.shown /\ md.shown <= md.rows
    BY DEF ModalInv, Base, Shape, Neat
  <2>2. ~Filled(md) => md.rows = 0 /\ ~md.dim /\ "skeleton" \notin md.dom /\ md.pipe = Ladder0
    BY DEF ModalInv, Base, Shape, Clear
  <2>3. Resting /\ Filled(md) /\ ~md.lost =>
          md.entry = md.text /\ ~md.dim /\ "skeleton" \notin md.dom /\ md.pipe = LadderDone
    <3>1. Resting => ~OnItsWay /\ md.open /\ ~md.timer
      BY DEF Resting, OnItsWay, Live
    <3> QED
      BY <3>1 DEF ModalInv, Base, Replied, Rests, Done, Clear
  <2> QED
    BY <2>1, <2>2, <2>3, Zenon DEF MdSettled, Filled
<1> QED
  BY <1>1, ModalHolds, PTL
=============================================================================
