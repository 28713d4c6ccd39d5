---------------------------- MODULE StoreHandle ----------------------------
(***************************************************************************)
(* The one IndexedDB connection of IndexStore (index/index-store.ts): open, *)
(* ensureOpen, close and forceReset, called by boot, recovery and the       *)
(* writers without any lock between them.  The browser serves the requests  *)
(* of one database in order; a request that the plugin has given up on      *)
(* (the 10 s deadline of an open, the 10 s guard of a blocked delete) stays *)
(* in that queue and is served late.                                        *)
(*                                                                         *)
(* stDb is this.db, stGen openGeneration, stMemo openInFlight.  A call is a *)
(* slot of stCalls: an "open" runs open(), an "ensure" waits on such a slot, *)
(* a "reset" runs forceReset.  A handle is live until somebody closes it;   *)
(* it is wired once open() has put its own onversionchange on it.           *)
(***************************************************************************)
EXTENDS Naturals, Sequences, SequencesExt

CONSTANTS
  StSlots,    \* bound: how many calls are made
  StCloses,   \* bound: how often close() is called from outside
  StEvents    \* bound: versionchange events from other windows

VARIABLES
  stDb,       \* this.db: a handle or 0
  stGen,      \* openGeneration
  stMemo,     \* openInFlight: a slot or 0
  stCalls,    \* the calls made so far
  stHandles,  \* the handles made so far: [live, wired]
  stQueue,    \* the browser's queue: [kind, call]
  stDisk,     \* [held: another window holds the database, schema: stores exist]
  stBudget    \* [closes, events] still to come

stVars == <<stDb, stGen, stMemo, stCalls, stHandles, stQueue, stDisk, stBudget>>

NoCall == 0
StIds == 1 .. Len(stCalls)
Waits(at) == at \in {"opening", "reopening", "deleting", "dropping", "resetting", "clearing"}

StInit ==
  /\ stDb = 0 /\ stGen = 0 /\ stMemo = NoCall
  /\ stCalls = <<>> /\ stHandles = <<>> /\ stQueue = <<>>
  /\ stDisk \in [held : BOOLEAN, schema : {TRUE}]
  /\ stBudget = [closes |-> StCloses, events |-> StEvents]

---------------------------------------------------------------------------
(* Handles. *)

Closed(hs, h) == IF h = 0 THEN hs ELSE [hs EXCEPT ![h].live = FALSE]

\* close(): the generation is bumped, so that an open under way discards
\* its handle; openInFlight stays.  Raced marks the waiting ensures (history):
\* the store was closed, or its database deleted, while they waited.
Raced(calls) ==
  [i \in DOMAIN calls |->
     IF calls[i].kind = "ensure" /\ calls[i].at # "done"
     THEN [calls[i] EXCEPT !.raced = TRUE] ELSE calls[i]]
CloseStore ==
  /\ stGen' = stGen + 1
  /\ stHandles' = Closed(stHandles, stDb)
  /\ stDb' = 0

\* versionchange, for a delete or an upgrade: every connection closes itself;
\* only the handler that open() installed also drops this.db.
VersionChange ==
  /\ stHandles' = [h \in DOMAIN stHandles |-> [stHandles[h] EXCEPT !.live = FALSE]]
  /\ stDb' = IF stDb # 0 /\ stHandles[stDb].wired THEN 0 ELSE stDb

---------------------------------------------------------------------------
(* Calls. *)

NewCall(kind, at, on) ==
  [kind |-> kind, at |-> at, gen |-> stGen, on |-> on, tries |-> 0, raced |-> FALSE]
Request(kind, c) == [kind |-> kind, call |-> c]

\* open(): returns at once on a live connection.
CallOpen ==
  /\ Len(stCalls) < StSlots
  /\ stDb = 0
  /\ stCalls' = Append(stCalls, NewCall("open", "opening", NoCall))
  /\ stQueue' = Append(stQueue, Request("open", Len(stCalls) + 1))
  /\ UNCHANGED <<stDb, stGen, stMemo, stHandles, stDisk, stBudget>>

\* One round of ensureOpen: join the open in flight or start one and
\* memorise it.  Two rounds at most.
JoinOrOpen(c, calls) ==
  IF stMemo # NoCall
  THEN /\ stCalls' = [calls EXCEPT ![c].on = stMemo, ![c].tries = @ + 1]
       /\ UNCHANGED <<stMemo, stQueue>>
  ELSE LET o == Len(calls) + 1
       IN  /\ stCalls' = Append([calls EXCEPT ![c].on = o, ![c].tries = @ + 1],
                                NewCall("open", "opening", NoCall))
           /\ stMemo' = o
           /\ stQueue' = Append(stQueue, Request("open", o))

CallEnsure ==
  /\ Len(stCalls) < StSlots
  /\ stDb = 0
  /\ JoinOrOpen(Len(stCalls) + 1, Append(stCalls, NewCall("ensure", "waiting", NoCall)))
  /\ UNCHANGED <<stDb, stGen, stHandles, stDisk, stBudget>>

NoSecondTry(c) == FALSE
SecondTry(c) == stCalls[c].tries < 2

EnsureWakes(c) ==
  /\ stCalls[c].kind = "ensure" /\ stCalls[c].at = "waiting"
  /\ stCalls[stCalls[c].on].at \in {"done", "failed"}
  /\ IF stCalls[stCalls[c].on].at = "done" /\ stDb = 0 /\ SecondTry(c)
     THEN JoinOrOpen(c, stCalls)
     ELSE /\ stCalls' = [stCalls EXCEPT ![c].at = stCalls[stCalls[c].on].at]
          /\ UNCHANGED <<stMemo, stQueue>>
  /\ UNCHANGED <<stDb, stGen, stHandles, stDisk, stBudget>>

CallClose ==
  /\ stBudget.closes > 0
  /\ CloseStore
  /\ stCalls' = Raced(stCalls)
  /\ stBudget' = [stBudget EXCEPT !.closes = @ - 1]
  /\ UNCHANGED <<stMemo, stQueue, stDisk>>

\* forceReset: close, then deleteDatabase.
CallReset ==
  /\ Len(stCalls) < StSlots
  /\ CloseStore
  /\ stCalls' = Append(Raced(stCalls), NewCall("reset", "dropping", NoCall))
  /\ stQueue' = Append(stQueue, Request("delete", Len(stCalls) + 1))
  /\ UNCHANGED <<stMemo, stDisk, stBudget>>

---------------------------------------------------------------------------
(* What an answer does to the call that waits for it. *)

ClearMemo(c) == stMemo' = IF stMemo = c THEN NoCall ELSE stMemo
Settle(c, at) == stCalls' = [stCalls EXCEPT ![c].at = at]

\* The check of open() after its await: close() ran in the meantime.
StaleOpen(c) == stCalls[c].gen # stGen

\* A concurrent open already assigned a handle: close that one.
KeepPrevious(hs) == hs
ClosePrevious(hs) == Closed(hs, stDb)

\* The handle h arrives at open(): discard it, rebuild a database without
\* its object stores, or make it this.db, wire it and close the previous one.
OpenAnswered(c, h, rest) ==
  LET hs == Append(stHandles, [live |-> TRUE, wired |-> FALSE])
  IN  CASE StaleOpen(c) ->
             /\ stHandles' = Closed(hs, h)
             /\ Settle(c, "done") /\ ClearMemo(c) /\ stQueue' = rest
             /\ UNCHANGED stDb
        [] ~StaleOpen(c) /\ ~stDisk.schema ->
             /\ stHandles' = Closed(hs, h)
             /\ IF stCalls[c].at = "opening"
                THEN /\ Settle(c, "deleting")
                     /\ stQueue' = Append(rest, Request("delete", c))
                     /\ UNCHANGED stMemo
                ELSE Settle(c, "failed") /\ ClearMemo(c) /\ stQueue' = rest
             /\ UNCHANGED stDb
        [] OTHER ->
             /\ stHandles' = [ClosePrevious(hs) EXCEPT ![h].wired = TRUE]
             /\ stDb' = h
             /\ Settle(c, "done") /\ ClearMemo(c) /\ stQueue' = rest

\* The same answer at forceReset, which assigns this.db without a check,
\* after its delete ("resetting") or after a delete that failed ("clearing").
ResetAnswered(c, h, rest) ==
  /\ stHandles' = Append(stHandles, [live |-> TRUE, wired |-> FALSE])
  /\ stDb' = h
  /\ Settle(c, "done") /\ stQueue' = rest
  /\ UNCHANGED stMemo

\* The browser serves the open at the head of its queue.  An answer nobody
\* waits for any more is closed by the promise's own guard.  A database that
\* is not there is made with its stores, but not by openDbWithTimeout.
ServeOpen ==
  /\ stQueue # <<>> /\ Head(stQueue).kind = "open"
  /\ LET c == Head(stQueue).call
         h == Len(stHandles) + 1
     IN  CASE c = NoCall -> /\ stQueue' = Tail(stQueue)
                            /\ UNCHANGED <<stDb, stCalls, stHandles, stMemo>>
           [] c # NoCall /\ stCalls[c].kind = "open" -> OpenAnswered(c, h, Tail(stQueue))
           [] OTHER -> ResetAnswered(c, h, Tail(stQueue))
  /\ UNCHANGED <<stGen, stDisk, stBudget>>

\* The delete at the head: it waits for the window that holds the database,
\* then drops it; the next open remakes it, without stores if it is the
\* fallback of forceReset.
ServeDelete ==
  /\ stQueue # <<>> /\ Head(stQueue).kind = "delete"
  /\ ~stDisk.held
  /\ LET c    == Head(stQueue).call
         rest == Tail(stQueue)
         next == SelectSeq(rest, LAMBDA r : r.kind = "open" /\ r.call # NoCall)
     IN  /\ VersionChange
         /\ stDisk' = [stDisk EXCEPT !.schema =
              next = <<>> \/ stCalls[Head(next).call].at # "clearing"]
         /\ IF c = NoCall
            THEN stQueue' = rest /\ stCalls' = Raced(stCalls)
            ELSE /\ stCalls' = [Raced(stCalls) EXCEPT ![c].at =
                                 IF stCalls[c].kind = "open" THEN "reopening" ELSE "resetting"]
                 /\ stQueue' = Append(rest, Request("open", c))
  /\ UNCHANGED <<stGen, stMemo, stBudget>>

\* A request fails or its deadline passes: the waiter is told, the request
\* stays behind.  forceReset then closes again and tries a timed open; an
\* open it cannot have ends it with an error, after one more close.
Abandon(c) == [i \in DOMAIN stQueue |->
                 IF stQueue[i].call = c THEN [stQueue[i] EXCEPT !.call = NoCall] ELSE stQueue[i]]

OpenGivesUp(c) ==
  /\ stCalls[c].kind = "open" /\ Waits(stCalls[c].at)
  /\ Settle(c, "failed") /\ ClearMemo(c) /\ stQueue' = Abandon(c)
  /\ UNCHANGED <<stDb, stGen, stHandles, stDisk, stBudget>>

ResetGivesUp(c) ==
  /\ stCalls[c].kind = "reset" /\ Waits(stCalls[c].at)
  /\ IF stCalls[c].at = "resetting"
     THEN /\ Settle(c, "done") /\ stQueue' = Abandon(c)
          /\ UNCHANGED <<stDb, stGen, stHandles>>
     ELSE LET at == IF stCalls[c].at = "dropping" THEN "clearing" ELSE "done"
          IN  /\ CloseStore
              /\ stCalls' = [Raced(stCalls) EXCEPT ![c].at = at]
              /\ stQueue' = IF at = "clearing" THEN Append(Abandon(c), Request("open", c))
                                               ELSE Abandon(c)
  /\ UNCHANGED <<stMemo, stDisk, stBudget>>

---------------------------------------------------------------------------
(* Another window: it lets the database go, or upgrades or deletes it. *)

OtherWindowCloses ==
  /\ stDisk.held
  /\ stDisk' = [stDisk EXCEPT !.held = FALSE]
  /\ UNCHANGED <<stDb, stGen, stMemo, stCalls, stHandles, stQueue, stBudget>>

OtherWindowUpgrades ==
  /\ stBudget.events > 0
  /\ VersionChange
  /\ stCalls' = Raced(stCalls)
  /\ stBudget' = [stBudget EXCEPT !.events = @ - 1]
  /\ UNCHANGED <<stGen, stMemo, stQueue, stDisk>>

StNext ==
  \/ CallOpen \/ CallEnsure \/ CallClose \/ CallReset
  \/ ServeOpen \/ ServeDelete
  \/ \E c \in StIds : EnsureWakes(c) \/ OpenGivesUp(c) \/ ResetGivesUp(c)
  \/ OtherWindowCloses \/ OtherWindowUpgrades

StSpec == StInit /\ [][StNext]_stVars

---------------------------------------------------------------------------
(* Properties. *)

Resets == {c \in StIds : stCalls[c].kind = "reset"}

\* No connection is leaked (the comment on openInFlight: "last assignment
\* would win and the other IDBDatabase would leak"): as long as nobody has
\* called forceReset, a live connection is this.db, whatever opens, closes
\* and late answers overlap.  A leaked one blocks every later delete.
StNoLeak ==
  Resets = {} => \A h \in DOMAIN stHandles : stHandles[h].live => h = stDb

\* ensureOpen gives a connection: a call that ends without an error and
\* during which nobody closed the store or deleted its database leaves a
\* connection behind, even when the open it joined belonged to an older
\* generation.  (A delete may come from an open that rebuilds a database
\* without its stores: two of those, and ensureOpen ends without one.)
StEnsureHolds ==
  [][ \A c \in StIds :
        (stCalls[c].kind = "ensure" /\ stCalls[c].at = "waiting" /\ stCalls'[c].at = "done"
           /\ ~stCalls[c].raced) => stDb # 0 ]_stVars

\* this.db is usable: what isOpen reports open is a live connection.
\* (The comment on open's onversionchange: "drop the reference".)  It does
\* not hold: forceReset installs a handle that closes without dropping it.
StUsable == stDb # 0 => stHandles[stDb].live

=============================================================================
