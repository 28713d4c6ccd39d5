--------------------------- MODULE RecoveryProofs ---------------------------
(***************************************************************************)
(* What the recovery of the store keeps, for every value of the bounds.    *)
(*                                                                         *)
(* The connection of IndexStore and the retries of its open, for any       *)
(* number of calls, closes, events, delays, stages and manual retries:     *)
(* success is reported at most once, exhaustion at most once per retry, a  *)
(* scheduler that is done holds no timer; as long as forceReset has not    *)
(* run, a live connection is this.db; and an ensureOpen that returns       *)
(* leaves a connection, unless the store went away under its wait.         *)
(*                                                                         *)
(* The drift recovery, for any number of generations, passes and sessions: *)
(* until a session is aborted, the running flag is the pass in flight and  *)
(* there is at most one; a due pass is held; a verdict is of the pass that *)
(* gives it.                                                               *)
(*                                                                         *)
(* The surfaces that show the state of the index, for a vault of any size  *)
(* and any counts, moves and fleet: in every state of the flags they tell  *)
(* one story, but in two cases that the property names; and an index that  *)
(* was dropped and is being recovered is shown neither as ready nor as     *)
(* missing.  Every rule of theirs is a table that is read from the top.    *)
(***************************************************************************)
EXTENDS StoreOpenRetry, StoreHandle, DriftRecovery, StatusFlags,
        SequenceTheorems, FiniteSetTheorems, WellFoundedInduction, TLAPS

-----------------------------------------------------------------------------
(***************************************************************************)
(* The retries (StoreOpenRetry)                                            *)
(***************************************************************************)
LEMMA InitRetry == SrInit => RetryInv
  BY DEF SrInit, RetryInv, QuietWhenDisposed, SuccessOnce

(* A timer can only fire in a scheduler that is not done. *)
LEMMA FireKeeps ==
  ASSUME RetryInv, NEW t \in timers, FireFixed(t) \/ FireStarter(t) \/ FireBackoff(t)
  PROVE  RetryInv'
  <1>1. ~disposed
    BY DEF RetryInv, QuietWhenDisposed
  <1>2. UNCHANGED <<disposed, exhausted, exhaustions, successes>>
    BY DEF FireFixed, FireStarter, FireBackoff
  <1> QED
    BY <1>1, <1>2 DEF RetryInv, QuietWhenDisposed, SuccessOnce

(* Of two attempts that open the store, the second finds disposed set. *)
LEMMA OpensKeeps ==
  ASSUME RetryInv, NEW a \in attempts, AttemptOpens(a)
  PROVE  RetryInv'
  <1>1. CASE current /\ ~disposed
    BY <1>1 DEF AttemptOpens, RetryInv, QuietWhenDisposed, SuccessOnce
  <1>2. CASE ~(current /\ ~disposed)
    BY <1>2 DEF AttemptOpens, RetryInv, QuietWhenDisposed, SuccessOnce
  <1> QED
    BY <1>1, <1>2

(* Of two chains that run out, the second finds exhausted set. *)
LEMMA FailsKeeps ==
  ASSUME RetryInv, NEW a \in attempts, AttemptFails(a)
  PROVE  RetryInv'
  <1>1. UNCHANGED <<disposed, successes>>
    BY DEF AttemptFails
  <1>2. \/ UNCHANGED <<timers, exhausted, exhaustions>>
        \/ ~disposed /\ ~exhausted /\ exhausted' = TRUE /\ exhaustions' = exhaustions + 1
        \/ ~disposed /\ UNCHANGED <<exhausted, exhaustions>>
    BY DEF AttemptFails, scheduleNextBackoff, NoStage, Exhaust, NextStage
  <1> QED
    BY <1>1, <1>2 DEF RetryInv, QuietWhenDisposed, SuccessOnce

LEMMA NextKeeps ==
  ASSUME RetryInv, [SrNext]_srVars
  PROVE  RetryInv'
  <1>1. CASE Fire
    BY <1>1, FireKeeps DEF Fire
  <1>2. CASE SrSettle
    BY <1>2, OpensKeeps, FailsKeeps DEF SrSettle
  <1>3. CASE RetryNow
    BY <1>3 DEF RetryNow, RetryInv, QuietWhenDisposed, SuccessOnce
  <1>4. CASE Dispose
    BY <1>4 DEF Dispose, RetryInv, QuietWhenDisposed, SuccessOnce
  <1>5. CASE SessionEnds \/ UNCHANGED srVars
    BY <1>5 DEF SessionEnds, srVars, RetryInv, QuietWhenDisposed, SuccessOnce
  <1> QED
    BY <1>1, <1>2, <1>3, <1>4, <1>5 DEF SrNext

LEMMA RetryInvariant == SrSpec => []RetryInv
  <1>1. RetryInv /\ [SrNext]_srVars => RetryInv'
    BY NextKeeps
  <1> QED
    BY <1>1, InitRetry, PTL DEF SrSpec

(* The boot is resumed at most once, however many attempts are in flight    *)
(* when the store opens.                                                   *)
THEOREM ResumesOnce == SrSpec => []SuccessOnce
  <1>1. RetryInv => SuccessOnce
    BY DEF RetryInv
  <1> QED
    BY <1>1, RetryInvariant, PTL

(* The reset of the database is called for at most once until the user     *)
(* asks again, also when a manual retry has left two chains.               *)
THEOREM ResetsOnce == SrSpec => []ExhaustedOnce
  <1>1. RetryInv => ExhaustedOnce
    BY DEF RetryInv, ExhaustedOnce
  <1> QED
    BY <1>1, RetryInvariant, PTL

(* A scheduler that is done holds no timer. *)
THEOREM DoneIsQuiet == SrSpec => []QuietWhenDisposed
  <1>1. RetryInv => QuietWhenDisposed
    BY DEF RetryInv
  <1> QED
    BY <1>1, RetryInvariant, PTL

-----------------------------------------------------------------------------
(***************************************************************************)
(* The connection (StoreHandle)                                            *)
(***************************************************************************)
Places ==
  {"opening", "reopening", "deleting", "dropping", "resetting", "clearing", "waiting", "done",
   "failed"}
CallType ==
  [kind : {"open", "ensure", "reset"}, at : Places, gen : Nat, on : Nat, tries : Nat,
   raced : BOOLEAN]
HandleType  == [live : BOOLEAN, wired : BOOLEAN]
RequestType == [kind : {"open", "delete"}, call : Nat]

StTypeOK ==
  /\ stDb \in 0 .. Len(stHandles)
  /\ stGen \in Nat
  /\ stMemo \in Nat
  /\ stCalls \in Seq(CallType)
  /\ stHandles \in Seq(HandleType)
  /\ stQueue \in Seq(RequestType)

\* A request that somebody waits for is one of an open or of a reset.
Owned(calls, r) ==
  r.call # NoCall => r.call \in 1 .. Len(calls) /\ calls[r.call].kind \in {"open", "reset"}

QueueOwned == \A i \in 1 .. Len(stQueue) : Owned(stCalls, stQueue[i])

StInv == StTypeOK /\ QueueOwned /\ StNoLeak
-----------------------------------------------------------------------------
(***************************************************************************)
(* Calls and requests                                                      *)
(***************************************************************************)
LEMMA FunctionIsSeq ==
  ASSUME NEW S, NEW n \in Nat, NEW f \in [1 .. n -> S]
  PROVE  f \in Seq(S) /\ Len(f) = n
  OBVIOUS

\* A call changes its place, never its kind, and no call goes.
Grows(old, new) ==
  /\ new \in Seq(CallType) /\ Len(old) <= Len(new)
  /\ \A i \in 1 .. Len(old) : new[i].kind = old[i].kind

LEMMA CallUpdated ==
  ASSUME NEW calls \in Seq(CallType), NEW c \in 1 .. Len(calls), NEW r \in CallType,
         r.kind = calls[c].kind
  PROVE  Grows(calls, [calls EXCEPT ![c] = r])
  BY DEF Grows

LEMMA CallSettled ==
  ASSUME NEW calls \in Seq(CallType), NEW c \in 1 .. Len(calls), NEW at \in Places
  PROVE  Grows(calls, [calls EXCEPT ![c].at = at])
<1>1. calls[c] \in CallType
  OBVIOUS
<1>2. [calls[c] EXCEPT !.at = at] \in CallType /\ [calls[c] EXCEPT !.at = at].kind = calls[c].kind
  BY <1>1 DEF CallType
<1>3. [calls EXCEPT ![c].at = at] = [calls EXCEPT ![c] = [calls[c] EXCEPT !.at = at]]
  OBVIOUS
<1> QED
  BY <1>2, <1>3, CallUpdated

LEMMA CallMade ==
  ASSUME StTypeOK, NEW calls \in Seq(CallType), NEW kind \in {"open", "ensure", "reset"},
         NEW at \in Places
  PROVE  /\ Grows(calls, Append(calls, NewCall(kind, at, NoCall)))
         /\ Len(Append(calls, NewCall(kind, at, NoCall))) = Len(calls) + 1
         /\ Append(calls, NewCall(kind, at, NoCall))[Len(calls) + 1].kind = kind
<1>1. NewCall(kind, at, NoCall) \in CallType /\ NewCall(kind, at, NoCall).kind = kind
  BY DEF NewCall, NoCall, CallType, StTypeOK
<1> QED
  BY <1>1, AppendProperties DEF Grows

LEMMA CallsRaced ==
  ASSUME NEW calls \in Seq(CallType)
  PROVE  Grows(calls, Raced(calls)) /\ Len(Raced(calls)) = Len(calls)
<1>1. \A i \in 1 .. Len(calls) :
        [calls[i] EXCEPT !.raced = TRUE] \in CallType
          /\ [calls[i] EXCEPT !.raced = TRUE].kind = calls[i].kind
  <2>1. \A r \in CallType :
          [r EXCEPT !.raced = TRUE] \in CallType /\ [r EXCEPT !.raced = TRUE].kind = r.kind
    BY DEF CallType
  <2> QED
    BY <2>1
<1>2. Raced(calls) \in [1 .. Len(calls) -> CallType]
  BY <1>1 DEF Raced
<1>3. Raced(calls) \in Seq(CallType) /\ Len(Raced(calls)) = Len(calls)
  BY <1>2, LenProperties, FunctionIsSeq
<1> QED
  <2>1. \A i \in 1 .. Len(calls) : Raced(calls)[i].kind = calls[i].kind
    BY <1>1 DEF Raced
  <2> QED
    BY <1>3, <2>1 DEF Grows

LEMMA GrowsOn ==
  ASSUME NEW a, NEW b, NEW c, a \in Seq(CallType), Grows(a, b), Grows(b, c)
  PROVE  Grows(a, c)
  BY DEF Grows

LEMMA GrowsSame ==
  ASSUME NEW calls \in Seq(CallType)
  PROVE  Grows(calls, calls)
  BY DEF Grows

LEMMA OwnedOn ==
  ASSUME NEW old \in Seq(CallType), NEW new, Grows(old, new), NEW r \in RequestType, Owned(old, r)
  PROVE  Owned(new, r)
  BY DEF Grows, Owned, RequestType

\* The queues a step may leave: all in them are requests with an owner.
Served(q) == q \in Seq(RequestType) /\ \A i \in 1 .. Len(q) : Owned(stCalls', q[i])

LEMMA RequestAdded ==
  ASSUME NEW q, Served(q), NEW kind \in {"open", "delete"}, NEW c \in 1 .. Len(stCalls'),
         stCalls' \in Seq(CallType), stCalls'[c].kind \in {"open", "reset"}
  PROVE  Served(Append(q, Request(kind, c)))
<1>1. Request(kind, c) \in RequestType /\ Request(kind, c).call = c
  BY DEF Request, RequestType
<1>2. Owned(stCalls', Request(kind, c))
  BY <1>1 DEF Owned
<1> QED
  BY <1>1, <1>2, AppendProperties DEF Served

LEMMA QueueKept ==
  ASSUME StTypeOK, QueueOwned, Grows(stCalls, stCalls')
  PROVE  Served(stQueue)
  BY OwnedOn DEF Served, StTypeOK, QueueOwned

LEMMA TailServed ==
  ASSUME NEW q, Served(q), q # <<>>
  PROVE  Served(Tail(q))
  BY HeadTailProperties DEF Served

LEMMA AbandonServed ==
  ASSUME StTypeOK, QueueOwned, Grows(stCalls, stCalls'), NEW c
  PROVE  Served(Abandon(c))
<1>1. \A i \in 1 .. Len(stQueue) :
        stQueue[i] \in RequestType /\ [stQueue[i] EXCEPT !.call = NoCall] \in RequestType
  <2>1. \A r \in RequestType : [r EXCEPT !.call = NoCall] \in RequestType
    BY DEF RequestType, NoCall
  <2> QED
    BY <2>1 DEF StTypeOK
<1>2. Abandon(c) \in [1 .. Len(stQueue) -> RequestType]
  BY <1>1 DEF Abandon, StTypeOK
<1>3. Abandon(c) \in Seq(RequestType) /\ Len(Abandon(c)) = Len(stQueue)
  BY <1>2, LenProperties, FunctionIsSeq DEF StTypeOK
<1>4. \A i \in 1 .. Len(stQueue) : Abandon(c)[i] = stQueue[i] \/ Abandon(c)[i].call = NoCall
  BY DEF Abandon, StTypeOK, RequestType
<1>5. \A i \in 1 .. Len(stQueue) : Owned(stCalls', stQueue[i])
  BY QueueKept DEF Served
<1> QED
  BY <1>3, <1>4, <1>5 DEF Served, Owned

-----------------------------------------------------------------------------
(***************************************************************************)
(* What the steps do to the calls and to the queue                         *)
(***************************************************************************)
LEMMA Joining ==
  ASSUME StTypeOK, QueueOwned, NEW calls, Grows(stCalls, calls), NEW c \in 1 .. Len(calls),
         JoinOrOpen(c, calls)
  PROVE  Grows(stCalls, stCalls') /\ Served(stQueue') /\ stMemo' \in Nat
<1>0. stCalls \in Seq(CallType) /\ calls \in Seq(CallType)
  BY DEF StTypeOK, Grows
<1>1. ASSUME NEW o \in Nat
      PROVE  Grows(stCalls, [calls EXCEPT ![c].on = o, ![c].tries = @ + 1])
  <2> DEFINE r == [calls[c] EXCEPT !.on = o, !.tries = calls[c].tries + 1]
  <2>1. calls[c] \in CallType
    BY <1>0
  <2>2. r \in CallType /\ r.kind = calls[c].kind
    <3>1. calls[c].tries + 1 \in Nat
      BY <2>1 DEF CallType
    <3> QED
      BY <2>1, <3>1 DEF CallType
  <2>3. [calls EXCEPT ![c].on = o, ![c].tries = @ + 1] = [calls EXCEPT ![c] = r]
    BY <1>0, <2>1 DEF CallType
  <2> HIDE DEF r
  <2>4. Grows(calls, [calls EXCEPT ![c] = r])
    BY <1>0, <2>2, CallUpdated
  <2> QED
    BY <1>0, <2>3, <2>4, GrowsOn
<1>2. CASE stMemo # NoCall
  <2>1. stCalls' = [calls EXCEPT ![c].on = stMemo, ![c].tries = @ + 1] /\ UNCHANGED <<stMemo, stQueue>>
    BY <1>2 DEF JoinOrOpen
  <2>2. Grows(stCalls, stCalls')
    BY <1>1, <2>1 DEF StTypeOK
  <2> QED
    BY <2>1, <2>2, QueueKept DEF StTypeOK
<1>3. CASE stMemo = NoCall
  <2> DEFINE o == Len(calls) + 1
             new == [calls EXCEPT ![c].on = o, ![c].tries = @ + 1]
  <2>0. o \in Nat
    BY <1>0
  <2>1. /\ stCalls' = Append(new, NewCall("open", "opening", NoCall))
        /\ stMemo' = o /\ stQueue' = Append(stQueue, Request("open", o))
    BY <1>3 DEF JoinOrOpen
  <2>2. Grows(stCalls, new) /\ Len(new) = Len(calls)
    BY <1>0, <1>1, <2>0
  <2>3. new \in Seq(CallType)
    BY <2>2 DEF Grows
  <2> HIDE DEF new
  <2>4. /\ Grows(new, stCalls') /\ Len(stCalls') = o /\ stCalls'[o].kind = "open"
    BY <2>1, <2>2, <2>3, CallMade DEF Places
  <2>5. Grows(stCalls, stCalls') /\ stCalls' \in Seq(CallType)
    BY <1>0, <2>2, <2>4, GrowsOn DEF Grows
  <2>6. Served(stQueue) /\ o \in 1 .. Len(stCalls')
    BY <1>0, <2>4, <2>5, QueueKept
  <2>7. Served(stQueue')
    BY <2>1, <2>4, <2>5, <2>6, RequestAdded
  <2> QED
    BY <2>0, <2>1, <2>5, <2>7
<1> QED
  BY <1>2, <1>3

LEMMA CallsMade ==
  ASSUME StTypeOK, QueueOwned, CallOpen \/ CallEnsure \/ CallClose \/ CallReset
  PROVE  Grows(stCalls, stCalls') /\ Served(stQueue') /\ stMemo' \in Nat /\ stGen' \in Nat
<1>0. stCalls \in Seq(CallType) /\ stMemo \in Nat /\ stGen \in Nat
  BY DEF StTypeOK
<1>1. CASE CallOpen
  <2> DEFINE o == Len(stCalls) + 1
  <2>1. /\ stCalls' = Append(stCalls, NewCall("open", "opening", NoCall))
        /\ stQueue' = Append(stQueue, Request("open", o)) /\ UNCHANGED <<stMemo, stGen>>
    BY <1>1 DEF CallOpen
  <2>2. Grows(stCalls, stCalls') /\ Len(stCalls') = o /\ stCalls'[o].kind = "open"
    BY <1>0, <2>1, CallMade DEF Places
  <2>3. Served(stQueue) /\ o \in 1 .. Len(stCalls') /\ stCalls' \in Seq(CallType)
    BY <1>0, <2>2, QueueKept DEF Grows
  <2> QED
    BY <1>0, <2>1, <2>2, <2>3, RequestAdded
<1>2. CASE CallEnsure
  <2> DEFINE calls == Append(stCalls, NewCall("ensure", "waiting", NoCall))
             c == Len(stCalls) + 1
  <2>1. JoinOrOpen(c, calls) /\ stGen' = stGen
    BY <1>2 DEF CallEnsure
  <2>2. Grows(stCalls, calls) /\ Len(calls) = c
    BY <1>0, CallMade DEF Places
  <2>3. c \in 1 .. Len(calls)
    BY <1>0, <2>2
  <2> HIDE DEF calls, c
  <2> QED
    BY <1>0, <2>1, <2>2, <2>3, Joining
<1>3. CASE CallClose
  <2>1. stCalls' = Raced(stCalls) /\ stGen' = stGen + 1 /\ UNCHANGED <<stMemo, stQueue>>
    BY <1>3 DEF CallClose, CloseStore
  <2> QED
    BY <1>0, <2>1, CallsRaced, QueueKept
<1>4. CASE CallReset
  <2> DEFINE o == Len(stCalls) + 1
             raced == Raced(stCalls)
  <2>1. /\ stCalls' = Append(raced, NewCall("reset", "dropping", NoCall))
        /\ stQueue' = Append(stQueue, Request("delete", o)) /\ stMemo' = stMemo
        /\ stGen' = stGen + 1
    BY <1>4 DEF CallReset, CloseStore
  <2>2. Grows(stCalls, raced) /\ Len(raced) = Len(stCalls) /\ raced \in Seq(CallType)
    BY <1>0, CallsRaced DEF Grows
  <2> HIDE DEF raced
  <2>3. Grows(raced, stCalls') /\ Len(stCalls') = o /\ stCalls'[o].kind = "reset"
    BY <2>1, <2>2, CallMade DEF Places
  <2>4. Grows(stCalls, stCalls') /\ stCalls' \in Seq(CallType)
    BY <1>0, <2>2, <2>3, GrowsOn DEF Grows
  <2>5. Served(stQueue) /\ o \in 1 .. Len(stCalls')
    BY <1>0, <2>3, <2>4, QueueKept
  <2> QED
    BY <1>0, <2>1, <2>3, <2>4, <2>5, RequestAdded
<1> QED
  BY <1>1, <1>2, <1>3, <1>4

LEMMA Waking ==
  ASSUME StTypeOK, QueueOwned, NEW c \in StIds,
         EnsureWakes(c) \/ OpenGivesUp(c) \/ ResetGivesUp(c)
  PROVE  Grows(stCalls, stCalls') /\ Served(stQueue') /\ stMemo' \in Nat /\ stGen' \in Nat
<1>0. stCalls \in Seq(CallType) /\ c \in 1 .. Len(stCalls) /\ stMemo \in Nat /\ stGen \in Nat
  BY DEF StTypeOK, StIds
<1>1. CASE EnsureWakes(c)
  <2>1. CASE JoinOrOpen(c, stCalls)
    BY <1>0, <1>1, <2>1, GrowsSame, Joining DEF EnsureWakes
  <2>2. CASE ~JoinOrOpen(c, stCalls)
    <3>1. /\ stCalls' = [stCalls EXCEPT ![c].at = stCalls[stCalls[c].on].at]
          /\ stCalls[stCalls[c].on].at \in Places /\ UNCHANGED <<stMemo, stQueue, stGen>>
      BY <1>1, <2>2 DEF EnsureWakes, Places
    <3>2. Grows(stCalls, stCalls')
      BY <1>0, <3>1, CallSettled DEF Places
    <3> QED
      BY <1>0, <3>1, <3>2, QueueKept
  <2> QED
    BY <2>1, <2>2
<1>2. CASE OpenGivesUp(c)
  <2>1. /\ stCalls' = [stCalls EXCEPT ![c].at = "failed"] /\ stQueue' = Abandon(c)
        /\ stMemo' \in Nat /\ stGen' = stGen
    BY <1>0, <1>2 DEF OpenGivesUp, Settle, ClearMemo, NoCall
  <2>2. Grows(stCalls, stCalls')
    BY <1>0, <2>1, CallSettled DEF Places
  <2> QED
    BY <1>0, <2>1, <2>2, AbandonServed
<1>3. CASE ResetGivesUp(c) /\ stCalls[c].at = "resetting"
  <2>1. /\ stCalls' = [stCalls EXCEPT ![c].at = "done"] /\ stQueue' = Abandon(c)
        /\ UNCHANGED <<stMemo, stGen>>
    BY <1>3 DEF ResetGivesUp, Settle
  <2>2. Grows(stCalls, stCalls')
    BY <1>0, <2>1, CallSettled DEF Places
  <2> QED
    BY <1>0, <2>1, <2>2, AbandonServed
<1>4. CASE ResetGivesUp(c) /\ stCalls[c].at # "resetting"
  <2> DEFINE raced == Raced(stCalls)
             at == IF stCalls[c].at = "dropping" THEN "clearing" ELSE "done"
  <2>1. /\ stCalls' = [raced EXCEPT ![c].at = at] /\ stMemo' = stMemo /\ stGen' = stGen + 1
        /\ stQueue' \in {Abandon(c), Append(Abandon(c), Request("open", c))}
        /\ stCalls[c].kind = "reset"
    BY <1>4 DEF ResetGivesUp, CloseStore
  <2>2. at \in Places
    BY DEF Places
  <2>3. Grows(stCalls, raced) /\ Len(raced) = Len(stCalls) /\ raced \in Seq(CallType)
    BY <1>0, CallsRaced DEF Grows
  <2> HIDE DEF raced, at
  <2>4. Grows(raced, stCalls')
    BY <1>0, <2>1, <2>2, <2>3, CallSettled DEF Places
  <2>5. Grows(stCalls, stCalls')
    BY <1>0, <2>3, <2>4, GrowsOn
  <2>6. stCalls' \in Seq(CallType) /\ c \in 1 .. Len(stCalls') /\ stCalls'[c].kind = "reset"
    BY <1>0, <2>1, <2>5 DEF Grows
  <2>7. Served(Abandon(c))
    BY <2>5, AbandonServed
  <2>8. Served(Append(Abandon(c), Request("open", c)))
    BY <2>6, <2>7, RequestAdded
  <2>9. Served(stQueue')
    BY <2>1, <2>7, <2>8
  <2> QED
    BY <1>0, <2>1, <2>5, <2>9
<1> QED
  BY <1>1, <1>2, <1>3, <1>4

\* The request at the head: an open whose answer somebody takes, or a delete.
LEMMA HeadOwned ==
  ASSUME StTypeOK, QueueOwned, stQueue # <<>>, Head(stQueue).call # NoCall
  PROVE  /\ Head(stQueue).call \in 1 .. Len(stCalls)
         /\ stCalls[Head(stQueue).call].kind \in {"open", "reset"}
<1>1. Head(stQueue) = stQueue[1] /\ 1 \in 1 .. Len(stQueue)
  BY EmptySeq DEF StTypeOK
<1> QED
  BY <1>1 DEF QueueOwned, Owned

LEMMA Serving ==
  ASSUME StTypeOK, QueueOwned, ServeOpen \/ ServeDelete
  PROVE  Grows(stCalls, stCalls') /\ Served(stQueue') /\ stMemo' \in Nat /\ stGen' \in Nat
<1> DEFINE c == Head(stQueue).call
           rest == Tail(stQueue)
           h == Len(stHandles) + 1
<1>0. /\ stCalls \in Seq(CallType) /\ stMemo \in Nat /\ stGen \in Nat /\ stQueue # <<>>
      /\ stGen' = stGen
  BY DEF StTypeOK, ServeOpen, ServeDelete
<1>1. c # NoCall => c \in 1 .. Len(stCalls) /\ stCalls[c].kind \in {"open", "reset"}
  BY <1>0, HeadOwned
<1> HIDE DEF c, h
<1>2. ASSUME c # NoCall, NEW at \in Places, Settle(c, at)
      PROVE  /\ Grows(stCalls, stCalls') /\ stCalls' \in Seq(CallType)
             /\ Served(rest) /\ Served(Append(rest, Request("delete", c)))
             /\ Served(Append(rest, Request("open", c)))
  <2>1. Grows(stCalls, stCalls')
    BY <1>0, <1>1, <1>2, CallSettled DEF Settle
  <2>2. /\ stCalls' \in Seq(CallType) /\ c \in 1 .. Len(stCalls')
        /\ stCalls'[c].kind \in {"open", "reset"}
    BY <1>0, <1>1, <1>2, <2>1 DEF Grows
  <2>3. Served(rest)
    BY <1>0, <2>1, QueueKept, TailServed
  <2> QED
    BY <2>1, <2>2, <2>3, RequestAdded
<1>3. ASSUME stCalls' = stCalls PROVE Grows(stCalls, stCalls') /\ Served(rest)
  BY <1>0, <1>3, GrowsSame, QueueKept, TailServed
<1>4. ASSUME ClearMemo(c) PROVE stMemo' \in Nat
  BY <1>0, <1>4 DEF ClearMemo, NoCall
<1>5. CASE ServeOpen /\ c = NoCall
  <2>1. stQueue' = rest /\ stCalls' = stCalls /\ stMemo' = stMemo
    BY <1>5 DEF ServeOpen, c
  <2> QED
    BY <1>0, <1>3, <2>1
<1>6. CASE ServeOpen /\ c # NoCall /\ stCalls[c].kind = "open"
  <2>1. OpenAnswered(c, h, rest)
    BY <1>6 DEF ServeOpen, c, h
  <2>2. \/ Settle(c, "done") /\ ClearMemo(c) /\ stQueue' = rest
        \/ Settle(c, "failed") /\ ClearMemo(c) /\ stQueue' = rest
        \/ /\ Settle(c, "deleting") /\ stQueue' = Append(rest, Request("delete", c))
           /\ UNCHANGED stMemo
    BY <2>1 DEF OpenAnswered
  <2>3. {"done", "failed", "deleting"} \subseteq Places
    BY DEF Places
  <2> HIDE DEF rest
  <2> QED
    BY <1>0, <1>2, <1>4, <1>6, <2>2, <2>3
<1>7. CASE ServeOpen /\ c # NoCall /\ stCalls[c].kind # "open"
  <2>1. ResetAnswered(c, h, rest)
    BY <1>7 DEF ServeOpen, c, h
  <2>2. Settle(c, "done") /\ stQueue' = rest /\ UNCHANGED stMemo /\ "done" \in Places
    BY <2>1 DEF ResetAnswered, Places
  <2> QED
    BY <1>0, <1>2, <1>7, <2>2
<1>8. CASE ServeDelete /\ c = NoCall
  <2>1. stQueue' = rest /\ stCalls' = Raced(stCalls) /\ stMemo' = stMemo
    BY <1>8 DEF ServeDelete, c
  <2>2. Grows(stCalls, stCalls')
    BY <1>0, <2>1, CallsRaced
  <2> QED
    BY <1>0, <2>1, <2>2, QueueKept, TailServed
<1>9. CASE ServeDelete /\ c # NoCall
  <2> DEFINE raced == Raced(stCalls)
             at == IF stCalls[c].kind = "open" THEN "reopening" ELSE "resetting"
  <2>1. /\ stCalls' = [raced EXCEPT ![c].at = at] /\ at \in Places
        /\ stQueue' = Append(rest, Request("open", c)) /\ stMemo' = stMemo
    BY <1>9 DEF ServeDelete, c, Places
  <2>2. Grows(stCalls, raced) /\ Len(raced) = Len(stCalls) /\ raced \in Seq(CallType)
    BY <1>0, CallsRaced DEF Grows
  <2> HIDE DEF raced, at, rest
  <2>3. Grows(raced, stCalls')
    BY <1>1, <1>9, <2>1, <2>2, CallSettled
  <2>4. Grows(stCalls, stCalls')
    BY <1>0, <2>2, <2>3, GrowsOn
  <2>5. /\ stCalls' \in Seq(CallType) /\ c \in 1 .. Len(stCalls')
        /\ stCalls'[c].kind \in {"open", "reset"}
    BY <1>0, <1>1, <1>9, <2>4 DEF Grows
  <2>6. Served(rest)
    BY <1>0, <2>4, QueueKept, TailServed DEF rest
  <2> QED
    BY <1>0, <2>1, <2>4, <2>5, <2>6, RequestAdded
<1> QED
  BY <1>5, <1>6, <1>7, <1>8, <1>9

-----------------------------------------------------------------------------
(***************************************************************************)
(* Handles                                                                 *)
(***************************************************************************)
HandlesOK(hs, db) == hs \in Seq(HandleType) /\ db \in 0 .. Len(hs)

\* The live handles are this.db, or there is none.
OneLive(hs, db) == \A i \in 1 .. Len(hs) : hs[i].live => i = db

\* A step of the handles keeps them typed, and leaks none if none was leaked.
Tight ==
  /\ HandlesOK(stHandles', stDb')
  /\ OneLive(stHandles, stDb) => OneLive(stHandles', stDb')

LEMMA ClosedLeaves ==
  ASSUME NEW hs \in Seq(HandleType), NEW h \in 0 .. Len(hs)
  PROVE  /\ Closed(hs, h) \in Seq(HandleType) /\ Len(Closed(hs, h)) = Len(hs)
         /\ \A i \in 1 .. Len(hs) : Closed(hs, h)[i].live <=> hs[i].live /\ i # h
<1>1. CASE h = 0
  BY <1>1 DEF Closed
<1>2. CASE h # 0
  <2>1. hs[h] \in HandleType /\ h \in 1 .. Len(hs)
    BY <1>2
  <2>2. [hs[h] EXCEPT !.live = FALSE] \in HandleType /\ [hs[h] EXCEPT !.live = FALSE].live = FALSE
    BY <2>1 DEF HandleType
  <2>3. Closed(hs, h) = [hs EXCEPT ![h] = [hs[h] EXCEPT !.live = FALSE]]
    BY <1>2 DEF Closed
  <2> QED
    BY <2>1, <2>2, <2>3
<1> QED
  BY <1>1, <1>2

\* An answer makes a handle that is live, and not yet this.db.
LEMMA HandleMade ==
  ASSUME NEW hs \in Seq(HandleType)
  PROVE  LET new == Append(hs, [live |-> TRUE, wired |-> FALSE])
         IN  /\ new \in Seq(HandleType) /\ Len(new) = Len(hs) + 1
             /\ \A i \in 1 .. Len(hs) : new[i] = hs[i]
<1>1. [live |-> TRUE, wired |-> FALSE] \in HandleType
  BY DEF HandleType
<1> QED
  BY <1>1, AppendProperties

LEMMA StoreCloses ==
  ASSUME HandlesOK(stHandles, stDb), CloseStore
  PROVE  Tight
  BY ClosedLeaves DEF HandlesOK, OneLive, Tight, CloseStore

LEMMA VersionCloses ==
  ASSUME HandlesOK(stHandles, stDb), VersionChange
  PROVE  Tight
<1>1. stHandles \in Seq(HandleType) /\ DOMAIN stHandles = 1 .. Len(stHandles)
  BY DEF HandlesOK
<1>2. \A r \in HandleType : [r EXCEPT !.live = FALSE] \in HandleType /\ ~[r EXCEPT !.live = FALSE].live
  BY DEF HandleType
<1>3. stHandles' \in [1 .. Len(stHandles) -> HandleType]
  BY <1>1, <1>2 DEF VersionChange
<1>4. stHandles' \in Seq(HandleType) /\ Len(stHandles') = Len(stHandles)
  BY <1>1, <1>3, FunctionIsSeq
<1>5. \A i \in 1 .. Len(stHandles) : ~stHandles'[i].live
  <2>1. \A i \in 1 .. Len(stHandles) : stHandles'[i] = [stHandles[i] EXCEPT !.live = FALSE]
    BY <1>1 DEF VersionChange
  <2>2. ASSUME NEW i \in 1 .. Len(stHandles) PROVE ~stHandles'[i].live
    <3>1. stHandles[i] \in HandleType
      BY <1>1
    <3>2. ~[stHandles[i] EXCEPT !.live = FALSE].live
      BY <1>2, <3>1
    <3> QED
      BY <2>1, <3>2
  <2> QED
    BY <2>2
<1>6. stDb' \in 0 .. Len(stHandles)
  BY DEF VersionChange, HandlesOK
<1> QED
  BY <1>4, <1>5, <1>6 DEF HandlesOK, OneLive, Tight

LEMMA OpenLeaves ==
  ASSUME HandlesOK(stHandles, stDb), NEW c, NEW rest, OpenAnswered(c, Len(stHandles) + 1, rest)
  PROVE  Tight
<1> DEFINE hs == Append(stHandles, [live |-> TRUE, wired |-> FALSE])
           h == Len(stHandles) + 1
<1>0. stHandles \in Seq(HandleType) /\ stDb \in 0 .. Len(stHandles)
  BY DEF HandlesOK
<1>1. /\ hs \in Seq(HandleType) /\ Len(hs) = h /\ h \in 1 .. Len(hs)
      /\ \A i \in 1 .. Len(stHandles) : hs[i] = stHandles[i]
  BY <1>0, HandleMade
<1>2. \/ stHandles' = Closed(hs, h) /\ stDb' = stDb
      \/ stHandles' = [Closed(hs, stDb) EXCEPT ![h].wired = TRUE] /\ stDb' = h
  BY DEF OpenAnswered, ClosePrevious
<1> HIDE DEF hs
<1>3. CASE stHandles' = Closed(hs, h) /\ stDb' = stDb
  <2>1. /\ stHandles' \in Seq(HandleType) /\ Len(stHandles') = h
        /\ \A i \in 1 .. h : stHandles'[i].live <=> hs[i].live /\ i # h
    BY <1>0, <1>1, <1>3, ClosedLeaves
  <2> QED
    BY <1>0, <1>1, <1>3, <2>1 DEF HandlesOK, OneLive, Tight
<1>4. CASE stHandles' = [Closed(hs, stDb) EXCEPT ![h].wired = TRUE] /\ stDb' = h
  <2> DEFINE closed == Closed(hs, stDb)
             r == [closed[h] EXCEPT !.wired = TRUE]
  <2>1. /\ closed \in Seq(HandleType) /\ Len(closed) = h
        /\ \A i \in 1 .. h : closed[i].live <=> hs[i].live /\ i # stDb
    BY <1>0, <1>1, ClosedLeaves
  <2> HIDE DEF closed
  <2>2. r \in HandleType
    <3>1. closed[h] \in HandleType
      BY <1>1, <2>1
    <3> QED
      BY <3>1 DEF HandleType
  <2>3. stHandles' = [closed EXCEPT ![h] = r]
    BY <1>4 DEF closed
  <2> HIDE DEF r
  <2>4. /\ stHandles' \in Seq(HandleType) /\ Len(stHandles') = h
        /\ \A i \in 1 .. Len(stHandles) : stHandles'[i] = closed[i]
    BY <1>0, <1>1, <2>1, <2>2, <2>3
  <2>5. OneLive(stHandles, stDb) => \A i \in 1 .. Len(stHandles) : ~stHandles'[i].live
    <3>1. SUFFICES ASSUME OneLive(stHandles, stDb), NEW i \in 1 .. Len(stHandles)
                   PROVE  ~stHandles'[i].live
      OBVIOUS
    <3>2. stHandles[i].live => i = stDb
      BY <3>1 DEF OneLive
    <3>3. i \in 1 .. h
      BY <1>0
    <3>4. closed[i].live <=> hs[i].live /\ i # stDb
      BY <2>1, <3>3
    <3>5. hs[i] = stHandles[i] /\ stHandles'[i] = closed[i]
      BY <1>1, <2>4
    <3> QED
      BY <3>2, <3>4, <3>5
  <2> QED
    BY <1>0, <1>1, <1>4, <2>4, <2>5 DEF HandlesOK, OneLive, Tight
<1> QED
  BY <1>2, <1>3, <1>4

\* A step leaks a handle only where forceReset puts its own in place.
LEMMA StepTight ==
  ASSUME StTypeOK, QueueOwned, StNext
  PROVE  /\ HandlesOK(stHandles', stDb')
         /\ Resets' = {} /\ OneLive(stHandles, stDb) => OneLive(stHandles', stDb')
<1>0. HandlesOK(stHandles, stDb) /\ stCalls \in Seq(CallType)
  BY DEF HandlesOK, StTypeOK
<1>1. CASE UNCHANGED <<stDb, stHandles>>
  BY <1>0, <1>1
<1>2. CASE CloseStore
  BY <1>0, <1>2, StoreCloses DEF Tight
<1>3. CASE VersionChange
  BY <1>0, <1>3, VersionCloses DEF Tight
<1>4. CASE CallOpen \/ CallEnsure \/ CallClose \/ CallReset
  BY <1>1, <1>2, <1>4 DEF CallOpen, CallEnsure, CallClose, CallReset
<1>5. CASE ServeDelete \/ OtherWindowCloses \/ OtherWindowUpgrades
  BY <1>1, <1>3, <1>5 DEF ServeDelete, OtherWindowCloses, OtherWindowUpgrades
<1>6. ASSUME NEW c \in StIds, EnsureWakes(c) \/ OpenGivesUp(c) \/ ResetGivesUp(c)
      PROVE  \/ UNCHANGED <<stDb, stHandles>> \/ CloseStore
  BY <1>6 DEF EnsureWakes, OpenGivesUp, ResetGivesUp
<1>7. CASE ServeOpen
  <2> DEFINE c == Head(stQueue).call
             h == Len(stHandles) + 1
  <2>1. stQueue # <<>>
    BY <1>7 DEF ServeOpen
  <2>2. CASE c = NoCall
    BY <1>1, <1>7, <2>2 DEF ServeOpen
  <2>3. CASE c # NoCall /\ stCalls[c].kind = "open"
    <3>1. OpenAnswered(c, h, Tail(stQueue))
      BY <1>7, <2>3 DEF ServeOpen
    <3> HIDE DEF c
    <3> QED
      BY <1>0, <3>1, OpenLeaves DEF Tight
  <2>4. CASE c # NoCall /\ stCalls[c].kind # "open"
    <3>1. ResetAnswered(c, h, Tail(stQueue))
      BY <1>7, <2>4 DEF ServeOpen
    <3>2. c \in 1 .. Len(stCalls) /\ stCalls[c].kind = "reset"
      BY <2>1, <2>4, HeadOwned
    <3> HIDE DEF c
    <3>3. HandlesOK(stHandles', stDb')
      BY <1>0, <3>1, HandleMade DEF ResetAnswered, HandlesOK
    <3>4. Grows(stCalls, stCalls')
      BY <1>7, Serving
    <3>5. c \in Resets'
      BY <1>0, <3>2, <3>4 DEF Grows, Resets, StIds
    <3> QED
      BY <3>3, <3>5
  <2> QED
    BY <2>2, <2>3, <2>4
<1> QED
  BY <1>1, <1>2, <1>4, <1>5, <1>6, <1>7 DEF StNext

LEMMA StepGrows ==
  ASSUME StTypeOK, QueueOwned, StNext
  PROVE  Grows(stCalls, stCalls') /\ Served(stQueue') /\ stMemo' \in Nat /\ stGen' \in Nat
<1>0. stCalls \in Seq(CallType)
  BY DEF StTypeOK
<1>1. CASE OtherWindowCloses
  BY <1>0, <1>1, GrowsSame, QueueKept DEF OtherWindowCloses, StTypeOK
<1>2. CASE OtherWindowUpgrades
  BY <1>0, <1>2, CallsRaced, QueueKept DEF OtherWindowUpgrades, StTypeOK
<1> QED
  BY <1>1, <1>2, CallsMade, Waking, Serving DEF StNext

\* The invariant of the connection, of its queue and of what nobody leaks.
LEMMA StoreInvariant == StSpec => []StInv
<1>1. StInit => StInv
  <2> SUFFICES ASSUME StInit PROVE StInv
    OBVIOUS
  <2>1. StTypeOK
    BY EmptySeq DEF StInit, StTypeOK, NoCall
  <2>2. QueueOwned /\ StNoLeak
    BY DEF StInit, QueueOwned, StNoLeak
  <2> QED
    BY <2>1, <2>2 DEF StInv
<1>2. StInv /\ [StNext]_stVars => StInv'
  <2> SUFFICES ASSUME StInv, [StNext]_stVars PROVE StInv'
    OBVIOUS
  <2>0. StTypeOK /\ QueueOwned /\ StNoLeak /\ stCalls \in Seq(CallType)
    BY DEF StInv, StTypeOK
  <2>1. CASE StNext
    <3>1. Grows(stCalls, stCalls') /\ Served(stQueue') /\ stMemo' \in Nat /\ stGen' \in Nat
      BY <2>0, <2>1, StepGrows
    <3>2. /\ HandlesOK(stHandles', stDb')
          /\ Resets' = {} /\ OneLive(stHandles, stDb) => OneLive(stHandles', stDb')
      BY <2>0, <2>1, StepTight
    <3>3. StTypeOK'
      BY <3>1, <3>2 DEF StTypeOK, Grows, Served, HandlesOK
    <3>4. QueueOwned'
      BY <3>1 DEF Served, QueueOwned
    <3>5. Resets' = {} => Resets = {}
      BY <2>0, <3>1 DEF Grows, Resets, StIds
    <3>6. /\ DOMAIN stHandles = 1 .. Len(stHandles)
          /\ DOMAIN stHandles' = 1 .. Len(stHandles')
      BY <2>0, <3>2 DEF StTypeOK, HandlesOK
    <3>7. StNoLeak'
      BY <2>0, <3>2, <3>5, <3>6 DEF StNoLeak, OneLive
    <3> QED
      BY <3>3, <3>4, <3>7 DEF StInv
  <2>2. CASE UNCHANGED stVars
    <3>1. StTypeOK'
      BY <2>0, <2>2 DEF stVars, StTypeOK
    <3>2. QueueOwned' /\ StNoLeak'
      BY <2>0, <2>2 DEF stVars, QueueOwned, Owned, StNoLeak, Resets, StIds
    <3> QED
      BY <3>1, <3>2 DEF StInv
  <2> QED
    BY <2>1, <2>2
<1> QED
  BY <1>1, <1>2, PTL DEF StSpec

\* No connection is leaked (the comment on openInFlight): while forceReset has not run, a
\* live connection is this.db, whatever opens, closes and late answers overlap.
THEOREM NothingLeaks == StSpec => []StNoLeak
<1>1. StInv => StNoLeak
  BY DEF StInv
<1> QED
  BY <1>1, StoreInvariant, PTL

-----------------------------------------------------------------------------
(***************************************************************************)
(* ensureOpen                                                              *)
(***************************************************************************)
\* A call that waits in ensureOpen and that nobody has raced joined an open that
\* belongs to this generation, or is on its first try while the memo is gone, is that
\* same open or is of this generation.
MemoOpen ==
  stMemo # NoCall => /\ stMemo \in StIds /\ stCalls[stMemo].kind = "open"
                     /\ stCalls[stMemo].at \notin {"done", "failed"}

Fresh(o) == stCalls[o].gen = stGen /\ (stCalls[o].at = "done" => stDb # 0)
Ensuring(c) ==
  stCalls[c].kind = "ensure" /\ stCalls[c].at = "waiting" /\ ~stCalls[c].raced
Joined(c) ==
  /\ stCalls[c].on \in StIds /\ stCalls[stCalls[c].on].kind = "open"
  /\ \/ Fresh(stCalls[c].on)
     \/ stCalls[c].tries = 1 /\ (stMemo \in {NoCall, stCalls[c].on} \/ Fresh(stMemo))

EnsureInv == MemoOpen /\ \A c \in StIds : Ensuring(c) => Joined(c)

\* What is kept of a call: all but its place, and that it was raced.
Kept(old, new) ==
  /\ Len(old) <= Len(new)
  /\ \A i \in 1 .. Len(old) :
       /\ new[i].kind = old[i].kind /\ new[i].gen = old[i].gen
       /\ old[i].raced => new[i].raced

LEMMA SettledFields ==
  ASSUME NEW calls \in Seq(CallType), NEW c \in 1 .. Len(calls), NEW at
  PROVE  LET new == [calls EXCEPT ![c].at = at]
         IN  /\ Len(new) = Len(calls)
             /\ \A i \in 1 .. Len(calls) :
                  /\ new[i].kind = calls[i].kind /\ new[i].gen = calls[i].gen
                  /\ new[i].on = calls[i].on /\ new[i].tries = calls[i].tries
                  /\ new[i].raced = calls[i].raced
                  /\ new[i].at = IF i = c THEN at ELSE calls[i].at
<1>1. \A r \in CallType : LET n == [r EXCEPT !.at = at]
                          IN  /\ n.kind = r.kind /\ n.gen = r.gen /\ n.on = r.on
                              /\ n.tries = r.tries /\ n.raced = r.raced /\ n.at = at
  BY DEF CallType
<1> QED
  BY <1>1

LEMMA RacedFields ==
  ASSUME NEW calls \in Seq(CallType)
  PROVE  /\ Raced(calls) \in Seq(CallType) /\ Len(Raced(calls)) = Len(calls)
         /\ \A i \in 1 .. Len(calls) :
              /\ Raced(calls)[i].kind = calls[i].kind /\ Raced(calls)[i].gen = calls[i].gen
              /\ Raced(calls)[i].at = calls[i].at
              /\ calls[i].kind = "ensure" /\ calls[i].at # "done" => Raced(calls)[i].raced
<1>1. \A r \in CallType : LET n == [r EXCEPT !.raced = TRUE]
                          IN  n.kind = r.kind /\ n.gen = r.gen /\ n.at = r.at /\ n.raced
  BY DEF CallType
<1>2. \A i \in 1 .. Len(calls) : calls[i] \in CallType
  OBVIOUS
<1>0. DOMAIN calls = 1 .. Len(calls)
  OBVIOUS
<1>3. ASSUME NEW i \in 1 .. Len(calls)
      PROVE  \/ Raced(calls)[i] = [calls[i] EXCEPT !.raced = TRUE]
             \/ Raced(calls)[i] = calls[i] /\ ~(calls[i].kind = "ensure" /\ calls[i].at # "done")
  <2>1. CASE calls[i].kind = "ensure" /\ calls[i].at # "done"
    <3>1. i \in DOMAIN calls
      BY <1>0
    <3> QED
      BY <2>1, <3>1, Zenon DEF Raced
  <2>2. CASE ~(calls[i].kind = "ensure" /\ calls[i].at # "done")
    BY <2>2 DEF Raced
  <2> QED
    BY <2>1, <2>2
<1>4. Raced(calls) \in Seq(CallType) /\ Len(Raced(calls)) = Len(calls)
  BY CallsRaced DEF Grows
<1> QED
  BY <1>1, <1>2, <1>3, <1>4

\* The steps that race every call that waits.
Races ==
  /\ Len(stCalls) <= Len(stCalls') /\ stMemo' = stMemo
  /\ \A i \in StIds' : ~Ensuring(i)'
  /\ \A i \in StIds : /\ stCalls'[i].kind = stCalls[i].kind
                      /\ stCalls[i].kind = "ensure" => stCalls'[i].at = stCalls[i].at
                      /\ stCalls'[i].at \in {"done", "failed"} /\ stCalls[i].kind = "open"
                           => stCalls[i].at = stCalls'[i].at

LEMMA RacesKeep ==
  ASSUME StTypeOK, EnsureInv, Races
  PROVE  EnsureInv'
  BY DEF StTypeOK, EnsureInv, Races, MemoOpen, StIds, Ensuring

\* The steps that move one open or reset on, and never take this.db away.
Moves(c) ==
  /\ c \in StIds /\ stCalls[c].kind \in {"open", "reset"}
  /\ stGen' = stGen /\ (stDb # 0 => stDb' # 0)
  /\ Len(stCalls') = Len(stCalls)
  /\ \A i \in StIds : /\ stCalls'[i].kind = stCalls[i].kind /\ stCalls'[i].gen = stCalls[i].gen
                      /\ stCalls'[i].on = stCalls[i].on /\ stCalls'[i].tries = stCalls[i].tries
                      /\ stCalls'[i].raced = stCalls[i].raced
                      /\ i # c => stCalls'[i].at = stCalls[i].at
  /\ stCalls'[c].at = "done" /\ stCalls[c].kind = "open" /\ stCalls[c].gen = stGen => stDb' # 0
  /\ stCalls'[c].at # "waiting"
  /\ stMemo' = stMemo \/ (stMemo' = NoCall)
  /\ stCalls[c].kind = "open" /\ stCalls'[c].at \in {"done", "failed"} => stMemo' # c

LEMMA MovesKeep ==
  ASSUME StTypeOK, EnsureInv, NEW c, Moves(c)
  PROVE  EnsureInv'
<1>1. MemoOpen'
  BY DEF StTypeOK, EnsureInv, Moves, MemoOpen, StIds, NoCall
<1>2. ASSUME NEW o \in StIds, stCalls[o].kind = "open", Fresh(o)  PROVE Fresh(o)'
  BY <1>2 DEF Fresh, Moves, StIds
<1>3. ASSUME NEW d \in StIds, Ensuring(d)'  PROVE Joined(d)'
  <2>1. Ensuring(d)
    BY <1>3 DEF Ensuring, Moves
  <2>2. Joined(d)
    BY <2>1 DEF EnsureInv
  <2>3. stMemo # NoCall => stMemo \in StIds /\ stCalls[stMemo].kind = "open"
    BY DEF EnsureInv, MemoOpen
  <2>4. /\ stCalls'[d].on = stCalls[d].on /\ stCalls'[d].tries = stCalls[d].tries
        /\ stCalls[d].on \in StIds' /\ stCalls'[stCalls[d].on].kind = "open"
    BY <2>2 DEF Joined, Moves, StIds
  <2>5. CASE Fresh(stCalls[d].on)
    BY <1>2, <2>2, <2>4, <2>5 DEF Joined, Fresh
  <2>6. CASE stCalls[d].tries = 1 /\ (stMemo \in {NoCall, stCalls[d].on} \/ Fresh(stMemo))
    <3>1. stMemo' \in {NoCall, stCalls[d].on} \/ Fresh(stMemo)'
      <4>1. CASE stMemo' = NoCall
        BY <4>1
      <4>2. CASE stMemo' = stMemo /\ stMemo # NoCall
        BY <1>2, <2>3, <2>6, <4>2 DEF Fresh
      <4> QED
        BY <4>1, <4>2 DEF Moves
    <3> QED
      BY <2>4, <2>6, <3>1 DEF Joined, Fresh
  <2> QED
    BY <2>2, <2>5, <2>6 DEF Joined
<1> QED
  BY <1>1, <1>3 DEF EnsureInv, Moves, StIds

\* A round of ensureOpen: the call waits for the memo, which is new if there was none.
LEMMA JoinFields ==
  ASSUME StTypeOK, NEW calls \in Seq(CallType), NEW c \in 1 .. Len(calls), JoinOrOpen(c, calls)
  PROVE  /\ Len(calls) <= Len(stCalls')
         /\ \A i \in 1 .. Len(calls) : i # c => stCalls'[i] = calls[i]
         /\ stCalls'[c].kind = calls[c].kind /\ stCalls'[c].raced = calls[c].raced
         /\ stCalls'[c].at = calls[c].at
         /\ stCalls'[c].tries = calls[c].tries + 1 /\ stCalls'[c].on = stMemo'
         /\ stMemo # NoCall => stMemo' = stMemo /\ Len(stCalls') = Len(calls)
         /\ stMemo = NoCall => /\ stMemo' = Len(calls) + 1 /\ Len(stCalls') = Len(calls) + 1
                               /\ stCalls'[stMemo'] = NewCall("open", "opening", NoCall)
<1>1. ASSUME NEW o \in Nat, NEW new, new = [calls EXCEPT ![c].on = o, ![c].tries = @ + 1]
      PROVE  /\ new \in Seq(CallType) /\ Len(new) = Len(calls)
             /\ \A i \in 1 .. Len(calls) : i # c => new[i] = calls[i]
             /\ new[c].kind = calls[c].kind /\ new[c].raced = calls[c].raced
             /\ new[c].at = calls[c].at
             /\ new[c].tries = calls[c].tries + 1 /\ new[c].on = o
  <2> DEFINE r == [calls[c] EXCEPT !.on = o, !.tries = calls[c].tries + 1]
  <2>1. calls[c] \in CallType
    OBVIOUS
  <2>2. /\ r \in CallType /\ r.kind = calls[c].kind /\ r.raced = calls[c].raced
        /\ r.at = calls[c].at /\ r.on = o /\ r.tries = calls[c].tries + 1
    <3>1. calls[c].tries + 1 \in Nat
      BY <2>1 DEF CallType
    <3> QED
      BY <2>1, <3>1 DEF CallType
  <2>3. new = [calls EXCEPT ![c] = r]
    BY <1>1, <2>1 DEF CallType
  <2> HIDE DEF r
  <2> QED
    BY <2>2, <2>3
<1>2. CASE stMemo # NoCall
  <2>1. stCalls' = [calls EXCEPT ![c].on = stMemo, ![c].tries = @ + 1] /\ stMemo' = stMemo
    BY <1>2 DEF JoinOrOpen
  <2>2. stMemo \in Nat
    BY DEF StTypeOK
  <2> QED
    BY <1>1, <1>2, <2>1, <2>2
<1>3. CASE stMemo = NoCall
  <2> DEFINE o == Len(calls) + 1
             new == [calls EXCEPT ![c].on = o, ![c].tries = @ + 1]
  <2>1. stCalls' = Append(new, NewCall("open", "opening", NoCall)) /\ stMemo' = o
    BY <1>3 DEF JoinOrOpen
  <2>2. /\ new \in Seq(CallType) /\ Len(new) = Len(calls)
        /\ \A i \in 1 .. Len(calls) : i # c => new[i] = calls[i]
        /\ new[c].kind = calls[c].kind /\ new[c].raced = calls[c].raced
        /\ new[c].at = calls[c].at
        /\ new[c].tries = calls[c].tries + 1 /\ new[c].on = o
    <3>1. o \in Nat
      OBVIOUS
    <3> HIDE DEF o
    <3> QED
      BY <1>1, <3>1
  <2> HIDE DEF new
  <2>3. NewCall("open", "opening", NoCall) \in CallType
    BY DEF NewCall, NoCall, CallType, Places, StTypeOK
  <2>4. /\ Len(stCalls') = Len(calls) + 1
        /\ \A i \in 1 .. Len(calls) : stCalls'[i] = new[i]
        /\ stCalls'[Len(calls) + 1] = NewCall("open", "opening", NoCall)
    BY <2>1, <2>2, <2>3, AppendProperties
  <2> QED
    BY <1>3, <2>1, <2>2, <2>4
<1> QED
  BY <1>2, <1>3

\* After a round the call waits for an open of this generation, unless it is its first
\* and the memo is older.
LEMMA JoinKeeps ==
  ASSUME StTypeOK, EnsureInv, NEW calls \in Seq(CallType), NEW c \in 1 .. Len(calls),
         Len(stCalls) <= Len(calls), \A i \in StIds : calls[i] = stCalls[i],
         \A i \in 1 .. Len(calls) : i = c \/ i \in StIds,
         calls[c].kind = "ensure", calls[c].at = "waiting",
         JoinOrOpen(c, calls), UNCHANGED <<stGen, stDb>>,
         c \notin StIds => calls[c].tries = 0,
         c \in StIds => /\ stCalls[stCalls[c].on].at = "done" /\ stDb = 0
                        /\ stCalls[c].tries < 2
  PROVE  EnsureInv'
<1>0. /\ Len(calls) <= Len(stCalls')
      /\ \A i \in 1 .. Len(calls) : i # c => stCalls'[i] = calls[i]
      /\ stCalls'[c].kind = calls[c].kind /\ stCalls'[c].raced = calls[c].raced
      /\ stCalls'[c].at = calls[c].at
      /\ stCalls'[c].tries = calls[c].tries + 1 /\ stCalls'[c].on = stMemo'
      /\ stMemo # NoCall => stMemo' = stMemo /\ Len(stCalls') = Len(calls)
      /\ stMemo = NoCall => /\ stMemo' = Len(calls) + 1 /\ Len(stCalls') = Len(calls) + 1
                            /\ stCalls'[stMemo'] = NewCall("open", "opening", NoCall)
  BY JoinFields
<1>1. /\ StIds \subseteq StIds' /\ c \in StIds' /\ 1 .. Len(calls) \subseteq StIds'
      /\ stMemo = NoCall => StIds' = 1 .. Len(calls) \cup {stMemo'}
  BY <1>0 DEF StIds
<1>2. ASSUME NEW o \in StIds, stCalls[o].kind = "open"
      PROVE  stCalls'[o] = stCalls[o] /\ (Fresh(o) => Fresh(o)')
  BY <1>0, <1>2 DEF StIds, Fresh
<1>3. stMemo' # NoCall /\ MemoOpen'
  BY <1>0, <1>1, <1>2 DEF EnsureInv, MemoOpen, NewCall, NoCall, StIds
<1>4. stMemo = NoCall => Fresh(stMemo)'
  BY <1>0 DEF Fresh, NewCall
<1>5. stMemo # NoCall => stMemo' = stMemo /\ (Fresh(stMemo) => Fresh(stMemo)')
  BY <1>0, <1>2 DEF EnsureInv, MemoOpen, Fresh
<1>6. ASSUME NEW d \in StIds, d # c, Ensuring(d)'  PROVE Joined(d)'
  <2>1. stCalls'[d] = stCalls[d]
    BY <1>0, <1>6 DEF StIds
  <2>2. Joined(d)
    BY <1>6, <2>1 DEF Ensuring, EnsureInv
  <2>3. PICK o \in StIds : o = stCalls[d].on
    BY <2>2 DEF Joined
  <2>4. stCalls'[d].on = o /\ o \in StIds' /\ stCalls'[o].kind = "open" /\ (Fresh(o) => Fresh(o)')
    BY <1>1, <1>2, <2>1, <2>2, <2>3 DEF Joined
  <2>5. CASE Fresh(o)
    BY <2>4, <2>5 DEF Joined, Fresh
  <2>6. CASE stCalls[d].tries = 1 /\ (stMemo \in {NoCall, o} \/ Fresh(stMemo))
    <3>1. stMemo' = o \/ Fresh(stMemo)'
      BY <1>4, <1>5, <2>6
    <3> QED
      BY <2>1, <2>4, <2>6, <3>1 DEF Joined, Fresh
  <2> QED
    BY <2>2, <2>3, <2>5, <2>6 DEF Joined
<1>7. Ensuring(c)' => Joined(c)'
  <2> SUFFICES ASSUME Ensuring(c)'  PROVE Joined(c)'
    OBVIOUS
  <2>1. stCalls'[c].on \in StIds' /\ stCalls'[stCalls'[c].on].kind = "open"
    BY <1>0, <1>3 DEF MemoOpen
  <2>2. CASE c \notin StIds
    BY <1>0, <2>1, <2>2 DEF Joined
  <2>3. CASE c \in StIds
    <3>1. Ensuring(c)
      BY <1>0, <2>3 DEF Ensuring
    <3>2. /\ Joined(c) /\ ~Fresh(stCalls[c].on)
      BY <2>3, <3>1 DEF EnsureInv, Fresh
    <3>3. stMemo = NoCall \/ Fresh(stMemo)
      BY <2>3, <3>2 DEF Joined, EnsureInv, MemoOpen
    <3>4. Fresh(stMemo)'
      BY <1>4, <1>5, <3>3
    <3> QED
      BY <1>0, <2>1, <3>4 DEF Joined, Fresh
  <2> QED
    BY <2>2, <2>3
<1>8. ASSUME NEW d \in StIds', Ensuring(d)'  PROVE Joined(d)'
  <2>1. d = c \/ d \in StIds \/ ~Ensuring(d)'
    BY <1>0, <1>1, <1>8 DEF StIds, Ensuring, NewCall
  <2> QED
    BY <1>6, <1>7, <1>8, <2>1
<1> QED
  BY <1>3, <1>8 DEF EnsureInv

\* A call that is raced stays raced.
LEMMA AppendRaced ==
  ASSUME StTypeOK, NEW raced, raced = Raced(stCalls), NEW kind \in {"reset"}, NEW at \in Places
  PROVE  LET new == Append(raced, NewCall(kind, at, NoCall))
         IN  /\ Len(new) = Len(stCalls) + 1 /\ \A i \in 1 .. Len(stCalls) : new[i] = raced[i]
             /\ new[Len(stCalls) + 1].kind = kind
<1>1. raced \in Seq(CallType) /\ Len(raced) = Len(stCalls)
  BY RacedFields DEF StTypeOK
<1>2. NewCall(kind, at, NoCall) \in CallType /\ NewCall(kind, at, NoCall).kind = kind
  BY DEF NewCall, NoCall, CallType, StTypeOK
<1> QED
  BY <1>1, <1>2, AppendProperties

\* Whoever closes the store or deletes its database races what waits.
LEMMA WhoRaces ==
  ASSUME StTypeOK, QueueOwned,
         \/ CallClose \/ CallReset \/ ServeDelete \/ OtherWindowUpgrades
         \/ \E c \in StIds : ResetGivesUp(c) /\ stCalls[c].at # "resetting"
  PROVE  Races
<1>0. /\ stCalls \in Seq(CallType) /\ Raced(stCalls) \in Seq(CallType)
      /\ Len(Raced(stCalls)) = Len(stCalls)
      /\ \A i \in StIds :
           /\ Raced(stCalls)[i].kind = stCalls[i].kind /\ Raced(stCalls)[i].at = stCalls[i].at
           /\ stCalls[i].kind = "ensure" /\ stCalls[i].at # "done" => Raced(stCalls)[i].raced
  BY RacedFields DEF StTypeOK, StIds
<1> DEFINE raced == Raced(stCalls)
<1> HIDE DEF raced
<1>1. CASE CallClose \/ OtherWindowUpgrades
  <2>1. stCalls' = raced /\ stMemo' = stMemo
    BY <1>1 DEF CallClose, OtherWindowUpgrades, raced
  <2> QED
    BY <1>0, <2>1 DEF Races, StIds, Ensuring, raced
<1>2. CASE CallReset
  <2>1. stCalls' = Append(raced, NewCall("reset", "dropping", NoCall)) /\ stMemo' = stMemo
    BY <1>2 DEF CallReset, raced
  <2>2. /\ Len(stCalls') = Len(stCalls) + 1 /\ \A i \in 1 .. Len(stCalls) : stCalls'[i] = raced[i]
        /\ stCalls'[Len(stCalls) + 1].kind = "reset"
    BY <2>1, AppendRaced DEF raced, Places
  <2> QED
    BY <1>0, <2>1, <2>2 DEF Races, StIds, Ensuring, raced
<1>3. ASSUME NEW c \in StIds, NEW at, stCalls' = [raced EXCEPT ![c].at = at], stMemo' = stMemo,
             stCalls[c].kind \in {"open", "reset"}, stCalls[c].kind = "open" => at = "reopening"
      PROVE  Races
  <2>1. /\ Len(stCalls') = Len(stCalls)
        /\ \A i \in StIds :
             /\ stCalls'[i].kind = raced[i].kind /\ stCalls'[i].raced = raced[i].raced
             /\ stCalls'[i].at = IF i = c THEN at ELSE raced[i].at
    BY <1>0, <1>3, SettledFields DEF StIds, raced
  <2> QED
    BY <1>0, <1>3, <2>1 DEF Races, StIds, Ensuring, raced
<1>4. CASE ServeDelete
  <2>1. CASE Head(stQueue).call = NoCall
    <3>1. stCalls' = raced /\ stMemo' = stMemo
      BY <1>4, <2>1 DEF ServeDelete, raced
    <3> QED
      BY <1>0, <3>1 DEF Races, StIds, Ensuring, raced
  <2>2. CASE Head(stQueue).call # NoCall
    <3> DEFINE c == Head(stQueue).call
    <3>1. c \in StIds /\ stCalls[c].kind \in {"open", "reset"} /\ stMemo' = stMemo
      BY <1>4, <2>2, HeadOwned DEF StIds, ServeDelete
    <3>2. stCalls' = [raced EXCEPT ![c].at =
                        IF stCalls[c].kind = "open" THEN "reopening" ELSE "resetting"]
      BY <1>4, <2>2 DEF ServeDelete, raced
    <3> HIDE DEF c
    <3> QED
      BY <1>3, <3>1, <3>2
  <2> QED
    BY <2>1, <2>2
<1>5. ASSUME NEW c \in StIds, ResetGivesUp(c), stCalls[c].at # "resetting"
      PROVE  Races
  <2>1. /\ stCalls' = [raced EXCEPT ![c].at =
                         IF stCalls[c].at = "dropping" THEN "clearing" ELSE "done"]
        /\ stMemo' = stMemo /\ stCalls[c].kind = "reset"
    BY <1>5 DEF ResetGivesUp, raced
  <2> QED
    BY <1>3, <2>1
<1> QED
  BY <1>1, <1>2, <1>4, <1>5

\* An open or a reset that is answered or gives up.
LEMMA WhoMoves ==
  ASSUME StTypeOK, QueueOwned, NEW c \in StIds, NEW at,
         stCalls[c].kind \in {"open", "reset"}, Settle(c, at), at # "waiting",
         stGen' = stGen, stDb' = stDb \/ stDb' # 0,
         at = "done" /\ stCalls[c].kind = "open" /\ stCalls[c].gen = stGen => stDb' # 0,
         \/ ClearMemo(c)
         \/ stMemo' = stMemo /\ (stCalls[c].kind = "open" => at \notin {"done", "failed"})
  PROVE  Moves(c)
<1>1. /\ Len(stCalls') = Len(stCalls)
      /\ \A i \in StIds :
           /\ stCalls'[i].kind = stCalls[i].kind /\ stCalls'[i].gen = stCalls[i].gen
           /\ stCalls'[i].on = stCalls[i].on /\ stCalls'[i].tries = stCalls[i].tries
           /\ stCalls'[i].raced = stCalls[i].raced
           /\ stCalls'[i].at = IF i = c THEN at ELSE stCalls[i].at
  BY SettledFields DEF Settle, StTypeOK, StIds
<1>2. c \in Nat \ {0} /\ stCalls'[c].at = at
  BY <1>1 DEF StIds, StTypeOK
<1>3. /\ stMemo' \in {stMemo, NoCall}
      /\ stCalls[c].kind = "open" /\ at \in {"done", "failed"} => stMemo' # c
  BY <1>2 DEF ClearMemo, NoCall
<1>4. stDb # 0 => stDb' # 0
  OBVIOUS
<1> QED
  BY <1>1, <1>2, <1>3, <1>4 DEF Moves

LEMMA AnswerMoves ==
  ASSUME StTypeOK, QueueOwned, ServeOpen, Head(stQueue).call # NoCall
  PROVE  \E c \in StIds : Moves(c)
<1> DEFINE c == Head(stQueue).call
           h == Len(stHandles) + 1
           rest == Tail(stQueue)
<1>1. c \in StIds /\ stCalls[c].kind \in {"open", "reset"}
  BY HeadOwned DEF StIds, ServeOpen
<1>2. stGen' = stGen /\ h # 0
  BY DEF ServeOpen, StTypeOK
<1>3. CASE stCalls[c].kind = "open"
  <2>1. OpenAnswered(c, h, rest)
    BY <1>3 DEF ServeOpen
  <2> HIDE DEF c, h, rest
  <2>2. CASE StaleOpen(c)
    <3>1. Settle(c, "done") /\ ClearMemo(c) /\ stDb' = stDb /\ stCalls[c].gen # stGen
      BY <2>1, <2>2 DEF OpenAnswered, StaleOpen
    <3> QED
      BY <1>1, <1>2, <3>1, WhoMoves
  <2>3. CASE ~StaleOpen(c) /\ ~stDisk.schema
    <3>1. /\ \/ Settle(c, "deleting") /\ UNCHANGED stMemo
             \/ Settle(c, "failed") /\ ClearMemo(c)
          /\ stDb' = stDb
      BY <2>1, <2>3 DEF OpenAnswered
    <3> QED
      BY <1>1, <1>2, <3>1, WhoMoves
  <2>4. CASE ~StaleOpen(c) /\ stDisk.schema
    <3>1. Settle(c, "done") /\ ClearMemo(c) /\ stDb' = h
      BY <2>1, <2>4 DEF OpenAnswered
    <3> QED
      BY <1>1, <1>2, <3>1, WhoMoves
  <2> QED
    BY <2>2, <2>3, <2>4
<1>4. CASE stCalls[c].kind # "open"
  <2>1. ResetAnswered(c, h, rest)
    BY <1>4 DEF ServeOpen
  <2> HIDE DEF c, h, rest
  <2>2. Settle(c, "done") /\ stMemo' = stMemo /\ stDb' = h
    BY <2>1 DEF ResetAnswered
  <2> QED
    BY <1>1, <1>2, <1>4, <2>2, WhoMoves
<1> QED
  BY <1>3, <1>4

\* A call that is added or that ends, with everything else as it was.
LEMMA QuietKeeps ==
  ASSUME StTypeOK, EnsureInv, UNCHANGED <<stGen, stDb, stMemo>>,
         Len(stCalls) <= Len(stCalls'),
         \A i \in StIds : \/ stCalls'[i] = stCalls[i]
                          \/ stCalls[i].kind = "ensure" /\ stCalls'[i].at # "waiting",
         \A i \in StIds' : i \in StIds \/ stCalls'[i].kind = "open"
  PROVE  EnsureInv'
<1>1. StIds \subseteq StIds'
  BY DEF StIds, StTypeOK
<1>2. ASSUME NEW o \in StIds, stCalls[o].kind = "open"
      PROVE  stCalls'[o] = stCalls[o] /\ (Fresh(o) => Fresh(o)')
  BY <1>2 DEF Fresh
<1>3. MemoOpen'
  BY <1>1, <1>2 DEF EnsureInv, MemoOpen
<1>4. ASSUME NEW d \in StIds', Ensuring(d)'  PROVE Joined(d)'
  <2>1. d \in StIds /\ stCalls'[d] = stCalls[d]
    BY <1>4 DEF Ensuring
  <2>2. Joined(d)
    BY <1>4, <2>1 DEF Ensuring, EnsureInv
  <2>3. PICK o \in StIds : o = stCalls[d].on
    BY <2>2 DEF Joined
  <2>4. stCalls'[d].on = o /\ o \in StIds' /\ stCalls'[o].kind = "open" /\ (Fresh(o) => Fresh(o)')
    BY <1>1, <1>2, <2>1, <2>2, <2>3 DEF Joined
  <2>5. CASE Fresh(o)
    BY <2>4, <2>5 DEF Joined, Fresh
  <2>6. CASE stCalls[d].tries = 1 /\ (stMemo \in {NoCall, o} \/ Fresh(stMemo))
    <3>1. stMemo' \in {NoCall, o} \/ Fresh(stMemo)'
      <4>1. CASE stMemo = NoCall
        BY <4>1
      <4>2. CASE stMemo # NoCall
        BY <1>2, <2>6, <4>2 DEF EnsureInv, MemoOpen, Fresh
      <4> QED
        BY <4>1, <4>2
    <3> QED
      BY <2>1, <2>4, <2>6, <3>1 DEF Joined, Fresh
  <2> QED
    BY <2>2, <2>3, <2>5, <2>6 DEF Joined
<1> QED
  BY <1>3, <1>4 DEF EnsureInv

\* What waits in ensureOpen, whatever happens around it.
LEMMA EnsureStep ==
  ASSUME StTypeOK, QueueOwned, EnsureInv, [StNext]_stVars
  PROVE  EnsureInv'
<1>0. stCalls \in Seq(CallType)
  BY DEF StTypeOK
<1>1. CASE \/ CallClose \/ CallReset \/ ServeDelete \/ OtherWindowUpgrades
           \/ \E c \in StIds : ResetGivesUp(c) /\ stCalls[c].at # "resetting"
  BY <1>1, WhoRaces, RacesKeep
<1>2. CASE ServeOpen /\ Head(stQueue).call # NoCall
  BY <1>2, AnswerMoves, MovesKeep
<1>3. ASSUME NEW c \in StIds, OpenGivesUp(c) \/ (ResetGivesUp(c) /\ stCalls[c].at = "resetting")
      PROVE  EnsureInv'
  <2>1. /\ UNCHANGED <<stGen, stDb>> /\ stCalls[c].kind \in {"open", "reset"}
        /\ \/ stCalls[c].kind = "open" /\ Settle(c, "failed") /\ ClearMemo(c)
           \/ stCalls[c].kind = "reset" /\ Settle(c, "done") /\ UNCHANGED stMemo
    BY <1>3 DEF OpenGivesUp, ResetGivesUp
  <2>2. Moves(c)
    BY <2>1, WhoMoves
  <2> QED
    BY <2>2, MovesKeep
<1>4. CASE \/ ServeOpen /\ Head(stQueue).call = NoCall
           \/ OtherWindowCloses \/ UNCHANGED stVars
  <2>1. UNCHANGED <<stGen, stDb, stMemo, stCalls>>
    BY <1>4 DEF ServeOpen, OtherWindowCloses, stVars
  <2> QED
    BY <2>1, QuietKeeps DEF StIds, StTypeOK
<1>5. CASE CallOpen
  <2>1. /\ UNCHANGED <<stGen, stDb, stMemo>>
        /\ stCalls' = Append(stCalls, NewCall("open", "opening", NoCall))
    BY <1>5 DEF CallOpen
  <2>2. /\ Len(stCalls') = Len(stCalls) + 1
        /\ \A i \in 1 .. Len(stCalls) : stCalls'[i] = stCalls[i]
        /\ stCalls'[Len(stCalls) + 1].kind = "open"
    <3>1. NewCall("open", "opening", NoCall) \in CallType
      BY DEF NewCall, NoCall, CallType, Places, StTypeOK
    <3> QED
      BY <1>0, <2>1, <3>1, AppendProperties DEF NewCall
  <2> QED
    BY <1>0, <2>1, <2>2, QuietKeeps DEF StIds
<1>6. CASE CallEnsure
  <2> DEFINE calls == Append(stCalls, NewCall("ensure", "waiting", NoCall))
             c == Len(stCalls) + 1
  <2>1. JoinOrOpen(c, calls) /\ UNCHANGED <<stGen, stDb>>
    BY <1>6 DEF CallEnsure
  <2>2. /\ calls \in Seq(CallType) /\ Len(calls) = c
        /\ \A i \in 1 .. Len(stCalls) : calls[i] = stCalls[i]
        /\ calls[c] = NewCall("ensure", "waiting", NoCall)
    <3>1. NewCall("ensure", "waiting", NoCall) \in CallType
      BY DEF NewCall, NoCall, CallType, Places, StTypeOK
    <3> QED
      BY <1>0, <3>1, AppendProperties
  <2>3. /\ c \in 1 .. Len(calls) /\ Len(stCalls) <= Len(calls) /\ c \notin StIds
        /\ \A i \in 1 .. Len(calls) : i = c \/ i \in StIds
        /\ \A i \in StIds : calls[i] = stCalls[i]
    BY <1>0, <2>2 DEF StIds
  <2>4. calls[c].kind = "ensure" /\ calls[c].at = "waiting" /\ calls[c].tries = 0
    BY <2>2 DEF NewCall
  <2> HIDE DEF calls, c
  <2> QED
    BY <2>1, <2>2, <2>3, <2>4, JoinKeeps
<1>7. ASSUME NEW c \in StIds, EnsureWakes(c)  PROVE EnsureInv'
  <2>1. stCalls[c].kind = "ensure" /\ stCalls[c].at = "waiting" /\ UNCHANGED <<stGen, stDb>>
    BY <1>7 DEF EnsureWakes
  <2>2. CASE /\ stCalls[stCalls[c].on].at = "done" /\ stDb = 0 /\ SecondTry(c)
             /\ JoinOrOpen(c, stCalls)
    <3>1. c \in 1 .. Len(stCalls) /\ Len(stCalls) <= Len(stCalls)
      BY <1>0 DEF StIds
    <3> QED
      BY <1>0, <2>1, <2>2, <3>1, JoinKeeps DEF StIds, SecondTry
  <2>3. CASE /\ stCalls' = [stCalls EXCEPT ![c].at = stCalls[stCalls[c].on].at]
             /\ UNCHANGED stMemo
    <3>1. /\ Len(stCalls') = Len(stCalls) /\ stCalls'[c].at # "waiting"
          /\ \A i \in StIds : i # c => stCalls'[i] = stCalls[i]
      <4>1. stCalls[stCalls[c].on].at \in {"done", "failed"}
        BY <1>7 DEF EnsureWakes
      <4>2. stCalls'[c].at = stCalls[stCalls[c].on].at
        BY <1>0, <2>3, SettledFields DEF StIds
      <4> QED
        BY <1>0, <2>3, <4>1, <4>2 DEF StIds
    <3> QED
      BY <2>1, <2>3, <3>1, QuietKeeps DEF StIds, StTypeOK
  <2> QED
    BY <1>7, <2>2, <2>3 DEF EnsureWakes
<1>8. ASSUME NEW c \in StIds, ResetGivesUp(c)  PROVE EnsureInv'
  BY <1>1, <1>3, <1>8
<1>9. CASE ServeOpen
  BY <1>2, <1>4, <1>9
<1> QED
  BY <1>1, <1>3, <1>4, <1>5, <1>6, <1>7, <1>8, <1>9 DEF StNext

\* A call ends with its open, and with this.db in place or its second try behind it.
LEMMA EnsureEnds ==
  ASSUME StTypeOK, QueueOwned, [StNext]_stVars, NEW c \in StIds,
         stCalls[c].kind = "ensure", stCalls[c].at = "waiting", stCalls'[c].at = "done"
  PROVE  stCalls[stCalls[c].on].at = "done" /\ (stDb # 0 \/ ~SecondTry(c))
<1>0. stCalls \in Seq(CallType) /\ c \in 1 .. Len(stCalls)
  BY DEF StTypeOK, StIds
<1>1. ~Races /\ stCalls' # stCalls
  BY DEF Races
<1>2. ASSUME NEW d \in StIds, Moves(d)  PROVE FALSE
  BY <1>2 DEF Moves
<1>3. ~CallOpen
  <2> SUFFICES ASSUME CallOpen  PROVE FALSE
    OBVIOUS
  <2>1. NewCall("open", "opening", NoCall) \in CallType
    BY DEF NewCall, NoCall, CallType, Places, StTypeOK
  <2>2. stCalls'[c] = stCalls[c]
    BY <1>0, <2>1, AppendProperties DEF CallOpen
  <2> QED
    BY <2>2
<1>4. ~CallEnsure
  <2> SUFFICES ASSUME CallEnsure  PROVE FALSE
    OBVIOUS
  <2> DEFINE calls == Append(stCalls, NewCall("ensure", "waiting", NoCall))
             d == Len(stCalls) + 1
  <2>1. JoinOrOpen(d, calls)
    BY DEF CallEnsure
  <2>2. /\ calls \in Seq(CallType) /\ d \in 1 .. Len(calls) /\ c # d /\ c \in 1 .. Len(calls)
        /\ calls[c] = stCalls[c]
    <3>1. NewCall("ensure", "waiting", NoCall) \in CallType
      BY DEF NewCall, NoCall, CallType, Places, StTypeOK
    <3> QED
      BY <1>0, <3>1, AppendProperties
  <2> HIDE DEF calls, d
  <2>3. stCalls'[c] = calls[c]
    BY <2>1, <2>2, JoinFields
  <2> QED
    BY <2>2, <2>3
<1>5. ASSUME NEW d \in StIds, OpenGivesUp(d) \/ ResetGivesUp(d)  PROVE FALSE
  <2>1. CASE ResetGivesUp(d) /\ stCalls[d].at # "resetting"
    BY <1>1, <2>1, WhoRaces
  <2>2. CASE OpenGivesUp(d) \/ (ResetGivesUp(d) /\ stCalls[d].at = "resetting")
    <3>1. /\ UNCHANGED <<stGen, stDb>> /\ stCalls[d].kind \in {"open", "reset"}
          /\ \/ stCalls[d].kind = "open" /\ Settle(d, "failed") /\ ClearMemo(d)
             \/ stCalls[d].kind = "reset" /\ Settle(d, "done") /\ UNCHANGED stMemo
      BY <2>2 DEF OpenGivesUp, ResetGivesUp
    <3>2. Moves(d)
      BY <3>1, WhoMoves
    <3> QED
      BY <1>2, <3>2
  <2> QED
    BY <1>5, <2>1, <2>2
<1>6. ~ServeOpen
  <2>1. CASE ServeOpen /\ Head(stQueue).call = NoCall
    BY <1>1, <2>1 DEF ServeOpen
  <2> QED
    BY <1>2, <2>1, AnswerMoves
<1>7. PICK d \in StIds : EnsureWakes(d)
  BY <1>1, <1>3, <1>4, <1>5, <1>6, WhoRaces DEF StNext, stVars, OtherWindowCloses
<1>8. d \in 1 .. Len(stCalls)
  BY <1>7 DEF StIds
<1>9. ~JoinOrOpen(d, stCalls)
  <2> SUFFICES ASSUME JoinOrOpen(d, stCalls)  PROVE FALSE
    OBVIOUS
  <2>1. stCalls'[c] = stCalls[c] \/ stCalls'[c].at = stCalls[c].at
    BY <1>0, <1>8, JoinFields
  <2> QED
    BY <2>1
<1>10. stCalls' = [stCalls EXCEPT ![d].at = stCalls[stCalls[d].on].at]
  BY <1>7, <1>9 DEF EnsureWakes
<1>11. d = c /\ stCalls[stCalls[d].on].at = "done"
  BY <1>0, <1>8, <1>10, SettledFields
<1> QED
  BY <1>7, <1>9, <1>11 DEF EnsureWakes

\* ensureOpen gives a connection (index-store.ts:787): a call that ends without an error,
\* and during which nobody closed the store or deleted its database, leaves one behind, for
\* any number of overlapping opens, closes, resets and late answers.
THEOREM EnsureGivesStore == StSpec => StEnsureHolds
<1>1. StInit => EnsureInv
  BY EmptySeq DEF StInit, EnsureInv, MemoOpen, StIds, NoCall
<1>2. StInv /\ EnsureInv /\ [StNext]_stVars => EnsureInv'
  BY EnsureStep DEF StInv
<1>3. ASSUME StInv, EnsureInv, [StNext]_stVars, NEW c \in StIds,
             stCalls[c].kind = "ensure", stCalls[c].at = "waiting", stCalls'[c].at = "done",
             ~stCalls[c].raced
      PROVE  stDb # 0
  <2>1. Joined(c)
    BY <1>3 DEF EnsureInv, Ensuring
  <2>2. stCalls[stCalls[c].on].at = "done" /\ (stDb # 0 \/ ~SecondTry(c))
    BY <1>3, EnsureEnds DEF StInv
  <2> QED
    BY <2>1, <2>2 DEF Joined, Fresh, SecondTry
<1>4. StInv /\ EnsureInv /\ [StNext]_stVars
      => [\A c \in StIds :
            (stCalls[c].kind = "ensure" /\ stCalls[c].at = "waiting" /\ stCalls'[c].at = "done"
               /\ ~stCalls[c].raced) => stDb # 0]_stVars
  BY <1>3
<1> QED
  BY <1>1, <1>2, <1>4, StoreInvariant, PTL DEF StSpec, StEnsureHolds

-----------------------------------------------------------------------------
(***************************************************************************)
(* The drift recovery (DriftRecovery)                                      *)
(***************************************************************************)
LEMMA InitTyped == DrInit => DrTypeOK
  <1> SUFFICES ASSUME DrInit PROVE DrTypeOK
    OBVIOUS
  <1>1. 0 \in 0..MaxGen /\ 0 \in 0..MaxSession /\ 0 \in 0..MaxPasses /\ 0 \in 0..session
    BY DriftConstants DEF DrInit
  <1>2. gens \in [0..MaxSession -> 0..MaxGen]
    BY <1>1 DEF DrInit
  <1>3. session \in 0..MaxSession /\ orch \in 0..session /\ started \in 0..MaxPasses
    BY <1>1 DEF DrInit
  <1>4. passes \subseteq Pass /\ escalated \in Nat
    BY DEF DrInit
  <1> QED
    BY <1>2, <1>3, <1>4 DEF DrInit, DrTypeOK

LEMMA RunTyped ==
  ASSUME DrTypeOK, UNCHANGED <<session, orch>>, NEW due, NEW isHidden, NEW isBlocked,
         runDriftRecovery(due, isHidden, isBlocked)
  PROVE  /\ running' \in BOOLEAN /\ health' \in {"healthy", "recovering", "degraded"}
         /\ started' \in 0..MaxPasses /\ passes' \subseteq Pass
  <1>1. CASE due /\ ~running /\ ~isHidden /\ ~isBlocked
    <2>1. started \in Nat /\ started + 1 \in 1..MaxPasses /\ started' = started + 1
      BY <1>1, DriftConstants DEF DrTypeOK, runDriftRecovery
    <2>2. [id |-> started + 1, orch |-> orch, session |-> session,
           pc |-> "hydrate", verified |-> Never] \in Pass
      <3>1. orch \in 0..MaxSession /\ session \in 0..MaxSession
        BY DriftConstants DEF DrTypeOK
      <3> QED
        BY <2>1, <3>1 DEF Pass
    <2> QED
      BY <1>1, <2>1, <2>2 DEF DrTypeOK, runDriftRecovery
  <1>2. CASE ~(due /\ ~running /\ ~isHidden /\ ~isBlocked)
    BY <1>2 DEF DrTypeOK, runDriftRecovery
  <1> QED
    BY <1>1, <1>2

LEMMA BumpTyped ==
  ASSUME DrTypeOK, NEW o \in 0..MaxSession, gens[o] < MaxGen
  PROVE  Bumped(o) \in [0..MaxSession -> 0..MaxGen] /\ gens[o] + 1 \in 0..MaxGen
  <1>1. gens[o] + 1 \in 0..MaxGen
    BY DriftConstants DEF DrTypeOK
  <1> QED
    BY <1>1 DEF DrTypeOK, Bumped

LEMMA PassStepTyped ==
  ASSUME DrTypeOK, NEW p \in passes,
         \/ PassHydrated(p) \/ PassWarmed(p) \/ PassThrows(p)
         \/ \E ok \in BOOLEAN : PassVerified(p, ok)
  PROVE  DrTypeOK'
  <1>1. p \in Pass /\ p.orch \in 0..MaxSession /\ gens[p.orch] \in 0..MaxGen
    BY DEF DrTypeOK, Pass
  <1>2. CASE PassHydrated(p)
    <2>1. [p EXCEPT !.pc = "warm"] \in Pass
      BY <1>1 DEF Pass
    <2>2. passes' \subseteq Pass
      BY <1>2, <2>1 DEF PassHydrated, Becomes, DrTypeOK
    <2>3. gens' \in [0..MaxSession -> 0..MaxGen] /\ escalated' \in Nat
      BY <1>1, <1>2, BumpTyped DEF PassHydrated, DrTypeOK
    <2> QED
      BY <1>2, <2>2, <2>3 DEF PassHydrated, DrTypeOK, coordinator
  <1>3. CASE PassWarmed(p)
    <2>1. [p EXCEPT !.pc = "verify", !.verified = gens[p.orch]] \in Pass
      BY <1>1 DEF Pass
    <2>2. passes' \subseteq Pass
      BY <1>3, <2>1 DEF PassWarmed, Becomes, DrTypeOK
    <2> QED
      BY <1>3, <2>2 DEF PassWarmed, DrTypeOK, coordinator
  <1>4. ASSUME NEW commits \in BOOLEAN, NEW verdict \in {"healthy", "degraded"},
               NEW g \in {Never} \cup 0..MaxGen, Finish(p, commits, verdict, g)
        PROVE  DrTypeOK'
    <2>1. passes' \subseteq Pass /\ health' \in {"healthy", "recovering", "degraded"}
      BY <1>4 DEF Finish, DrTypeOK
    <2>2. /\ running' \in BOOLEAN /\ pending' \in BOOLEAN
          /\ lastRecoveryGen' \in {Never} \cup 0..MaxGen
      <3>1. CASE p.orch = orch
        BY <1>4, <3>1 DEF Finish, DrTypeOK
      <3>2. CASE p.orch # orch
        BY <1>4, <3>2 DEF Finish, DrTypeOK, coordinator
      <3> QED
        BY <3>1, <3>2
    <2> QED
      BY <1>4, <2>1, <2>2 DEF Finish, DrTypeOK
  <1>5. CASE PassThrows(p)
    BY <1>1, <1>4, <1>5 DEF PassThrows
  <1>6. ASSUME NEW ok \in BOOLEAN, PassVerified(p, ok)
        PROVE  DrTypeOK'
    <2>1. p.verified \in {Never} \cup 0..MaxGen
      BY <1>1 DEF Pass
    <2>2. (gens[p.orch] = p.verified) \in BOOLEAN
      OBVIOUS
    <2>3. (IF ok THEN "healthy" ELSE "degraded") \in {"healthy", "degraded"}
      OBVIOUS
    <2> QED
      BY <1>4, <1>6, <2>1, <2>2, <2>3 DEF PassVerified
  <1> QED
    BY <1>2, <1>3, <1>5, <1>6

LEMMA NextTyped ==
  ASSUME DrTypeOK, [DrNext]_drVars
  PROVE  DrTypeOK'
  <1>0. orch \in 0..MaxSession /\ \A o \in 0..orch : o \in 0..MaxSession
    BY DriftConstants DEF DrTypeOK
  <1>1. CASE Drift
    <2>1. gens' \in [0..MaxSession -> 0..MaxGen] /\ gens[orch] + 1 \in 0..MaxGen
      BY <1>0, <1>1, BumpTyped DEF Drift
    <2>2. /\ running' \in BOOLEAN /\ health' \in {"healthy", "recovering", "degraded"}
          /\ started' \in 0..MaxPasses /\ passes' \subseteq Pass
      <3>1. UNCHANGED <<session, orch>>
        BY <1>1 DEF Drift
      <3>2. \/ runDriftRecovery(TRUE, hidden, blocked)
            \/ UNCHANGED <<running, health, started, passes>>
        BY <1>1 DEF Drift, onPersistentDrift, coordinator
      <3>3. CASE UNCHANGED <<running, health, started, passes>>
        BY <3>3 DEF DrTypeOK
      <3> QED
        BY <3>1, <3>2, <3>3, RunTyped
    <2>3. /\ pending' \in BOOLEAN /\ lastRecoveryGen' \in {Never} \cup 0..MaxGen
          /\ escalated' \in Nat
      <3>1. CASE cooling /\ ~running /\ lastRecoveryGen # gens[orch] + 1
        <4>1. /\ pending' = TRUE /\ lastRecoveryGen' = gens[orch] + 1
              /\ escalated' = escalated + 1
          BY <1>1, <3>1 DEF Drift, onPersistentDrift
        <4> QED
          BY <2>1, <4>1 DEF DrTypeOK
      <3>2. CASE ~(cooling /\ ~running /\ lastRecoveryGen # gens[orch] + 1)
        <4>1. UNCHANGED <<pending, lastRecoveryGen, escalated>>
          BY <1>1, <3>2 DEF Drift, onPersistentDrift, coordinator
        <4> QED
          BY <4>1 DEF DrTypeOK
      <3> QED
        BY <3>1, <3>2
    <2> QED
      BY <1>1, <2>1, <2>2, <2>3 DEF Drift, DrTypeOK
  <1>2. CASE SearchSettles
    BY <1>2, RunTyped DEF SearchSettles, DrTypeOK
  <1>3. CASE WindowShows
    BY <1>3, RunTyped DEF WindowShows, DrTypeOK
  <1>4. CASE PassStep
    BY <1>4, PassStepTyped DEF PassStep
  <1>5. CASE Abort
    <2>1. session' \in 0..MaxSession
      BY <1>5, DriftConstants DEF Abort, DrTypeOK
    <2>2. orch' \in 0..session'
      BY <1>5, DriftConstants DEF Abort, DrTypeOK
    <2> QED
      BY <1>5, <2>1, <2>2 DEF Abort, DrTypeOK
  <1>6. CASE \E o \in 0..orch : Mutation(o)
    BY <1>0, <1>6, BumpTyped DEF Mutation, DrTypeOK, coordinator
  <1>7. CASE \/ CooldownOver \/ SearchBegins \/ SearchExpires \/ WindowHides
             \/ UNCHANGED drVars
    BY <1>7 DEF CooldownOver, SearchBegins, SearchExpires, WindowHides, drVars, DrTypeOK,
       coordinator
  <1> QED
    BY <1>1, <1>2, <1>3, <1>4, <1>5, <1>6, <1>7 DEF DrNext

(* Every variable keeps its type. *)
THEOREM DriftTypesHold == DrSpec => []DrTypeOK
  <1>1. DrTypeOK /\ [DrNext]_drVars => DrTypeOK'
    BY NextTyped
  <1> QED
    BY <1>1, InitTyped, PTL DEF DrSpec

-----------------------------------------------------------------------------
(* Before the first abort: one session, one coordinator, and a flag that   *)
(* says whether it has a pass.  FlightInv is the inductive invariant.      *)
Flight ==
    /\ orch = 0
    /\ \A p \in passes : p.session = 0 /\ p.orch = 0
    /\ running <=> passes # {}
    /\ \A p, q \in passes : p = q

FlightInv == session = 0 => Flight

LEMMA InitFlight == DrInit => FlightInv
  BY DEF DrInit, FlightInv, Flight

(* runDriftRecovery starts a pass only when none is in flight. *)
LEMMA RunKeeps ==
  ASSUME session = 0, Flight, UNCHANGED <<session, orch>>,
         NEW due, NEW isHidden, NEW isBlocked,
         runDriftRecovery(due, isHidden, isBlocked)
  PROVE  Flight'
  <1>1. CASE due /\ ~running /\ ~isHidden /\ ~isBlocked
    <2>1. running' = TRUE /\ passes = {}
      BY <1>1 DEF runDriftRecovery, Flight
    <2>2. passes' = {[id |-> started + 1, orch |-> 0, session |-> 0,
                      pc |-> "hydrate", verified |-> Never]}
      BY <1>1, <2>1 DEF runDriftRecovery, Flight
    <2> QED
      BY <2>1, <2>2 DEF Flight
  <1>2. CASE ~(due /\ ~running /\ ~isHidden /\ ~isBlocked)
    BY <1>2 DEF runDriftRecovery, Flight
  <1> QED
    BY <1>1, <1>2

(* The pass in flight moves on. *)
LEMMA BecomesKeeps ==
  ASSUME Flight, UNCHANGED <<orch, running>>,
         NEW p \in passes, NEW q, q.session = p.session, q.orch = p.orch, Becomes(p, q)
  PROVE  Flight'
  <1>1. passes = {p} /\ passes' = {q}
    BY DEF Flight, Becomes
  <1> QED
    BY <1>1 DEF Flight

(* The pass in flight ends. *)
LEMMA FinishKeeps ==
  ASSUME Flight, NEW p \in passes, NEW commits, NEW verdict, NEW g,
         Finish(p, commits, verdict, g)
  PROVE  Flight'
  <1>1. passes' = {} /\ running' = FALSE /\ UNCHANGED orch
    BY DEF Finish, Flight
  <1> QED
    BY <1>1 DEF Flight

LEMMA PassStepKeeps ==
  ASSUME DrTypeOK, Flight, PassStep
  PROVE  Flight'
  <1>1. PICK p \in passes : \/ PassHydrated(p) \/ PassWarmed(p) \/ PassThrows(p)
                            \/ \E ok \in BOOLEAN : PassVerified(p, ok)
    BY DEF PassStep
  <1>2. CASE PassThrows(p) \/ \E ok \in BOOLEAN : PassVerified(p, ok)
    BY <1>2, FinishKeeps DEF PassThrows, PassVerified
  <1>3. CASE PassHydrated(p)
    <2> DEFINE q == [p EXCEPT !.pc = "warm"]
    <2>1. q.session = p.session /\ q.orch = p.orch
      BY DEF DrTypeOK, Pass
    <2>2. Becomes(p, q) /\ UNCHANGED <<orch, running>>
      BY <1>3 DEF PassHydrated, coordinator
    <2> QED
      BY <2>1, <2>2, BecomesKeeps
  <1>4. CASE PassWarmed(p)
    <2> DEFINE q == [p EXCEPT !.pc = "verify", !.verified = gens[p.orch]]
    <2>1. q.session = p.session /\ q.orch = p.orch
      BY DEF DrTypeOK, Pass
    <2>2. Becomes(p, q) /\ UNCHANGED <<orch, running>>
      BY <1>4 DEF PassWarmed, coordinator
    <2> QED
      BY <2>1, <2>2, BecomesKeeps
  <1> QED
    BY <1>1, <1>2, <1>3, <1>4

LEMMA NextFlight ==
  ASSUME DrTypeOK, FlightInv, [DrNext]_drVars
  PROVE  FlightInv'
  <1>1. CASE Abort
    <2>1. session' # 0
      BY <1>1 DEF Abort, DrTypeOK
    <2> QED
      BY <2>1 DEF FlightInv
  <1>2. ASSUME ~Abort, session' = 0
        PROVE  Flight'
    <2>1. UNCHANGED session
      BY <1>2 DEF DrNext, Drift, CooldownOver, Mutation, SearchBegins, SearchSettles,
         SearchExpires, WindowHides, WindowShows, PassStep, PassHydrated, PassWarmed,
         PassThrows, PassVerified, Finish, drVars
    <2>2. session = 0 /\ Flight
      BY <1>2, <2>1 DEF FlightInv
    <2>3. CASE Drift
      <3>1. UNCHANGED orch
        BY <2>3 DEF Drift
      <3>2. \/ runDriftRecovery(TRUE, hidden, blocked)
            \/ UNCHANGED <<running, passes>>
        BY <2>3 DEF Drift, onPersistentDrift, coordinator
      <3>3. CASE UNCHANGED <<running, passes>>
        BY <2>2, <3>1, <3>3 DEF Flight
      <3> QED
        BY <2>1, <2>2, <3>1, <3>2, <3>3, RunKeeps
    <2>4. CASE SearchSettles
      BY <2>2, <2>4, RunKeeps DEF SearchSettles
    <2>5. CASE WindowShows
      BY <2>2, <2>5, RunKeeps DEF WindowShows
    <2>6. CASE PassStep
      BY <2>2, <2>6, PassStepKeeps
    <2>7. CASE \/ CooldownOver \/ SearchBegins \/ SearchExpires \/ WindowHides
               \/ \E o \in 0..orch : Mutation(o)
               \/ UNCHANGED drVars
      BY <2>2, <2>7 DEF CooldownOver, SearchBegins, SearchExpires, WindowHides, Mutation,
         drVars, coordinator, Flight
    <2> QED
      BY <1>2, <2>3, <2>4, <2>5, <2>6, <2>7 DEF DrNext
  <1> QED
    BY <1>1, <1>2 DEF FlightInv

LEMMA FlightInvariant == DrSpec => []FlightInv
  <1>1. DrTypeOK /\ FlightInv /\ [DrNext]_drVars => FlightInv'
    BY NextFlight
  <1> QED
    BY <1>1, InitFlight, DriftTypesHold, PTL DEF DrSpec

(* Until a session is aborted, two recovery passes never run at a time:    *)
(* the running flag of runDriftRecovery holds off every second one.        *)
THEOREM RecoveryIsSingleFlight == DrSpec => []SingleFlight
  <1>1. FlightInv => SingleFlight
    BY DEF FlightInv, Flight, SingleFlight
  <1> QED
    BY <1>1, FlightInvariant, PTL

(* Until a session is aborted, the flag that holds off a second pass is    *)
(* set just while one is in flight: the finally block never misses.        *)
THEOREM FlagTellsThePass == DrSpec => []FlagIsPass
  <1>1. FlightInv => FlagIsPass
    BY DEF FlightInv, Flight, FlagIsPass
  <1> QED
    BY <1>1, FlightInvariant, PTL

-----------------------------------------------------------------------------
(* A due pass waits only for the user.  DueIsHeld is inductive on top of   *)
(* FlightInv: what lifts a hold calls runDriftRecovery, and the one pass   *)
(* that ends is of this session and clears the flag.                       *)

LEMMA InitHeld == DrInit => DueIsHeld
  BY DEF DrInit, DueIsHeld

(* The pass that ends before the first abort takes the due mark with it. *)
LEMMA PassStepHolds ==
  ASSUME session = 0, Flight, DueIsHeld, PassStep
  PROVE  pending' /\ ~running' => hidden' \/ blocked' \/ lapsed'
  <1>1. PICK p \in passes : \/ PassHydrated(p) \/ PassWarmed(p) \/ PassThrows(p)
                            \/ \E ok \in BOOLEAN : PassVerified(p, ok)
    BY DEF PassStep
  <1>2. p.orch = orch /\ p.session = session
    BY DEF Flight
  <1>3. CASE PassThrows(p) \/ \E ok \in BOOLEAN : PassVerified(p, ok)
    <2>1. pending' = FALSE
      BY <1>2, <1>3 DEF PassThrows, PassVerified, Finish
    <2> QED
      BY <2>1
  <1>4. CASE PassHydrated(p) \/ PassWarmed(p)
    <2>1. UNCHANGED <<pending, running, hidden, blocked, lapsed>>
      BY <1>4 DEF PassHydrated, PassWarmed, coordinator
    <2> QED
      BY <2>1 DEF DueIsHeld
  <1> QED
    BY <1>1, <1>3, <1>4

LEMMA NextHeld ==
  ASSUME DrTypeOK, FlightInv, DueIsHeld, [DrNext]_drVars
  PROVE  DueIsHeld'
  <1>1. CASE Abort
    <2>1. session' # 0
      BY <1>1 DEF Abort, DrTypeOK
    <2> QED
      BY <2>1 DEF DueIsHeld
  <1>2. ASSUME ~Abort, session' = 0
        PROVE  pending' /\ ~running' => hidden' \/ blocked' \/ lapsed'
    <2>1. UNCHANGED session
      BY <1>2 DEF DrNext, Drift, CooldownOver, Mutation, SearchBegins, SearchSettles,
         SearchExpires, WindowHides, WindowShows, PassStep, PassHydrated, PassWarmed,
         PassThrows, PassVerified, Finish, drVars
    <2>2. session = 0 /\ Flight
      BY <1>2, <2>1 DEF FlightInv
    <2>3. pending /\ ~running => hidden \/ blocked \/ lapsed
      BY <2>2 DEF DueIsHeld
    <2>4. CASE Drift
      <3>1. UNCHANGED <<hidden, blocked, lapsed>>
        BY <2>4 DEF Drift
      <3>2. \/ runDriftRecovery(TRUE, hidden, blocked) /\ ~running
            \/ UNCHANGED <<running, pending>>
        BY <2>4 DEF Drift, onPersistentDrift, coordinator
      <3>3. ASSUME runDriftRecovery(TRUE, hidden, blocked), ~running
            PROVE  running' \/ hidden \/ blocked
        BY <3>3 DEF runDriftRecovery
      <3> QED
        BY <2>3, <3>1, <3>2, <3>3
    <2>5. CASE SearchSettles
      <3>1. /\ runDriftRecovery(pending, hidden, FALSE)
            /\ UNCHANGED <<pending, hidden>>
        BY <2>5 DEF SearchSettles
      <3>2. pending => running' \/ hidden
        BY <3>1 DEF runDriftRecovery
      <3> QED
        BY <3>1, <3>2
    <2>6. CASE WindowShows
      <3>1. /\ runDriftRecovery(pending, FALSE, blocked)
            /\ UNCHANGED <<pending, blocked>>
        BY <2>6 DEF WindowShows
      <3>2. pending => running' \/ blocked
        BY <3>1 DEF runDriftRecovery
      <3> QED
        BY <3>1, <3>2
    <2>7. CASE PassStep
      BY <2>2, <2>7, PassStepHolds
    <2>8. CASE SearchBegins \/ SearchExpires \/ WindowHides
      BY <2>8 DEF SearchBegins, SearchExpires, WindowHides
    <2>9. CASE CooldownOver \/ (\E o \in 0..orch : Mutation(o)) \/ UNCHANGED drVars
      <3>1. UNCHANGED <<pending, running, hidden, blocked, lapsed>>
        BY <2>9 DEF CooldownOver, Mutation, drVars, coordinator
      <3> QED
        BY <2>3, <3>1
    <2> QED
      BY <1>2, <2>4, <2>5, <2>6, <2>7, <2>8, <2>9 DEF DrNext
  <1> QED
    BY <1>1, <1>2 DEF DueIsHeld

(* Until a session is aborted, no trigger and no wake-up drops a recovery  *)
(* pass that is due: it runs, or the user (typing, a query in flight, a    *)
(* hidden window) holds it back, or typing went stale and nothing called   *)
(* since.                                                                  *)
THEOREM DueStaysHeld == DrSpec => []DueIsHeld
  <1>1. DrTypeOK /\ FlightInv /\ DueIsHeld /\ [DrNext]_drVars => DueIsHeld'
    BY NextHeld
  <1> QED
    BY <1>1, InitHeld, DriftTypesHold, FlightInvariant, PTL DEF DrSpec

-----------------------------------------------------------------------------
(* No step of any session passes a verdict on another generation than the  *)
(* one it verified: what runDriftRecovery writes is "recovering", and the  *)
(* passes of aborted sessions compare with their own orchestrator's.       *)

Verdict ==
    health' # health /\ health' # "recovering" =>
      \E p \in passes \ passes' : p.verified \in {Never, gens[p.orch]}

LEMMA NextVerdict ==
  ASSUME [DrNext]_drVars
  PROVE  Verdict
  <1>1. CASE PassStep
    <2>1. PICK p \in passes : \/ PassHydrated(p) \/ PassWarmed(p) \/ PassThrows(p)
                              \/ \E ok \in BOOLEAN : PassVerified(p, ok)
      BY <1>1 DEF PassStep
    <2>2. CASE PassHydrated(p) \/ PassWarmed(p)
      BY <2>2 DEF PassHydrated, PassWarmed, Verdict
    <2>3. CASE PassThrows(p)
      <3>1. p \in passes \ passes' /\ (health' # health => p.verified \in {Never, gens[p.orch]})
        BY <2>3 DEF PassThrows, Finish
      <3> QED
        BY <3>1 DEF Verdict
    <2>4. CASE \E ok \in BOOLEAN : PassVerified(p, ok)
      <3>1. p \in passes \ passes' /\ (health' # health => p.verified = gens[p.orch])
        BY <2>4 DEF PassVerified, Finish
      <3> QED
        BY <3>1 DEF Verdict
    <2> QED
      BY <2>1, <2>2, <2>3, <2>4
  <1>2. CASE \/ Drift \/ SearchSettles \/ WindowShows
    <2>1. UNCHANGED health \/ health' = "recovering"
      BY <1>2 DEF Drift, SearchSettles, WindowShows, onPersistentDrift, runDriftRecovery
    <2> QED
      BY <2>1 DEF Verdict
  <1>3. CASE \/ CooldownOver \/ SearchBegins \/ SearchExpires \/ WindowHides \/ Abort
             \/ (\E o \in 0..orch : Mutation(o)) \/ UNCHANGED drVars
    <2>1. UNCHANGED health
      BY <1>3 DEF CooldownOver, SearchBegins, SearchExpires, WindowHides, Abort, Mutation,
         drVars
    <2> QED
      BY <2>1 DEF Verdict
  <1> QED
    BY <1>1, <1>2, <1>3 DEF DrNext

(* A verdict that runDriftRecovery passes on the health is of the           *)
(* generation it verified, in every session and after every abort: when    *)
(* the index moved during the verify, the pass passes none.                *)
THEOREM VerdictsAreCurrent == DrSpec => VerdictIsCurrent
  <1>1. [DrNext]_drVars => [Verdict]_drVars
    BY NextVerdict
  <1> QED
    BY <1>1, PTL DEF DrSpec, VerdictIsCurrent, Verdict

-----------------------------------------------------------------------------
(***************************************************************************)
(* What is shown (StatusReport, StatusFlags)                               *)
(***************************************************************************)
(* A set of numbers has a least one: of the intervals 1 .. m, m in the set,  *)
(* one is contained in no smaller one.                                      *)
LEMMA LeastNat ==
  ASSUME NEW T \in SUBSET Nat, T # {}
  PROVE  \E m \in T : \A k \in T : m <= k
<1> DEFINE F == {1 .. m : m \in T}
<1>1. \A m \in T : IsFiniteSet(1 .. m) /\ 1 .. m \in SUBSET Nat
  BY FS_Interval
<1>2. F \subseteq FiniteSubsetsOf(Nat) /\ F # {}
  BY <1>1 DEF FiniteSubsetsOf
<1>3. PICK x \in F : \A y \in F : ~ (<<y, x>> \in StrictSubsetOrdering(Nat))
  BY <1>2, WFMin, FS_StrictSubsetOrderingWellFounded
<1>4. PICK m \in T : x = 1 .. m
  OBVIOUS
<1>5. ASSUME NEW k \in T, k < m  PROVE FALSE
  <2>1. 1 .. k \subseteq 1 .. m /\ m \in 1 .. m /\ m \notin 1 .. k
    BY <1>5
  <2>2. <<1 .. k, x>> \in StrictSubsetOrdering(Nat)
    BY <1>1, <1>4, <2>1 DEF StrictSubsetOrdering
  <2> QED
    BY <1>3, <2>2
<1> QED
  BY <1>5

(* A table of rows is read from the top: the value is that of the first row  *)
(* whose condition holds, and a table ends with a row that always holds.     *)
FirstHolds(rows, n) ==
  \E k \in 1 .. n : /\ rows[k][1] /\ Ranked(rows) = rows[k][2]
                    /\ \A j \in 1 .. n : j < k => ~rows[j][1]

LEMMA RankedIs ==
  ASSUME NEW rows, NEW n \in Nat \ {0}, DOMAIN rows = 1 .. n, rows[n][1]
  PROVE  FirstHolds(rows, n)
<1> DEFINE T == {m \in 1 .. n : rows[m][1]}
<1>1. T \in SUBSET Nat /\ n \in T
  OBVIOUS
<1>2. PICK k \in T : \A m \in T : k <= m
  BY <1>1, LeastNat
<1>3. \A m \in 1 .. n : (rows[m][1] /\ \A j \in 1 .. (m - 1) : ~rows[j][1]) => m = k
  <2> SUFFICES ASSUME NEW m \in 1 .. n, rows[m][1], \A j \in 1 .. (m - 1) : ~rows[j][1], m # k
               PROVE  FALSE
    OBVIOUS
  <2>1. k \in 1 .. (m - 1) /\ rows[k][1]
    BY <1>2
  <2> QED
    BY <2>1
<1>4. rows[k][1] /\ \A j \in 1 .. (k - 1) : ~rows[j][1]
  BY <1>2
<1>5. (CHOOSE m \in DOMAIN rows : rows[m][1] /\ \A j \in 1 .. (m - 1) : ~rows[j][1]) = k
  BY <1>2, <1>3, <1>4
<1>6. Ranked(rows) = rows[k][2]
  BY <1>5 DEF Ranked
<1> QED
  BY <1>2, <1>4, <1>6 DEF FirstHolds

-----------------------------------------------------------------------------
Uis == {"locked", "stuck", "restoring", "indexing", "starting", "error", "ok", "updating", "none"}

(* The inputs a reporter is given. *)
InputOK(i) ==
  /\ i.chunks \in Int /\ i.files = i.chunks
  /\ i.notes \in Nat \ {0} /\ i.files <= i.notes
  /\ i.job.done \in Nat /\ i.job.total \in Nat
  /\ i.job.total = 0 <=> i.job.kind = "none"
  /\ i.job.kind \in {"none", "full", "catchup"}
  /\ i.walk.done \in Nat /\ i.walk.total \in Nat /\ i.walk.needed \in {0, Unknown}
  /\ i.dropRecovering => i.hydrating

(* What a mode of the precedence tree says of the inputs. *)
UiOK(i, u) ==
  /\ u \in Uis
  /\ u = "ok" => /\ ~i.hydrating /\ ~i.waiting /\ ~i.booting /\ i.files > 0
                 /\ Catch(i) = "quiet" \/ ~jobActive(i)
  /\ u = "none" => ~i.hydrating /\ ~i.waiting /\ ~i.booting /\ ~jobActive(i)
  /\ u = "updating" => i.files > 0 /\ ~i.hydrating
  /\ u = "indexing" => /\ ~i.waiting
                       /\ i.hydrating => i.goodEnough /\ i.files > 0
                       /\ ~i.hydrating => ~i.booting /\ jobActive(i)

LEMMA CatchIs ==
  ASSUME NEW i, InputOK(i)
  PROVE  /\ Catch(i) \in {"none", "quiet", "moderate"}
         /\ Catch(i) # "none" => i.files > 0
         /\ Catch(i) # "quiet" => \/ i.job.total = 0 \/ ~i.goodEnough \/ i.files <= 0
                                  \/ i.job.kind = "full"
                                  \/ ~isSmallCatchUpPass(i.job.total, i.files)
  BY DEF Catch, classifyCatchUpPresentation, InputOK, jobActive

LEMMA UiFacts ==
  ASSUME NEW i, InputOK(i)
  PROVE  UiOK(i, resolveIndexUiStatus(i))
<1> DEFINE r == uiRows(i)
           u == resolveIndexUiStatus(i)
<1>1. /\ (r[1][1] <=> i.storeLocked) /\ (r[2][1] <=> i.stuck)
      /\ (r[3][1] <=> i.waiting \/ i.peerSync)
      /\ (r[4][1] <=> i.hydrating /\ i.goodEnough /\ ~emptyInventory(i) /\ i.chunks # Unknown)
      /\ (r[5][1] <=> i.hydrating) /\ (r[6][1] <=> i.booting /\ i.mayFull = "no")
      /\ (r[7][1] <=> i.booting) /\ (r[8][1] <=> i.dropRecovering /\ ~jobActive(i))
      /\ (r[10][1] <=> Catch(i) = "quiet") /\ (r[11][1] <=> Catch(i) = "moderate")
      /\ (r[12][1] <=> jobActive(i)) /\ (r[13][1] <=> i.decisionPending \/ i.chunks = Unknown)
      /\ (r[14][1] <=> emptyInventory(i) /\ i.catchUpPending)
      /\ (r[15][1] <=> emptyInventory(i)) /\ r[16][1]
  BY DEF uiRows
<1>v. /\ r[1][2] = "locked" /\ r[2][2] = "stuck" /\ r[3][2] = "restoring" /\ r[4][2] = "indexing"
      /\ r[5][2] = "restoring" /\ r[6][2] = "restoring" /\ r[7][2] = "starting"
      /\ r[8][2] = "restoring" /\ r[9][2] = "error" /\ r[10][2] = "ok" /\ r[11][2] = "updating"
      /\ r[12][2] = "indexing" /\ r[13][2] = "starting" /\ r[14][2] = "starting"
      /\ r[15][2] = "none" /\ r[16][2] = "ok"
  BY DEF uiRows
<1>2. DOMAIN r = 1 .. 16
  BY DEF uiRows
<1>3. u = Ranked(r)
  BY DEF resolveIndexUiStatus
<1>4. emptyInventory(i) <=> i.files <= 0
  BY DEF emptyInventory, InputOK
<1> HIDE DEF r, u
<1>5. FirstHolds(r, 16)
  BY <1>1, <1>2, 16 \in Nat \ {0}, RankedIs
<1>6. PICK k \in 1 .. 16 : /\ r[k][1] /\ u = r[k][2]
                           /\ \A j \in 1 .. 16 : j < k => ~r[j][1]
  BY <1>3, <1>5 DEF FirstHolds
<1>7. \/ k = 1 /\ u = "locked"
      \/ k = 2 /\ u = "stuck"
      \/ k \in {3, 5, 6, 8} /\ u = "restoring"
      \/ k \in {4, 12} /\ u = "indexing"
      \/ k \in {7, 13, 14} /\ u = "starting"
      \/ k = 9 /\ u = "error"
      \/ k \in {10, 16} /\ u = "ok"
      \/ k = 11 /\ u = "updating"
      \/ k = 15 /\ u = "none"
  <2>1. k = 1 \/ k = 2 \/ k = 3 \/ k = 4 \/ k = 5 \/ k = 6 \/ k = 7 \/ k = 8 \/ k = 9
        \/ k = 10 \/ k = 11 \/ k = 12 \/ k = 13 \/ k = 14 \/ k = 15 \/ k = 16
    OBVIOUS
  <2>2. u = r[k][2]
    BY <1>6
  <2> QED
    BY <2>1, <2>2, <1>v
<1>8. u \in Uis
  BY <1>7 DEF Uis
<1>c. /\ Catch(i) # "none" => i.files > 0
      /\ i.files \in Int
  BY CatchIs DEF InputOK
<1>9. ASSUME u = "ok"
      PROVE  /\ ~i.hydrating /\ ~i.waiting /\ ~i.booting /\ i.files > 0
             /\ Catch(i) = "quiet" \/ ~jobActive(i)
  <2>1. k \in {10, 16}
    BY <1>7, <1>9
  <2>2. ~r[3][1] /\ ~r[5][1] /\ ~r[7][1]
    BY <1>6, <2>1
  <2>3. k = 16 => ~r[12][1] /\ ~r[15][1]
    BY <1>6
  <2>4. k = 10 => r[10][1]
    BY <1>6
  <2>5. ~i.hydrating /\ ~i.waiting /\ ~i.booting
    BY <1>1, <2>2
  <2> QED
    BY <1>1, <1>4, <1>c, <2>1, <2>3, <2>4, <2>5
<1>10. ASSUME u = "none"
       PROVE  ~i.hydrating /\ ~i.waiting /\ ~i.booting /\ ~jobActive(i)
  <2>0. k = 15
    BY <1>7, <1>10
  <2>1. ~r[3][1] /\ ~r[5][1] /\ ~r[7][1] /\ ~r[12][1]
    BY <1>6, <2>0
  <2> QED
    BY <1>1, <2>1
<1>11. ASSUME u = "updating"
       PROVE  i.files > 0 /\ ~i.hydrating
  <2>0. k = 11
    BY <1>7, <1>11
  <2>1. r[11][1] /\ ~r[5][1]
    BY <1>6, <2>0
  <2> QED
    BY <1>1, <1>c, <2>1
<1>12. ASSUME u = "indexing"
       PROVE  /\ ~i.waiting
              /\ i.hydrating => i.goodEnough /\ i.files > 0
              /\ ~i.hydrating => ~i.booting /\ jobActive(i)
  <2>0. k \in {4, 12}
    BY <1>7, <1>12
  <2>1. ~r[3][1] /\ (r[4][1] \/ (~r[5][1] /\ ~r[7][1] /\ r[12][1]))
    BY <1>6, <2>0
  <2> QED
    BY <1>1, <1>4, <1>c, <2>1
<1> QED
  BY <1>8, <1>9, <1>10, <1>11, <1>12 DEF UiOK, u

(* The mode that the tree, or the corrections, make of it. *)
Modes == Uis \cup {"verifying", "recovering", "full-reindex", "catching-up"}

ModeOK(i, m) ==
  /\ m \in Modes
  /\ m = "ok" => /\ ~i.hydrating /\ ~i.waiting /\ ~i.booting /\ i.files > 0
                 /\ Catch(i) = "quiet" \/ ~jobActive(i)
                 /\ ~i.catchUpPending
  /\ m = "none" => ~i.hydrating /\ ~i.waiting /\ ~i.booting /\ ~jobActive(i)
  /\ m = "updating" => i.files > 0
  /\ m = "full-reindex" => i.job.kind = "full"
  /\ m = "catching-up" => /\ ~i.hydrating
                          /\ i.job.kind = "catchup" \/ i.catchUpPending
  /\ m = "indexing" => /\ ~i.waiting /\ i.job.kind # "full"
                       /\ i.hydrating => i.goodEnough /\ i.files > 0
                       /\ ~i.hydrating => ~i.booting /\ jobActive(i)

LEMMA ModeFacts ==
  ASSUME NEW i, InputOK(i), NEW u, UiOK(i, u), NEW v
  PROVE  ModeOK(i, indexStatusModeFromUi(u, v, i))
<1> DEFINE r == modeRows(u, v, i)
           m == indexStatusModeFromUi(u, v, i)
<1>1. /\ (r[1][1] <=> u \in {"locked", "stuck", "updating"})
      /\ (r[3][1] <=> i.dropRecovering /\ u \in {"restoring", "starting"})
      /\ (r[4][1] <=> i.job.kind = "full")
      /\ (r[5][1] <=> u = "indexing" /\ i.job.kind = "catchup" /\ ~i.hydrating)
      /\ (r[6][1] <=> u = "ok" /\ i.catchUpPending) /\ r[7][1]
  BY DEF modeRows
<1>v. /\ r[1][2] = u /\ r[2][2] = "verifying" /\ r[3][2] = "recovering"
      /\ r[4][2] = "full-reindex" /\ r[5][2] = "catching-up" /\ r[6][2] = "catching-up"
      /\ r[7][2] = u
  BY DEF modeRows
<1>2. DOMAIN r = 1 .. 7
  BY DEF modeRows
<1>3. m = Ranked(r)
  BY DEF indexStatusModeFromUi
<1> HIDE DEF r, m
<1>5. FirstHolds(r, 7)
  BY <1>1, <1>2, 7 \in Nat \ {0}, RankedIs
<1>6. PICK k \in 1 .. 7 : /\ r[k][1] /\ m = r[k][2]
                          /\ \A j \in 1 .. 7 : j < k => ~r[j][1]
  BY <1>3, <1>5 DEF FirstHolds
<1>7. \/ k = 1 /\ m = u
      \/ k = 2 /\ m = "verifying"
      \/ k = 3 /\ m = "recovering"
      \/ k = 4 /\ m = "full-reindex"
      \/ k \in {5, 6} /\ m = "catching-up"
      \/ k = 7 /\ m = u
  <2>1. k = 1 \/ k = 2 \/ k = 3 \/ k = 4 \/ k = 5 \/ k = 6 \/ k = 7
    OBVIOUS
  <2>2. m = r[k][2]
    BY <1>6
  <2> QED
    BY <2>1, <2>2, <1>v
<1>8. CASE k = 1
  <2>1. m = u /\ u \in {"locked", "stuck", "updating"}
    BY <1>1, <1>6, <1>7, <1>8
  <2> QED
    BY <2>1 DEF UiOK, ModeOK, Modes, Uis, m
<1>9. CASE k \in {2, 3}
  BY <1>7, <1>9 DEF ModeOK, Modes, Uis, m
<1>10. CASE k = 4
  <2>1. m = "full-reindex" /\ i.job.kind = "full"
    BY <1>1, <1>6, <1>7, <1>10
  <2> QED
    BY <2>1 DEF ModeOK, Modes, m
<1>11. CASE k = 5
  <2>1. m = "catching-up" /\ i.job.kind = "catchup" /\ ~i.hydrating
    BY <1>1, <1>6, <1>7, <1>11
  <2> QED
    BY <2>1 DEF ModeOK, Modes, m
<1>12. CASE k = 6
  <2>1. m = "catching-up" /\ u = "ok" /\ i.catchUpPending
    BY <1>1, <1>6, <1>7, <1>12
  <2> QED
    BY <2>1 DEF UiOK, ModeOK, Modes, m
<1>13. CASE k = 7
  <2>1. m = u /\ ~r[4][1] /\ ~r[5][1] /\ ~r[6][1]
    BY <1>6, <1>7, <1>13
  <2>2. i.job.kind # "full" /\ (u = "ok" => ~i.catchUpPending) /\ m # "full-reindex" /\ m # "catching-up"
    BY <1>1, <2>1 DEF UiOK, Uis
  <2> QED
    BY <2>1, <2>2 DEF UiOK, ModeOK, Modes, m
<1> QED
  BY <1>6, <1>8, <1>9, <1>10, <1>11, <1>12, <1>13

(* The phases of a walk that hydrates, and what the indicator says. *)
Walks == {"hydrating", "restoring", "recovering"}

WalkShown(i, m) ==
  /\ restoreLive(i) /\ ~verifyLive(m, i)
  /\ ~(shortVerify(i) /\ i.walk.total > 0 /\ i.walk.total < i.notes)

PhaseOK(i, m, p) ==
  /\ m = "ok" => p.phase \in {"verifying", "catching-up", "ready"}
  /\ m \in {"ok", "starting"} /\ p.phase = "catching-up" => i.catchUpPending
  /\ m = "none" => p.phase \in {"verifying", "none"}
  /\ m = "catching-up" /\ ~i.hydrating => p.phase \in {"verifying", "catching-up"}
  /\ m = "indexing" => \/ p.phase = "verifying"
                       \/ p.phase \in Walks /\ p.units = RestoreUnits(i) /\ WalkShown(i, m)
                       \/ p.phase \in {"catching-up", "indexing"} /\ ~i.hydrating

LEMMA PhaseFacts ==
  ASSUME NEW i, NEW m \in Modes
  PROVE  PhaseOK(i, m, computeIndexProgressIndicator(m, i))
<1> DEFINE r == indicatorRows(m, i)
           p == computeIndexProgressIndicator(m, i)
<1>1. /\ (r[1][1] <=> shortVerify(i) /\ i.walk.total > 0 /\ i.walk.total < i.notes)
      /\ (r[3][1] <=> m \in {"stuck", "locked", "error", "none"})
      /\ (r[4][1] <=> m = "updating")
      /\ (r[5][1] <=> verifyLive(m, i))
      /\ (r[6][1] <=> restoreLive(i) /\ m # "ok" /\ (i.hydrating \/ m # "catching-up"))
      /\ (r[7][1] <=> \/ m = "catching-up"
                      \/ m = "indexing" /\ i.job.kind = "catchup")
      /\ (r[8][1] <=> m \in {"full-reindex", "indexing"})
      /\ (r[9][1] <=> i.catchUpPending /\ m \in {"ok", "starting"})
      /\ (r[10][1] <=> m = "starting") /\ (r[11][1] <=> m = "ok") /\ r[12][1]
  BY DEF indicatorRows
<1>v. /\ r[1][2].phase = "verifying" /\ r[2][2].phase = "verifying" /\ r[3][2].phase = m
      /\ r[4][2].phase = "catching-up" /\ r[5][2].phase = "verifying"
      /\ r[6][2].phase \in Walks /\ r[6][2].units = RestoreUnits(i)
      /\ r[7][2].phase = "catching-up" /\ r[8][2].phase = "indexing"
      /\ r[9][2].phase = "catching-up" /\ r[10][2].phase = "starting"
      /\ r[11][2].phase = "ready" /\ r[12][2].phase = m
  BY DEF indicatorRows, Phase, Walks
<1>2. DOMAIN r = 1 .. 12
  BY DEF indicatorRows
<1>3. p = Ranked(r)
  BY DEF computeIndexProgressIndicator
<1>l. restoreLive(i) <=> (i.hydrating \/ restoreLive(i))
  BY DEF restoreLive
<1> HIDE DEF r, p
<1>5. FirstHolds(r, 12)
  BY <1>1, <1>2, 12 \in Nat \ {0}, RankedIs
<1>6. PICK k \in 1 .. 12 : /\ r[k][1] /\ p = r[k][2]
                           /\ \A j \in 1 .. 12 : j < k => ~r[j][1]
  BY <1>3, <1>5 DEF FirstHolds
<1>7. \/ k \in {1, 2, 5} /\ p.phase = "verifying"
      \/ k \in {3, 12} /\ p.phase = m
      \/ k \in {4, 7, 9} /\ p.phase = "catching-up"
      \/ k = 6 /\ p.phase \in Walks /\ p.units = RestoreUnits(i)
      \/ k = 8 /\ p.phase = "indexing"
      \/ k = 10 /\ p.phase = "starting"
      \/ k = 11 /\ p.phase = "ready"
  <2>1. k = 1 \/ k = 2 \/ k = 3 \/ k = 4 \/ k = 5 \/ k = 6 \/ k = 7 \/ k = 8 \/ k = 9
        \/ k = 10 \/ k = 11 \/ k = 12
    OBVIOUS
  <2>2. p = r[k][2]
    BY <1>6
  <2> QED
    BY <2>1, <2>2, <1>v
<1>8. CASE k \in {1, 2, 5}
  BY <1>7, <1>8 DEF PhaseOK, Walks, p
<1>9. CASE k = 3
  <2>1. p.phase = m /\ m \in {"stuck", "locked", "error", "none"}
    BY <1>1, <1>6, <1>7, <1>9
  <2> QED
    BY <2>1 DEF PhaseOK, p
<1>10. CASE k = 4
  <2>1. p.phase = "catching-up" /\ m = "updating"
    BY <1>1, <1>6, <1>7, <1>10
  <2> QED
    BY <2>1 DEF PhaseOK, p
<1>11. CASE k = 6
  <2>1. /\ restoreLive(i) /\ m # "ok" /\ (i.hydrating \/ m # "catching-up")
        /\ ~r[1][1] /\ ~r[3][1] /\ ~r[5][1]
    BY <1>1, <1>6, <1>11
  <2>2. WalkShown(i, m) /\ m # "none"
    BY <1>1, <2>1 DEF WalkShown
  <2>3. p.phase \in Walks /\ p.units = RestoreUnits(i)
    BY <1>7, <1>11
  <2> QED
    BY <2>1, <2>2, <2>3 DEF PhaseOK, Walks, p
<1>12. CASE k = 7
  <2>1. /\ p.phase = "catching-up" /\ ~r[6][1]
        /\ m = "catching-up" \/ m = "indexing"
    BY <1>1, <1>6, <1>7, <1>12
  <2>2. m = "indexing" => ~i.hydrating
    BY <1>1, <1>l, <2>1
  <2> QED
    BY <2>1, <2>2 DEF PhaseOK, p
<1>13. CASE k = 8
  <2>1. p.phase = "indexing" /\ ~r[6][1] /\ m \in {"full-reindex", "indexing"}
    BY <1>1, <1>6, <1>7, <1>13
  <2>2. m = "indexing" => ~i.hydrating
    BY <1>1, <1>l, <2>1
  <2> QED
    BY <2>1, <2>2 DEF PhaseOK, p
<1>14. CASE k = 9
  <2>1. p.phase = "catching-up" /\ i.catchUpPending /\ m \in {"ok", "starting"}
    BY <1>1, <1>6, <1>7, <1>14
  <2> QED
    BY <2>1 DEF PhaseOK, p
<1>15. CASE k = 10
  <2>1. p.phase = "starting" /\ m = "starting"
    BY <1>1, <1>6, <1>7, <1>15
  <2> QED
    BY <2>1 DEF PhaseOK, p
<1>16. CASE k = 11
  <2>1. p.phase = "ready" /\ m = "ok"
    BY <1>1, <1>6, <1>7, <1>16
  <2> QED
    BY <2>1 DEF PhaseOK, p
<1>17. CASE k = 12
  <2>1. p.phase = m /\ ~r[3][1] /\ ~r[7][1] /\ ~r[8][1] /\ ~r[11][1] /\ ~r[10][1]
    BY <1>6, <1>7, <1>17
  <2>2. m \notin {"none", "catching-up", "indexing", "ok", "starting"}
    BY <1>1, <2>1
  <2> QED
    BY <2>1, <2>2 DEF PhaseOK, p
<1> QED
  BY <1>7, <1>8, <1>9, <1>10, <1>11, <1>12, <1>13, <1>14, <1>15, <1>16, <1>17

LEMMA CorrectedIs ==
  ASSUME NEW m, NEW phase, NEW q
  PROVE  corrected(m, phase, q)
           = IF q THEN "ok" ELSE IF phase = "verifying" THEN "verifying"
             ELSE IF phase = "catching-up" /\ m \in {"ok", "starting"} THEN "catching-up"
             ELSE IF phase = "recovering" /\ m \in {"restoring", "starting"} THEN "recovering" ELSE m
<1> DEFINE r == correctedRows(m, phase, q)
<1>1. /\ (r[1][1] <=> q) /\ (r[2][1] <=> phase = "verifying")
      /\ (r[3][1] <=> phase = "catching-up" /\ m \in {"ok", "starting"})
      /\ (r[4][1] <=> phase = "recovering" /\ m \in {"restoring", "starting"}) /\ r[5][1]
  BY DEF correctedRows
<1>v. /\ r[1][2] = "ok" /\ r[2][2] = "verifying" /\ r[3][2] = "catching-up"
      /\ r[4][2] = "recovering" /\ r[5][2] = m
  BY DEF correctedRows
<1>2. DOMAIN r = 1 .. 5
  BY DEF correctedRows
<1>3. corrected(m, phase, q) = Ranked(r)
  BY DEF corrected
<1> HIDE DEF r
<1>5. FirstHolds(r, 5)
  BY <1>1, <1>2, 5 \in Nat \ {0}, RankedIs
<1>6. PICK k \in 1 .. 5 : /\ r[k][1] /\ Ranked(r) = r[k][2]
                          /\ \A j \in 1 .. 5 : j < k => ~r[j][1]
  BY <1>5 DEF FirstHolds
<1>7. k = 1 \/ k = 2 \/ k = 3 \/ k = 4 \/ k = 5
  OBVIOUS
<1> QED
  BY <1>1, <1>v, <1>3, <1>6, <1>7

LEMMA HealthIs ==
  ASSUME NEW m
  PROVE  indexStatusHealth(m)
           = IF m \in {"full-reindex", "catching-up"} THEN "indexing"
             ELSE IF m = "catch-up-paused" THEN "ok" ELSE IF m = "recovering" THEN "restoring"
             ELSE IF m = "verifying" THEN "starting" ELSE m
<1> DEFINE r == healthRows(m)
<1>1. /\ (r[1][1] <=> m \in {"full-reindex", "catching-up"}) /\ (r[2][1] <=> m = "catch-up-paused")
      /\ (r[3][1] <=> m = "recovering") /\ (r[4][1] <=> m = "verifying") /\ r[5][1]
  BY DEF healthRows
<1>v. /\ r[1][2] = "indexing" /\ r[2][2] = "ok" /\ r[3][2] = "restoring"
      /\ r[4][2] = "starting" /\ r[5][2] = m
  BY DEF healthRows
<1>2. DOMAIN r = 1 .. 5
  BY DEF healthRows
<1>3. indexStatusHealth(m) = Ranked(r)
  BY DEF indexStatusHealth
<1> HIDE DEF r
<1>5. FirstHolds(r, 5)
  BY <1>1, <1>2, 5 \in Nat \ {0}, RankedIs
<1>6. PICK k \in 1 .. 5 : /\ r[k][1] /\ Ranked(r) = r[k][2]
                          /\ \A j \in 1 .. 5 : j < k => ~r[j][1]
  BY <1>5 DEF FirstHolds
<1>7. k = 1 \/ k = 2 \/ k = 3 \/ k = 4 \/ k = 5
  OBVIOUS
<1> QED
  BY <1>1, <1>v, <1>3, <1>6, <1>7

(* A report: of a catch-up that the energy saver holds, or of a mode. *)
HeldRep(i, rep) ==
  /\ rep.mode = "catch-up-paused" /\ rep.health = "ok" /\ ~rep.quiet
  /\ rep.phase = "catch-up-paused" /\ ~i.dropRecovering

ModeRep(i, rep) ==
  /\ Catch(i) # "quiet"
  /\ rep.phase = "verifying" => rep.mode = "verifying"
  /\ rep.mode = "ok" => rep.phase = "ready" /\ i.job.total = 0 /\ i.files > 0 /\ ~i.hydrating
  /\ rep.mode = "none" => rep.phase = "none" /\ i.job.total = 0 /\ ~i.hydrating
  /\ rep.mode = "updating" => i.files > 0 /\ rep.units = NoUnits
  /\ rep.mode = "full-reindex" => i.job.kind = "full"
  /\ rep.mode = "catching-up" => /\ rep.phase \notin Walks
                                 /\ i.job.kind = "catchup" \/ i.catchUpPending
  /\ rep.mode = "indexing" =>
       /\ ~i.waiting /\ i.job.kind # "full"
       /\ i.hydrating => i.files > 0
       /\ ~i.hydrating => jobActive(i)
       /\ \/ /\ rep.phase \in Walks /\ rep.units = RestoreUnits(i)
             /\ i.hydrating /\ WalkShown(i, "indexing")
          \/ rep.phase \in {"catching-up", "indexing"} /\ ~i.hydrating

PlainRep(i, rep) ==
  /\ rep.mode \in Modes /\ rep.health = indexStatusHealth(rep.mode)
  /\ rep.quiet \in BOOLEAN
  /\ rep.quiet => rep.mode = "ok" /\ i.files > 0
  /\ ~rep.quiet => ModeRep(i, rep)

LEMMA FlushedIs ==
  ASSUME NEW i, InputOK(i), NEW m
  PROVE  \/ flushed(m, i) = m
         \/ /\ flushed(m, i) = "updating" /\ i.files > 0
            /\ m \in {"indexing", "catching-up"}
  BY DEF flushed, InputOK

LEMMA ReportedIs ==
  ASSUME NEW i, InputOK(i), NEW m, ModeOK(i, m), NEW p, PhaseOK(i, m, p)
  PROVE  \/ HeldRep(i, computeWith(p, m, Catch(i) = "quiet", i))
         \/ PlainRep(i, computeWith(p, m, Catch(i) = "quiet", i))
<1> DEFINE q == Catch(i) = "quiet"
           c == corrected(m, p.phase, q)
           f == flushed(c, i)
           rep == computeWith(p, m, q, i)
<1>1. rep = reported(f, p, q, i)
  BY DEF computeWith
<1>c. c = IF q THEN "ok" ELSE IF p.phase = "verifying" THEN "verifying"
          ELSE IF p.phase = "catching-up" /\ m \in {"ok", "starting"} THEN "catching-up"
          ELSE IF p.phase = "recovering" /\ m \in {"restoring", "starting"} THEN "recovering" ELSE m
  BY CorrectedIs
<1>f. \/ f = c
      \/ f = "updating" /\ i.files > 0 /\ c \in {"indexing", "catching-up"}
  BY FlushedIs
<1>q. q \in BOOLEAN /\ (q => i.files > 0)
  BY CatchIs
<1>m. m \in Modes
  BY DEF ModeOK
<1> HIDE DEF c, f, q
<1>h. CASE rep = [mode |-> "catch-up-paused", health |-> indexStatusHealth("catch-up-paused"),
        quiet |-> FALSE, phase |-> "catch-up-paused", units |-> NoUnits] /\ ~i.dropRecovering
  <2>1. indexStatusHealth("catch-up-paused") = "ok"
    BY HealthIs
  <2> QED
    BY <1>h, <2>1 DEF HeldRep, q
<1>p. CASE rep = [mode |-> f, health |-> indexStatusHealth(f), quiet |-> q, phase |-> p.phase,
                  units |-> IF f \in Blocked THEN NoUnits ELSE p.units]
  <2>1. /\ rep.mode = f /\ rep.health = indexStatusHealth(f) /\ (rep.quiet <=> q)
        /\ rep.quiet \in BOOLEAN /\ rep.phase = p.phase
        /\ rep.units = IF f \in Blocked THEN NoUnits ELSE p.units
    BY <1>p, <1>q
  <2> HIDE DEF rep
  <2>2. f \in Modes
    BY <1>c, <1>f, <1>m DEF Modes, Uis
  <2>3. q => f = "ok" /\ i.files > 0
    BY <1>c, <1>f, <1>q
  <2>4. ASSUME ~q  PROVE ModeRep(i, rep)
    <3>1. p.phase = "verifying" => f = "verifying"
      BY <1>c, <1>f, <2>4
    <3>2. f = "ok" => p.phase = "ready" /\ i.job.total = 0 /\ i.files > 0 /\ ~i.hydrating
      <4>1. ASSUME f = "ok" PROVE m = "ok" /\ p.phase # "verifying" /\ p.phase # "catching-up"
        BY <1>c, <1>f, <2>4, <4>1
      <4> QED
        BY <2>4, <4>1 DEF ModeOK, PhaseOK, jobActive, q, InputOK
    <3>3. f = "none" => p.phase = "none" /\ i.job.total = 0 /\ ~i.hydrating
      <4>1. ASSUME f = "none" PROVE m = "none" /\ p.phase # "verifying"
        BY <1>c, <1>f, <2>4, <4>1
      <4> QED
        BY <4>1 DEF ModeOK, PhaseOK, jobActive, InputOK
    <3>4. f = "updating" => i.files > 0 /\ rep.units = NoUnits
      <4>1. ASSUME f = "updating" PROVE m = "updating" \/ i.files > 0
        BY <1>c, <1>f, <2>4, <4>1
      <4> QED
        BY <2>1, <4>1 DEF ModeOK, Blocked
    <3>5. f = "full-reindex" => i.job.kind = "full"
      <4>1. ASSUME f = "full-reindex" PROVE m = "full-reindex"
        BY <1>c, <1>f, <2>4, <4>1
      <4> QED
        BY <4>1 DEF ModeOK
    <3>6. f = "catching-up" => /\ p.phase \notin Walks
                               /\ i.job.kind = "catchup" \/ i.catchUpPending
      <4>1. ASSUME f = "catching-up"
            PROVE  \/ m = "catching-up" /\ p.phase # "verifying"
                   \/ p.phase = "catching-up" /\ m \in {"ok", "starting"}
        BY <1>c, <1>f, <2>4, <4>1
      <4> QED
        BY <4>1 DEF ModeOK, PhaseOK, Walks
    <3>7. f = "indexing" => m = "indexing" /\ p.phase # "verifying" /\ rep.units = p.units
      BY <1>c, <1>f, <2>1, <2>4 DEF Blocked
    <3>8. f = "indexing" =>
             /\ ~i.waiting /\ i.job.kind # "full"
             /\ i.hydrating => i.files > 0
             /\ ~i.hydrating => jobActive(i)
      BY <3>7 DEF ModeOK
    <3>9. ASSUME f = "indexing"
          PROVE  \/ /\ p.phase \in Walks /\ rep.units = RestoreUnits(i)
                    /\ i.hydrating /\ WalkShown(i, "indexing")
                 \/ p.phase \in {"catching-up", "indexing"} /\ ~i.hydrating
      <4>1. \/ p.phase \in Walks /\ p.units = RestoreUnits(i) /\ WalkShown(i, "indexing")
            \/ p.phase \in {"catching-up", "indexing"} /\ ~i.hydrating
        BY <3>7, <3>9 DEF PhaseOK
      <4>2. restoreLive(i) /\ ~i.waiting /\ (~i.hydrating => ~i.booting) => i.hydrating
        BY DEF restoreLive, InputOK
      <4>3. ~i.waiting /\ (~i.hydrating => ~i.booting)
        BY <3>7, <3>9 DEF ModeOK
      <4> QED
        BY <3>7, <3>9, <4>1, <4>2, <4>3 DEF WalkShown
    <3> QED
      BY <2>1, <2>4, <3>1, <3>2, <3>3, <3>4, <3>5, <3>6, <3>8, <3>9 DEF ModeRep, q
  <2>5. PlainRep(i, rep)
    BY <2>1, <2>2, <2>3, <2>4 DEF PlainRep
  <2> QED
    BY <2>5 DEF rep, q
<1> QED
  BY <1>1, <1>h, <1>p DEF reported, isCatchUpHeldByEnergySaver

LEMMA ReportFacts ==
  ASSUME NEW i, InputOK(i)
  PROVE  HeldRep(i, compute(i)) \/ PlainRep(i, compute(i))
<1> DEFINE u == resolveIndexUiStatus(i)
           m == indexStatusModeFromUi(u, isVerifying(u, i), i)
           p == computeIndexProgressIndicator(m, i)
<1>1. UiOK(i, u)
  BY UiFacts
<1>2. ModeOK(i, m)
  BY <1>1, ModeFacts
<1>3. PhaseOK(i, m, p)
  BY <1>2, PhaseFacts DEF ModeOK
<1>4. compute(i) = computeWith(p, m, Catch(i) = "quiet", i)
  BY DEF compute, computeUi, computeMode
<1> HIDE DEF u, m, p
<1> QED
  BY <1>2, <1>3, <1>4, ReportedIs

-----------------------------------------------------------------------------
(* The snapshot: its phase, its counts, and the job it gives the modal. *)
SnapPhaseOK(i, rep, ph) ==
  /\ ph = "embed" => /\ rep.health \notin {"error", "locked", "stuck", "starting", "restoring"}
                     /\ rep.phase \notin {"catch-up-paused", "verifying"} \cup Walks
                     /\ \/ rep.phase \in {"catching-up", "indexing"}
                        \/ i.job.total > 0 \/ rep.health = "indexing"
  /\ ph = "verify" => rep.phase = "verifying"
  /\ ph = "hydrate" => \/ rep.phase \in Walks \/ rep.health = "restoring"
                       \/ rep.mode = "indexing" /\ i.hydrating

LEMMA SnapPhaseFacts ==
  ASSUME NEW i, NEW rep
  PROVE  SnapPhaseOK(i, rep, resolveIndexProgressPhase(rep, i))
<1> DEFINE r == phaseRows(rep, i)
           ph == resolveIndexProgressPhase(rep, i)
<1>1. /\ (r[2][1] <=> rep.phase = "catch-up-paused")
      /\ (r[3][1] <=> "error" \in {rep.health, rep.phase})
      /\ (r[4][1] <=> "locked" \in {rep.health, rep.phase})
      /\ (r[5][1] <=> "stuck" \in {rep.health, rep.phase})
      /\ (r[6][1] <=> rep.phase = "verifying")
      /\ (r[7][1] <=> rep.phase \in Walks)
      /\ (r[8][1] <=> /\ rep.mode = "indexing" /\ i.hydrating
                      /\ rep.units.total > 0 /\ rep.units.determinate)
      /\ (r[9][1] <=> rep.phase = "starting" \/ rep.health = "starting")
      /\ (r[10][1] <=> rep.health = "restoring")
      /\ (r[11][1] <=> rep.phase \in {"catching-up", "indexing"})
      /\ (r[12][1] <=> i.job.total > 0 /\ (rep.health = "indexing" \/ i.job.done < i.job.total))
      /\ (r[13][1] <=> rep.health = "indexing") /\ r[14][1]
  BY DEF phaseRows, Walks
<1>v. /\ r[1][2] = "idle" /\ r[2][2] = "idle" /\ r[3][2] = "error" /\ r[4][2] = "locked"
      /\ r[5][2] = "stuck" /\ r[6][2] = "verify" /\ r[7][2] = "hydrate" /\ r[8][2] = "hydrate"
      /\ r[9][2] = "starting" /\ r[10][2] = "hydrate" /\ r[11][2] = "embed"
      /\ r[12][2] = "embed" /\ r[13][2] = "embed" /\ r[14][2] = "idle"
  BY DEF phaseRows
<1>2. DOMAIN r = 1 .. 14
  BY DEF phaseRows
<1>3. ph = Ranked(r)
  BY DEF resolveIndexProgressPhase
<1> HIDE DEF r, ph
<1>5. FirstHolds(r, 14)
  BY <1>1, <1>2, 14 \in Nat \ {0}, RankedIs
<1>6. PICK k \in 1 .. 14 : /\ r[k][1] /\ ph = r[k][2]
                           /\ \A j \in 1 .. 14 : j < k => ~r[j][1]
  BY <1>3, <1>5 DEF FirstHolds
<1>7. \/ k \in {1, 2, 14} /\ ph = "idle"
      \/ k \in {3, 4, 5, 9} /\ ph \in {"error", "locked", "stuck", "starting"}
      \/ k = 6 /\ ph = "verify"
      \/ k \in {7, 8, 10} /\ ph = "hydrate"
      \/ k \in {11, 12, 13} /\ ph = "embed"
  <2>1. k = 1 \/ k = 2 \/ k = 3 \/ k = 4 \/ k = 5 \/ k = 6 \/ k = 7 \/ k = 8 \/ k = 9
        \/ k = 10 \/ k = 11 \/ k = 12 \/ k = 13 \/ k = 14
    OBVIOUS
  <2>2. ph = r[k][2]
    BY <1>6
  <2> QED
    BY <2>1, <2>2, <1>v
<1>8. ASSUME ph = "embed"
      PROVE  /\ rep.health \notin {"error", "locked", "stuck", "starting", "restoring"}
             /\ rep.phase \notin {"catch-up-paused", "verifying"} \cup Walks
             /\ \/ rep.phase \in {"catching-up", "indexing"}
                \/ i.job.total > 0 \/ rep.health = "indexing"
  <2>1. k \in {11, 12, 13}
    BY <1>7, <1>8
  <2>2. /\ ~r[2][1] /\ ~r[3][1] /\ ~r[4][1] /\ ~r[5][1] /\ ~r[6][1] /\ ~r[7][1]
        /\ ~r[9][1] /\ ~r[10][1] /\ (r[11][1] \/ r[12][1] \/ r[13][1])
    BY <1>6, <2>1
  <2> QED
    BY <1>1, <2>2
<1>9. ASSUME ph = "verify" PROVE rep.phase = "verifying"
  BY <1>1, <1>6, <1>7, <1>9
<1>10. ASSUME ph = "hydrate"
       PROVE  \/ rep.phase \in Walks \/ rep.health = "restoring"
              \/ rep.mode = "indexing" /\ i.hydrating
  <2>1. r[7][1] \/ r[8][1] \/ r[10][1]
    BY <1>6, <1>7, <1>10
  <2> QED
    BY <1>1, <2>1
<1> QED
  BY <1>8, <1>9, <1>10 DEF SnapPhaseOK, ph

(* What a snapshot's counts can be, for files that are counted. *)
CountOK(ph, rep, i, cov, total) ==
  /\ isWalk(ph, rep) => total = rep.units.total
  /\ isEmbed(ph, rep, i) /\ ~isWalk(ph, rep) =>
       \/ total = i.job.total
       \/ total = cov.total /\ cov.total > 0
       \/ total \in Int /\ total >= i.files

LEMMA CountFacts ==
  ASSUME NEW i, InputOK(i), i.files > 0, NEW rep, NEW ph, NEW cov
  PROVE  CountOK(ph, rep, i, cov, snapshotCounts(ph, Larger(i.files, 0), rep, i, cov)[2])
<1> DEFINE files == Larger(i.files, 0)
           r == countRows(ph, files, rep, i, cov)
           c == snapshotCounts(ph, files, rep, i, cov)
<1>0. files = i.files
  BY DEF Larger, InputOK
<1>1. /\ (r[1][1] <=> isWalk(ph, rep))
      /\ (r[3][1] <=> cov.total > 0)
      /\ (r[4][1] <=> ph = "embed" /\ files > 0)
      /\ (r[5][1] <=> isEmbed(ph, rep, i)) /\ r[7][1]
  BY DEF countRows
<1>v. /\ r[1][2][2] = rep.units.total /\ r[2][2][2] = i.job.total /\ r[3][2][2] = cov.total
      /\ r[4][2][2] = Larger(files, i.job.total) /\ r[5][2][2] = i.job.total
      /\ r[6][2][2] = Larger(files, i.notes) /\ r[7][2][2] = 0
  BY DEF countRows
<1>2. DOMAIN r = 1 .. 7
  BY DEF countRows
<1>3. c = Ranked(r)
  BY DEF snapshotCounts
<1>4. Larger(files, i.job.total) \in Int /\ Larger(files, i.job.total) >= i.files
  BY <1>0 DEF Larger, InputOK
<1> HIDE DEF r, c, files
<1>5. FirstHolds(r, 7)
  BY <1>1, <1>2, 7 \in Nat \ {0}, RankedIs
<1>6. PICK k \in 1 .. 7 : /\ r[k][1] /\ c = r[k][2]
                          /\ \A j \in 1 .. 7 : j < k => ~r[j][1]
  BY <1>3, <1>5 DEF FirstHolds
<1>7. k = 1 \/ k = 2 \/ k = 3 \/ k = 4 \/ k = 5 \/ k = 6 \/ k = 7
  OBVIOUS
<1>8. ASSUME isWalk(ph, rep) PROVE c[2] = rep.units.total
  <2>1. k = 1
    BY <1>1, <1>6, <1>8
  <2> QED
    BY <1>6, <1>v, <2>1
<1>9. ASSUME isEmbed(ph, rep, i), ~isWalk(ph, rep)
      PROVE  \/ c[2] = i.job.total
             \/ c[2] = cov.total /\ cov.total > 0
             \/ c[2] \in Int /\ c[2] >= i.files
  <2>1. k \in {2, 3, 4, 5}
    BY <1>1, <1>6, <1>7, <1>9
  <2>2. CASE k \in {2, 5}
    BY <1>6, <1>v, <2>2
  <2>3. CASE k = 3
    BY <1>1, <1>6, <1>v, <2>3
  <2>4. CASE k = 4
    BY <1>4, <1>6, <1>v, <2>4
  <2> QED
    BY <2>1, <2>2, <2>3, <2>4
<1> QED
  BY <1>8, <1>9 DEF CountOK, c, files

(* The units of a walk over an index that counts files: of the walk itself, *)
(* which is of the vault or only verifies, or of at least those files.       *)
LEMMA RestoreTotal ==
  ASSUME NEW i, InputOK(i), i.files > 0, NEW t, t = RestoreUnits(i).total, t # 0
  PROVE  /\ t \in Nat
         /\ \/ t >= i.files
            \/ t = i.walk.total /\ (i.walk.needed = 0 \/ i.walk.total >= i.notes)
<1> DEFINE w == hydrateProgressAgainstVault(i.walk, i.notes)
           v == resolveSidecarHydrateProgress(i)
           raw == IF w.total > 0 THEN w ELSE v
<1>1. /\ w.total \in Nat
      /\ w.total > 0 => w.total = i.walk.total /\ (i.walk.needed = 0 \/ i.walk.total >= i.notes)
  BY DEF hydrateProgressAgainstVault, NoUnits, InputOK
<1>2. w.total = 0 => v.total = 0 \/ (v.total \in Nat /\ v.total >= i.files)
  BY DEF resolveSidecarHydrateProgress, hydrateProgressAgainstVault, NoUnits, Larger, InputOK
<1>3. t = IF raw.total = 0 THEN 0 ELSE raw.total
  BY DEF RestoreUnits, unitsFromCounts, NoUnits
<1> HIDE DEF w, v
<1> QED
  BY <1>1, <1>2, <1>3

(* A small pass over the index, as the footer would count it. *)
SmallPass(i, total) ==
  /\ i.goodEnough /\ i.files > 0 /\ total # 0 /\ isSmallCatchUpPass(total, i.files)

InTier(i) ==
  i.dropRecovering /\ i.walk.needed = 0 /\ isSmallCatchUpPass(i.walk.total, i.files)

SnapOK(i, rep, snap) ==
  ~rep.quiet =>
    /\ snap.phase = "embed" => rep.health \in {"updating", "indexing"}
    /\ rep.mode \in {"ok", "none"} => snap.job = NoJob
    /\ /\ rep.health \in {"updating", "indexing"}
       /\ SmallPass(i, snap.job.total) /\ snap.job.kind # "full"
       => rep.mode = "indexing" /\ InTier(i)

LEMMA SnapFacts ==
  ASSUME NEW i, InputOK(i), NEW cov, cov.total \in {0, i.notes}, NEW rep, PlainRep(i, rep)
  PROVE  SnapOK(i, rep, buildIndexProgressSnapshot(rep, i, cov))
<1> DEFINE ph == resolveIndexProgressPhase(rep, i)
           c == snapshotCounts(ph, Larger(i.files, 0), rep, i, cov)
           snap == buildIndexProgressSnapshot(rep, i, cov)
<1>1. /\ snap.phase = ph
      /\ snap.job = IF isWalk(ph, rep) \/ isEmbed(ph, rep, i)
                    THEN [done |-> c[1], total |-> c[2], kind |-> i.job.kind] ELSE NoJob
  BY DEF buildIndexProgressSnapshot, snapshotOf, snapshotWith
<1>2. SnapPhaseOK(i, rep, ph)
  BY SnapPhaseFacts
<1>3. /\ rep.mode \in {"full-reindex", "catching-up"} => rep.health = "indexing"
      /\ rep.mode = "recovering" => rep.health = "restoring"
      /\ rep.mode = "verifying" => rep.health = "starting"
      /\ rep.mode \in Uis => rep.health = rep.mode
      /\ rep.mode \in Modes
  BY HealthIs DEF PlainRep, Uis
<1> HIDE DEF snap, ph, c
<1> SUFFICES ASSUME ~rep.quiet
             PROVE  /\ snap.phase = "embed" => rep.health \in {"updating", "indexing"}
                    /\ rep.mode \in {"ok", "none"} => snap.job = NoJob
                    /\ /\ rep.health \in {"updating", "indexing"}
                       /\ SmallPass(i, snap.job.total) /\ snap.job.kind # "full"
                       => rep.mode = "indexing" /\ InTier(i)
  BY DEF SnapOK, snap
<1>4. ModeRep(i, rep)
  BY DEF PlainRep
<1>5. ASSUME rep.mode \in {"ok", "none"} PROVE ph \notin {"embed", "verify", "hydrate"}
  <2>1. /\ rep.health = rep.mode /\ rep.phase \in {"ready", "none"} /\ i.job.total = 0
    BY <1>3, <1>4, <1>5 DEF ModeRep, Uis
  <2> QED
    BY <1>5, <2>1, <1>2 DEF SnapPhaseOK, Walks
<1>6. ph = "embed" => rep.health \in {"updating", "indexing"}
  BY <1>2, <1>3, <1>5 DEF SnapPhaseOK, Modes, Uis
<1>7. rep.mode \in {"ok", "none"} => snap.job = NoJob
  BY <1>1, <1>5 DEF isWalk, isEmbed
<1>8. ASSUME rep.health \in {"updating", "indexing"},
             SmallPass(i, snap.job.total), snap.job.kind # "full"
      PROVE  rep.mode = "indexing" /\ InTier(i)
  <2> DEFINE t == snap.job.total
  <2>1. /\ snap.job.total = c[2] /\ i.job.kind # "full"
        /\ isWalk(ph, rep) \/ isEmbed(ph, rep, i)
    BY <1>1, <1>8 DEF SmallPass, NoJob
  <2>2. CountOK(ph, rep, i, cov, t)
    BY <1>8, <2>1, CountFacts DEF SmallPass, c
  <2> HIDE DEF t
  <2>3. /\ i.goodEnough /\ i.files > 0 /\ t # 0 /\ t > 0 /\ 50 * t < i.files
    BY <1>8 DEF SmallPass, isSmallCatchUpPass, t
  <2>4. /\ i.files \in Int /\ i.notes \in Nat /\ i.files <= i.notes /\ i.walk.total \in Nat
        /\ i.job.total \in Nat
    BY DEF InputOK
  <2>5. CASE isEmbed(ph, rep, i) /\ ~isWalk(ph, rep)
    <3>1. t # i.job.total
      BY <1>4, <2>1, <2>3, <2>4, CatchIs DEF ModeRep, isSmallCatchUpPass
    <3>2. CASE t = cov.total /\ cov.total > 0
      <4>1. t = i.notes
        BY <3>2
      <4> QED
        BY <2>3, <2>4, <4>1
    <3>3. CASE t \in Int /\ t >= i.files
      BY <2>3, <2>4, <3>3
    <3> QED
      BY <2>2, <2>5, <3>1, <3>2, <3>3 DEF CountOK
  <2>6. CASE isWalk(ph, rep)
    <3>1. t = rep.units.total /\ rep.units.total > 0 /\ ph \in {"hydrate", "verify"}
      BY <2>2, <2>6 DEF CountOK, isWalk
    <3>2. rep.mode \in {"updating", "full-reindex", "catching-up", "indexing"}
      BY <1>3, <1>8 DEF Modes, Uis
    <3>3. rep.mode # "updating" /\ rep.mode # "full-reindex"
      BY <1>4, <2>1, <3>1 DEF ModeRep, NoUnits
    <3>4. ph = "hydrate" /\ (rep.phase \in Walks \/ (rep.mode = "indexing" /\ i.hydrating))
      BY <1>2, <1>4, <1>8, <3>1, <3>2 DEF SnapPhaseOK, ModeRep
    <3>5. rep.mode = "indexing"
      BY <1>4, <3>2, <3>3, <3>4 DEF ModeRep
    <3>6. rep.units = RestoreUnits(i) /\ i.hydrating /\ WalkShown(i, "indexing") /\ ~i.waiting
      BY <1>4, <3>4, <3>5 DEF ModeRep, Walks
    <3>7. /\ t \in Nat
          /\ \/ t >= i.files
             \/ t = i.walk.total /\ (i.walk.needed = 0 \/ i.walk.total >= i.notes)
      BY <2>3, <3>1, <3>6, RestoreTotal
    <3>8. t = i.walk.total /\ i.walk.needed = 0 /\ i.walk.total < i.notes /\ i.walk.total > 0
      BY <2>3, <2>4, <3>7
    <3>9. i.dropRecovering
      BY <2>3, <2>4, <3>6, <3>8 DEF WalkShown, shortVerify, verifyLive, isVerifyOnlyWalk, Larger
    <3> QED
      BY <2>3, <3>5, <3>8, <3>9 DEF InTier, isSmallCatchUpPass
  <2> QED
    BY <2>1, <2>5, <2>6
<1> QED
  BY <1>1, <1>6, <1>7, <1>8

-----------------------------------------------------------------------------
(* The surfaces. *)
LEMMA BarIs ==
  ASSUME NEW i, NEW rep, HeldRep(i, rep) \/ PlainRep(i, rep), NEW snap,
         PlainRep(i, rep) => SnapOK(i, rep, snap)
  PROVE  paintFromSnapshot(rep, snap)
           = IF rep.quiet THEN "ok" ELSE IF rep.mode = "catch-up-paused" THEN "paused" ELSE rep.health
<1> DEFINE r == chromeRows(rep, snap)
<1>1. /\ (r[1][1] <=> rep.quiet) /\ (r[2][1] <=> rep.mode = "catch-up-paused")
      /\ (r[3][1] <=> snap.phase = "embed" /\ rep.health # "updating" /\ snap.total > 0) /\ r[4][1]
  BY DEF chromeRows
<1>v. r[1][2] = "ok" /\ r[2][2] = "paused" /\ r[3][2] = "indexing" /\ r[4][2] = rep.health
  BY DEF chromeRows
<1>2. DOMAIN r = 1 .. 4
  BY DEF chromeRows
<1>3. paintFromSnapshot(rep, snap) = Ranked(r)
  BY DEF paintFromSnapshot
<1> HIDE DEF r
<1>5. FirstHolds(r, 4)
  BY <1>1, <1>2, 4 \in Nat \ {0}, RankedIs
<1>6. PICK k \in 1 .. 4 : /\ r[k][1] /\ Ranked(r) = r[k][2]
                          /\ \A j \in 1 .. 4 : j < k => ~r[j][1]
  BY <1>5 DEF FirstHolds
<1>7. k = 1 \/ k = 2 \/ k = 3 \/ k = 4
  OBVIOUS
<1>8. CASE k = 3
  <2>1. ~r[1][1] /\ ~r[2][1] /\ r[3][1]
    BY <1>6, <1>8
  <2>2. ~rep.quiet /\ rep.mode # "catch-up-paused" /\ snap.phase = "embed" /\ rep.health # "updating"
    BY <1>1, <2>1
  <2>3. rep.health = "indexing"
    BY <2>2 DEF HeldRep, SnapOK
  <2> QED
    BY <1>3, <1>6, <1>8, <1>v, <2>2, <2>3
<1>9. CASE k # 3
  BY <1>1, <1>v, <1>3, <1>6, <1>7, <1>9
<1> QED
  BY <1>8, <1>9

(* The body of the modal offers to build an index only when nothing is there *)
(* and nobody is at work.                                                   *)
LEMMA BodyIs ==
  ASSUME NEW n, NEW rep, NEW snap, NEW i, NEW writing,
         indexLoadSpec(n, rep, snap, i, writing) = "onboarding"
  PROVE  /\ ~ (effectiveModalChunks(n, rep, i) > 0) /\ ~i.waiting /\ ~i.catchUpPending
         /\ effectiveModalChunks(n, rep, i) # Unknown
         /\ resolveIndexLoadPhase(i, writing) = "idle"
<1> DEFINE r == loadRows(n, rep, snap, i, writing)
           u == indexLoadSpec(n, rep, snap, i, writing)
           p == resolveIndexLoadPhase(i, writing)
           c == effectiveModalChunks(n, rep, i)
<1>1. /\ (r[1][1] <=> rep.health \in {"locked", "stuck"})
      /\ (r[3][1] <=> c > 0) /\ (r[4][1] <=> i.waiting) /\ (r[5][1] <=> p = "hydrating")
      /\ (r[6][1] <=> c = Unknown) /\ (r[7][1] <=> p = "indexing")
      /\ (r[8][1] <=> i.catchUpPending) /\ r[9][1]
  BY DEF loadRows
<1>v. /\ r[1][2] = rep.health /\ r[2][2] = "indexing" /\ r[3][2] = "resting"
      /\ r[4][2] = "restoring" /\ r[5][2] = "starting" /\ r[6][2] \in {"starting", "resting"}
      /\ r[7][2] = "indexing" /\ r[8][2] = "starting" /\ r[9][2] = "onboarding"
  BY DEF loadRows
<1>2. DOMAIN r = 1 .. 9
  BY DEF loadRows
<1>3. Ranked(r) = "onboarding"
  BY DEF indexLoadSpec
<1>4. p \in {"hydrating", "indexing", "idle"}
  BY DEF resolveIndexLoadPhase
<1> HIDE DEF r, u, p, c
<1>5. FirstHolds(r, 9)
  BY <1>1, <1>2, 9 \in Nat \ {0}, RankedIs
<1>6. PICK k \in 1 .. 9 : /\ r[k][1] /\ Ranked(r) = r[k][2]
                          /\ \A j \in 1 .. 9 : j < k => ~r[j][1]
  BY <1>5 DEF FirstHolds
<1>7. k = 9
  <2>1. k = 1 \/ k = 2 \/ k = 3 \/ k = 4 \/ k = 5 \/ k = 6 \/ k = 7 \/ k = 8 \/ k = 9
    OBVIOUS
  <2>2. k # 1
    BY <1>1, <1>3, <1>6, <1>v
  <2> QED
    BY <2>1, <2>2, <1>3, <1>6, <1>v
<1>8. ~r[3][1] /\ ~r[4][1] /\ ~r[5][1] /\ ~r[6][1] /\ ~r[7][1] /\ ~r[8][1]
  BY <1>6, <1>7
<1> QED
  BY <1>1, <1>4, <1>8 DEF p, c

(* The footer's row, once the pass is known.                               *)
FooterRow(pass, rep, snap, i) ==
  IF rep.health \in {"locked", "stuck", "restoring", "starting", "error"} THEN rep.health
  ELSE IF rep.mode = "catch-up-paused" THEN "up-to-date"
  ELSE IF pass = "quiet" THEN "up-to-date"
  ELSE IF pass = "moderate" THEN "updating"
  ELSE IF rep.health = "updating" THEN "updating"
  ELSE IF rep.mode = "catching-up" THEN "indexing"
  ELSE IF rep.health = "indexing"
       THEN IF isInventoryCompleteFlush(snap, i) THEN "updating" ELSE "indexing"
  ELSE IF rep.health = "none" THEN "no-index" ELSE "up-to-date"

(* The footer: which report and which pass lead to what it says. *)
LEMMA FooterIs ==
  ASSUME NEW load, NEW rep, NEW snap, NEW i, NEW writing
  PROVE  indexFooterStatus(load, rep, snap, i, writing, TRUE)
           = FooterRow(footerCatchUpPresentation(load, rep, snap, i, writing), rep, snap, i)
<1> DEFINE r == footerRows(load, rep, snap, i, writing, TRUE)
           pass == footerCatchUpPresentation(load, rep, snap, i, writing)
<1>1. /\ (r[1][1] <=> rep.health \in {"locked", "stuck", "restoring", "starting", "error"})
      /\ (r[2][1] <=> rep.mode = "catch-up-paused")
      /\ (r[3][1] <=> pass = "quiet") /\ (r[4][1] <=> pass = "moderate")
      /\ (r[5][1] <=> rep.health = "updating") /\ (r[6][1] <=> rep.mode = "catching-up")
      /\ (r[7][1] <=> rep.health = "indexing") /\ ~r[8][1] /\ (r[9][1] <=> rep.health = "none")
      /\ r[10][1]
  BY DEF footerRows
<1>v. /\ r[1][2] = rep.health /\ r[2][2] = "up-to-date" /\ r[3][2] = "up-to-date"
      /\ r[4][2] = "updating" /\ r[5][2] = "updating" /\ r[6][2] = "indexing"
      /\ r[7][2] = IF isInventoryCompleteFlush(snap, i) THEN "updating" ELSE "indexing"
      /\ r[9][2] = "no-index" /\ r[10][2] = "up-to-date"
  BY DEF footerRows
<1>2. DOMAIN r = 1 .. 10
  BY DEF footerRows
<1>3. indexFooterStatus(load, rep, snap, i, writing, TRUE) = Ranked(r)
  BY DEF indexFooterStatus
<1>4. SUFFICES indexFooterStatus(load, rep, snap, i, writing, TRUE) = FooterRow(pass, rep, snap, i)
  OBVIOUS
<1> HIDE DEF r, pass
<1>5. FirstHolds(r, 10)
  BY <1>1, <1>2, 10 \in Nat \ {0}, RankedIs
<1>6. PICK k \in 1 .. 10 : /\ r[k][1] /\ Ranked(r) = r[k][2]
                           /\ \A j \in 1 .. 10 : j < k => ~r[j][1]
  BY <1>5 DEF FirstHolds
<1>7. k = 1 \/ k = 2 \/ k = 3 \/ k = 4 \/ k = 5 \/ k = 6 \/ k = 7 \/ k = 8 \/ k = 9 \/ k = 10
  OBVIOUS
<1>8. CASE k \in {1, 2, 3}
  <2>1. r[k][1] /\ (k # 1 => ~r[1][1]) /\ (k = 3 => ~r[2][1])
    BY <1>6, <1>8
  <2> QED
    BY <1>1, <1>v, <1>3, <1>6, <1>8, <2>1 DEF FooterRow
<1>11. CASE k \in {4, 5}
  <2>1. r[k][1] /\ ~r[1][1] /\ ~r[2][1] /\ ~r[3][1] /\ (k = 5 => ~r[4][1])
    BY <1>6, <1>11
  <2> QED
    BY <1>1, <1>v, <1>3, <1>6, <1>11, <2>1 DEF FooterRow
<1>9. CASE k \in {6, 7}
  <2>1. ~r[1][1] /\ ~r[2][1] /\ ~r[3][1] /\ ~r[4][1] /\ ~r[5][1] /\ (k = 7 => ~r[6][1])
    BY <1>6, <1>9
  <2> QED
    BY <1>1, <1>v, <1>3, <1>6, <1>9, <2>1 DEF FooterRow
<1>10. CASE k \in {9, 10}
  <2>1. /\ ~r[1][1] /\ ~r[2][1] /\ ~r[3][1] /\ ~r[4][1] /\ ~r[5][1] /\ ~r[6][1] /\ ~r[7][1]
        /\ k = 10 => ~r[9][1]
    BY <1>6, <1>10
  <2> QED
    BY <1>1, <1>v, <1>3, <1>6, <1>10, <2>1 DEF FooterRow
<1> QED
  BY <1>1, <1>6, <1>7, <1>8, <1>9, <1>10, <1>11

(* The gate of the command line: no index, or a search that is served. *)
LEMMA GateIs ==
  ASSUME NEW n, NEW warm, NEW rep, NEW i, NEW g, g = resolveCliSearchGate(n, warm, rep, i)
  PROVE  /\ g = "no-index" => ~ (n > 0) /\ n # Unknown /\ rep.health # "indexing"
         /\ g = "serve" => n > 0
<1> DEFINE r == gateRows(n, warm, rep, i)
<1>1. /\ (r[1][1] <=> rep.health = "locked") /\ (r[2][1] <=> rep.health = "stuck")
      /\ (r[4][1] <=> n > 0)
      /\ (r[7][1] <=> rep.health = "indexing") /\ (r[8][1] <=> n = Unknown) /\ r[9][1]
  BY DEF gateRows
<1>v. /\ r[1][2] = "locked" /\ r[2][2] = (IF n > 0 THEN "serve" ELSE "stuck") /\ r[3][2] = "indexing"
      /\ r[4][2] \in {"warming", "serve"} /\ r[5][2] = "starting" /\ r[6][2] = "restoring"
      /\ r[7][2] = "indexing" /\ r[8][2] = "starting" /\ r[9][2] = "no-index"
  BY DEF gateRows
<1>2. DOMAIN r = 1 .. 9
  BY DEF gateRows
<1>3. g = Ranked(r)
  BY DEF resolveCliSearchGate
<1> HIDE DEF r
<1>5. FirstHolds(r, 9)
  BY <1>1, <1>2, 9 \in Nat \ {0}, RankedIs
<1>6. PICK k \in 1 .. 9 : /\ r[k][1] /\ Ranked(r) = r[k][2]
                          /\ \A j \in 1 .. 9 : j < k => ~r[j][1]
  BY <1>5 DEF FirstHolds
<1>7. k = 1 \/ k = 2 \/ k = 3 \/ k = 4 \/ k = 5 \/ k = 6 \/ k = 7 \/ k = 8 \/ k = 9
  OBVIOUS
<1>8. g = "serve" => n > 0
  <2>1. g = "serve" => k \in {2, 4}
    BY <1>v, <1>3, <1>6, <1>7
  <2> QED
    BY <2>1, <1>1, <1>v, <1>3, <1>6
<1>9. g = "no-index" => ~ (n > 0) /\ n # Unknown /\ rep.health # "indexing"
  <2>1. g = "no-index" => k = 9
    BY <1>v, <1>3, <1>6, <1>7
  <2> QED
    BY <2>1, <1>1, <1>6
<1> QED
  BY <1>8, <1>9

-----------------------------------------------------------------------------
(* What every state keeps: the counts are counts, a walk and a job are of a *)
(* number of notes, a job of nothing is no job, and the job of a catch-up   *)
(* is one that is still owed.                                              *)
JobOK == /\ job \in [done : Nat, total : Nat, kind : {"none", "full", "catchup"}]
         /\ job.total = 0 <=> job.kind = "none"

CountsOK == /\ stored \in FlCounts /\ inv \in FlCounts \cup {Unknown}
            /\ read \in FlCounts \cup {NoRead} /\ panel \in FlCounts \cup {NoRead}

WalkOK == /\ walk \in [done : Nat, total : Nat, needed : {0, Unknown}]
          /\ cover.total \in {0, FlNotes}

Owed == /\ "pending" \in DOMAIN fl
        /\ job.kind = "catchup" => fl.pending

FlInv == JobOK /\ CountsOK /\ WalkOK /\ Owed

LEMMA InputsAre ==
  ASSUME FlInv
  PROVE  InputOK(Inputs)
<1>1. /\ inv \in Int /\ inv <= FlNotes /\ FlNotes \in Nat \ {0}
  BY FlAssumption DEF FlInv, CountsOK, Unknown
<1> QED
  BY <1>1 DEF FlInv, JobOK, WalkOK, Inputs, InputOK

(* The surfaces in a state that the invariant holds of. *)
LEMMA SurfacesOfReport ==
  ASSUME FlInv
  PROVE  FlSurfacesAgree /\ FlDropHidden
<1> DEFINE i == Inputs
           rep == compute(i)
           snap == buildIndexProgressSnapshot(rep, i, cover)
           body == indexLoadSpec(stored, rep, snap, i, Writing)
           pass == footerCatchUpPresentation(body, rep, snap, i, Writing)
           n == IF stored <= 0 /\ inv > 0 THEN inv ELSE stored
           s == Shown(stored)
<1>1. InputOK(i)
  BY InputsAre
<1>2. /\ i.job = job /\ i.files = inv /\ i.chunks = inv /\ i.walk = walk /\ i.waiting = fl.waiting
      /\ i.dropRecovering = fl.dropRec /\ i.catchUpPending = fl.pending
      /\ i.goodEnough = fl.good /\ i.notes = FlNotes
      /\ (i.indexing <=> fl.running \/ fl.flushing \/ job.kind = "full")
      /\ (fl.dropRec => i.hydrating)
  BY DEF Inputs, DropRecovering
<1>3. HeldRep(i, rep) \/ PlainRep(i, rep)
  BY <1>1, ReportFacts
<1>4. cover.total \in {0, i.notes}
  BY <1>2 DEF FlInv, WalkOK
<1>5. PlainRep(i, rep) => SnapOK(i, rep, snap)
  BY <1>1, <1>4, SnapFacts
<1>6. /\ s.bar = paintFromSnapshot(rep, snap) /\ s.body = body
      /\ s.footer = indexFooterStatus(body, rep, snap, i, Writing, TRUE)
      /\ s.gate = resolveCliSearchGate(n, indexWarmPhase, rep, i)
  BY DEF Shown, ShownOf, ShownFrom, ShownBy
<1>6a. pass = footerCatchUpPresentation(body, rep, snap, i, Writing)
  OBVIOUS
<1> HIDE DEF s, snap, rep, i, body, pass
<1>7. s.bar = IF rep.quiet THEN "ok" ELSE IF rep.mode = "catch-up-paused" THEN "paused" ELSE rep.health
  BY <1>3, <1>5, <1>6, BarIs
<1>8a. indexFooterStatus(body, rep, snap, i, Writing, TRUE) = FooterRow(pass, rep, snap, i)
  BY FooterIs DEF pass
<1>8. s.footer
           = IF rep.health \in {"locked", "stuck", "restoring", "starting", "error"} THEN rep.health
             ELSE IF rep.mode = "catch-up-paused" THEN "up-to-date"
             ELSE IF pass = "quiet" THEN "up-to-date"
             ELSE IF pass = "moderate" THEN "updating"
             ELSE IF rep.health = "updating" THEN "updating"
             ELSE IF rep.mode = "catching-up" THEN "indexing"
             ELSE IF rep.health = "indexing"
                  THEN IF isInventoryCompleteFlush(snap, i) THEN "updating" ELSE "indexing"
             ELSE IF rep.health = "none" THEN "no-index" ELSE "up-to-date"
  BY <1>6, <1>8a DEF FooterRow
<1>9. /\ s.gate = "no-index" => ~ (n > 0) /\ n # Unknown /\ rep.health # "indexing"
      /\ s.gate = "serve" => n > 0
  BY <1>6, GateIs
<1>10. /\ stored \in Nat /\ inv \in Int /\ FlNotes \in Nat \ {0} /\ Unknown \in Int
  BY FlAssumption DEF FlInv, CountsOK, Unknown
(* The reports, told apart by what the bar shows. *)
<1>h. PlainRep(i, rep) =>
        /\ rep.mode \in {"full-reindex", "catching-up"} => rep.health = "indexing"
        /\ rep.mode = "recovering" => rep.health = "restoring"
        /\ rep.mode = "verifying" => rep.health = "starting"
        /\ rep.mode \in Uis => rep.health = rep.mode
        /\ rep.mode \in Modes
  BY HealthIs DEF PlainRep, Uis
<1>q. rep.quiet =>
        /\ PlainRep(i, rep) /\ rep.mode = "ok" /\ rep.health = "ok" /\ inv > 0
        /\ pass = "quiet" /\ s.bar = "ok" /\ s.footer = "up-to-date"
  <2> SUFFICES ASSUME rep.quiet
               PROVE  /\ PlainRep(i, rep) /\ rep.mode = "ok" /\ rep.health = "ok" /\ inv > 0
                      /\ pass = "quiet" /\ s.bar = "ok" /\ s.footer = "up-to-date"
    OBVIOUS
  <2>1. PlainRep(i, rep) /\ rep.mode = "ok" /\ inv > 0
    BY <1>2, <1>3 DEF HeldRep, PlainRep
  <2>2. rep.health = "ok"
    BY <1>h, <2>1 DEF Uis
  <2>3. pass = "quiet"
    BY DEF pass, footerCatchUpPresentation
  <2> QED
    BY <1>7, <1>8, <2>1, <2>2, <2>3
<1>p. HeldRep(i, rep) => s.bar = "paused" /\ s.footer = "up-to-date" /\ ~fl.dropRec
  BY <1>2, <1>7, <1>8 DEF HeldRep
(* A report of a mode that is not quiet. *)
<1>n. ASSUME PlainRep(i, rep), ~rep.quiet
      PROVE  /\ s.bar = rep.health
             /\ pass = "quiet" => \/ SmallPass(i, snap.job.total) /\ snap.job.kind # "full"
             /\ rep.mode \in {"ok", "none"} => pass = "none"
             /\ ModeRep(i, rep)
  <2>1. rep.mode # "catch-up-paused"
    BY <1>h, <1>n DEF Modes, Uis
  <2>2. s.bar = rep.health
    BY <1>7, <1>n, <2>1
  <2>3. pass = classifyCatchUpPresentation(i.goodEnough, i.files, snap.job,
         \/ resolveIndexLoadPhase(i, Writing) = "indexing" \/ body = "indexing"
         \/ rep.health \in {"indexing", "updating"} \/ snap.job.total > 0)
    BY <1>n DEF pass, footerCatchUpPresentation
  <2>4. pass = "quiet" => SmallPass(i, snap.job.total) /\ snap.job.kind # "full"
    <3>1. i.files \in Int
      BY <1>1 DEF InputOK
    <3> QED
      BY <2>3, <3>1 DEF classifyCatchUpPresentation, SmallPass
  <2>5. rep.mode \in {"ok", "none"} => pass = "none"
    <3>1. rep.mode \in {"ok", "none"} => snap.job.total = 0
      BY <1>5, <1>n DEF SnapOK, NoJob
    <3> QED
      BY <2>3, <3>1 DEF classifyCatchUpPresentation
  <2> QED
    BY <1>n, <2>2, <2>4, <2>5 DEF PlainRep
<1>t. InTier(i) => TierWalk
  BY <1>2 DEF InTier, TierWalk
<1>s. ASSUME PlainRep(i, rep), ~rep.quiet
      PROVE  /\ pass = "quiet" /\ rep.health \in {"updating", "indexing"} => rep.health = "indexing" /\ TierWalk
             /\ rep.mode = "ok" => inv > 0 /\ ~fl.dropRec
             /\ rep.mode = "none" => ~fl.dropRec
             /\ rep.mode = "updating" => inv > 0
  <2>1. pass = "quiet" /\ rep.health \in {"updating", "indexing"} => rep.mode = "indexing" /\ InTier(i)
    BY <1>5, <1>n, <1>s DEF SnapOK
  <2>2. rep.mode = "indexing" => rep.health = "indexing"
    BY <1>h, <1>s DEF Uis
  <2> QED
    BY <1>2, <1>n, <1>s, <1>t, <2>1, <2>2 DEF ModeRep
(* The modal's offer. *)
<1>b. ASSUME s.body = "onboarding"
      PROVE  /\ stored = 0 /\ s.bar # "ok"
             /\ s.bar \in {"indexing", "updating"} => inv > 0
  <2> DEFINE e == effectiveModalChunks(stored, rep, i)
  <2>1. /\ ~ (e > 0) /\ ~i.waiting /\ ~i.catchUpPending
        /\ resolveIndexLoadPhase(i, Writing) = "idle"
    BY <1>6, <1>b, BodyIs DEF body
  <2>2. stored = 0 /\ ~ (rep.health = "ok" /\ inv > 0)
    BY <1>2, <1>10, <2>1 DEF effectiveModalChunks
  <2>3. ~i.indexing
    BY <2>1 DEF resolveIndexLoadPhase
  <2>4. s.bar # "ok"
    <3>1. CASE rep.quiet
      BY <1>q, <2>2, <3>1
    <3>2. CASE ~rep.quiet /\ PlainRep(i, rep)
      <4>1. SUFFICES ASSUME rep.health = "ok" PROVE FALSE
        BY <1>n, <3>2
      <4>2. rep.mode = "ok"
        BY <1>h, <3>2, <4>1 DEF Modes, Uis
      <4> QED
        BY <1>s, <2>2, <3>2, <4>1, <4>2
    <3>3. CASE HeldRep(i, rep)
      BY <1>p, <3>3
    <3> QED
      BY <1>3, <3>1, <3>2, <3>3
  <2>5. ASSUME s.bar \in {"indexing", "updating"} PROVE inv > 0
    <3>1. PlainRep(i, rep) /\ ~rep.quiet
      BY <1>3, <1>q, <1>p, <2>5
    <3>2. rep.health \in {"indexing", "updating"} /\ ModeRep(i, rep)
      BY <1>n, <2>5, <3>1
    <3>3. rep.mode \in {"updating", "indexing", "full-reindex", "catching-up"}
      BY <1>h, <3>1, <3>2 DEF Modes, Uis
    <3>4. job.kind = "none" /\ job.total = 0
      BY <1>2, <2>1, <2>3 DEF FlInv, JobOK, Owed
    <3>5. rep.mode \in {"updating", "indexing"}
      BY <1>2, <2>1, <3>2, <3>3, <3>4 DEF ModeRep
    <3> QED
      BY <1>2, <2>3, <3>2, <3>4, <3>5 DEF ModeRep, jobActive
  <2> QED
    BY <2>2, <2>4, <2>5
(* The gate's refusal. *)
<1>g. ASSUME s.gate = "no-index" PROVE s.bar \notin {"ok", "indexing", "updating"}
  <2>1. ~ (n > 0) /\ n # Unknown /\ rep.health # "indexing"
    BY <1>9, <1>g
  <2>2. ~ (inv > 0)
    BY <1>10, <2>1
  <2>3. ~rep.quiet
    BY <1>q, <2>2
  <2>4. CASE PlainRep(i, rep)
    <3>1. rep.mode \notin {"ok", "updating"}
      BY <1>s, <2>2, <2>3, <2>4
    <3>2. rep.health \notin {"ok", "updating"}
      BY <1>h, <2>4, <3>1 DEF Modes, Uis
    <3> QED
      BY <1>n, <2>1, <2>3, <2>4, <3>2
  <2> QED
    BY <1>3, <1>p, <2>4
<1>a. /\ s.bar \in {"ok", "paused"} => s.footer = "up-to-date"
      /\ s.footer = "up-to-date" => s.bar \in {"ok", "paused"} \/ (s.bar = "indexing" /\ TierWalk)
      /\ s.bar = "indexing" => s.footer \in {"indexing", "updating"} \/ TierWalk
      /\ s.bar = "none" <=> s.footer = "no-index"
  <2>1. CASE rep.quiet
    BY <1>q, <2>1
  <2>2. CASE HeldRep(i, rep)
    BY <1>p, <2>2
  <2>3. CASE PlainRep(i, rep) /\ ~rep.quiet
    <3>1. rep.health \in Uis /\ rep.mode # "catch-up-paused"
      BY <1>h, <2>3 DEF Modes, Uis
    <3>2. rep.mode = "catching-up" => rep.health = "indexing"
      BY <1>h, <2>3
    <3>3. rep.health \in {"ok", "none"} => rep.mode = rep.health /\ pass = "none"
      BY <1>h, <1>n, <2>3 DEF Modes, Uis
    <3>4. s.bar = rep.health
      BY <1>n, <2>3
    <3>5. pass = "quiet" /\ rep.health \in {"updating", "indexing"} => rep.health = "indexing" /\ TierWalk
      BY <1>s, <2>3
    <3>6. CASE rep.health \in {"ok", "none"}
      BY <1>8, <3>1, <3>3, <3>4, <3>6
    <3>7. CASE rep.health \in {"updating", "indexing"}
      BY <1>8, <3>1, <3>2, <3>4, <3>5, <3>7
    <3>8. CASE rep.health \in {"locked", "stuck", "restoring", "starting", "error"}
      BY <1>8, <3>4, <3>8
    <3> QED
      BY <3>1, <3>6, <3>7, <3>8 DEF Uis
  <2> QED
    BY <1>3, <2>1, <2>2, <2>3
<1>d. ASSUME fl.dropRec, inv = 0
      PROVE  /\ s.bar \notin {"ok", "none", "updating", "paused"}
             /\ stored = 0 => s.gate # "serve"
  <2>1. ~rep.quiet /\ PlainRep(i, rep)
    BY <1>3, <1>q, <1>p, <1>d
  <2>2. rep.mode \notin {"ok", "none", "updating"}
    BY <1>s, <1>d, <2>1
  <2>3. s.bar = rep.health /\ rep.health \notin {"ok", "none", "updating", "paused"}
    BY <1>h, <1>n, <2>1, <2>2 DEF Modes, Uis
  <2>4. stored = 0 => s.gate # "serve"
    BY <1>9, <1>10, <1>d
  <2> QED
    BY <2>3, <2>4
<1> QED
  BY <1>a, <1>b, <1>g, <1>d DEF FlSurfacesAgree, FlDropHidden, StaleInventory, s
-----------------------------------------------------------------------------
(* What a method does to the flags: they keep their shape, and a catch-up   *)
(* that is owed stays owed.                                                *)
HasPending(f) == "pending" \in DOMAIN f
KeepsPending(f, g) == HasPending(f) => HasPending(g) /\ (f.pending => g.pending)

LEMMA KeepsThrough ==
  ASSUME NEW f, NEW g, NEW h, KeepsPending(f, g), KeepsPending(g, h)
  PROVE  KeepsPending(f, h)
BY DEF KeepsPending

(* The methods that resolve or raise a banner.                             *)
LEMMA BannersKeep ==
  ASSUME NEW f
  PROVE  /\ KeepsPending(f, markBootStuckResolved(f)) /\ KeepsPending(f, clearIndexingStalled(f))
         /\ KeepsPending(f, markIndexingStalled(f)) /\ KeepsPending(f, markStoreWedged(f))
         /\ \A ahead \in BOOLEAN : KeepsPending(f, applyPeerAheadBanner(f, ahead))
         /\ KeepsPending(f, versionHealed(f))
<1>1. KeepsPending(f, markBootStuckResolved(f))
  BY DEF KeepsPending, HasPending, markBootStuckResolved
<1>2. KeepsPending(f, clearIndexingStalled(f))
  BY DEF KeepsPending, HasPending, clearIndexingStalled
<1>3. KeepsPending(f, markIndexingStalled(f))
  BY DEF KeepsPending, HasPending, markIndexingStalled
<1>4. KeepsPending(f, markStoreWedged(f))
  BY DEF KeepsPending, HasPending, markStoreWedged
<1>5. ASSUME NEW ahead \in BOOLEAN PROVE KeepsPending(f, applyPeerAheadBanner(f, ahead))
  BY DEF KeepsPending, HasPending, applyPeerAheadBanner
<1>6. KeepsPending(f, versionHealed(f))
  BY DEF KeepsPending, HasPending, versionHealed
<1> QED
  BY <1>1, <1>2, <1>3, <1>4, <1>5, <1>6

(* The drop, the index that is good enough, the wait and the fleet.        *)
LEMMA MarksKeep ==
  ASSUME NEW f
  PROVE  /\ KeepsPending(f, noteIndexDropped(f)) /\ KeepsPending(f, markIndexGoodEnough(f))
         /\ KeepsPending(f, clearWait(f)) /\ KeepsPending(f, noteFleet(f))
         /\ \A r : KeepsPending(f, applySidecarWait(f, r))
         /\ KeepsPending(f, refreshSidecarFleet(f)) /\ KeepsPending(f, consumerComplete(f))
<1>1. KeepsPending(f, noteIndexDropped(f))
  BY DEF KeepsPending, HasPending, noteIndexDropped
<1>2. ASSUME NEW g PROVE KeepsPending(g, markIndexGoodEnough(g))
  <2> DEFINE h == [g EXCEPT !.good = TRUE, !.dropRec = FALSE, !.booting = FALSE]
  <2>1. KeepsPending(g, h)
    BY DEF KeepsPending, HasPending
  <2>2. markIndexGoodEnough(g) \in {g, markBootStuckResolved(h)}
    BY DEF markIndexGoodEnough
  <2> HIDE DEF h
  <2>3. KeepsPending(g, markBootStuckResolved(h)) /\ KeepsPending(g, g)
    BY <2>1, BannersKeep, KeepsThrough DEF KeepsPending
  <2> QED
    BY <2>2, <2>3
<1>3. ASSUME NEW g PROVE KeepsPending(g, clearWait(g))
  BY DEF KeepsPending, HasPending, clearWait
<1>4. KeepsPending(f, noteFleet(f))
  BY DEF KeepsPending, HasPending, noteFleet
<1>5. ASSUME NEW r PROVE KeepsPending(f, applySidecarWait(f, r))
  BY DEF KeepsPending, HasPending, applySidecarWait
<1>6. KeepsPending(f, refreshSidecarFleet(f))
  <2> DEFINE g == noteFleet(f)
  <2>1. KeepsPending(f, g)
    BY <1>4
  <2>2. refreshSidecarFleet(f) =
          IF fleet = "waiting"
          THEN [g EXCEPT !.waiting = TRUE, !.peerSync = TRUE,
                         !.health = IF @ = "degraded" /\ g.reason = "version" THEN "recovering" ELSE @]
          ELSE [g EXCEPT !.waiting = @ /\ fleet # "ready"]
    BY DEF refreshSidecarFleet
  <2> HIDE DEF g
  <2>3. KeepsPending(g, refreshSidecarFleet(f))
    BY <2>2 DEF KeepsPending, HasPending
  <2> QED
    BY <2>1, <2>3, KeepsThrough
<1>7. KeepsPending(f, consumerComplete(f))
  <2> DEFINE g == noteFleet(f)
             h == clearIndexingStalled(g)
             k == clearWait(h)
  <2>1. /\ KeepsPending(f, g) /\ KeepsPending(g, h) /\ KeepsPending(h, k)
        /\ KeepsPending(k, markIndexGoodEnough(k)) /\ KeepsPending(h, markBootStuckResolved(h))
    BY <1>2, <1>3, <1>4, BannersKeep
  <2>2. consumerComplete(f) \in {g, markIndexGoodEnough(k), markBootStuckResolved(h)}
    BY DEF consumerComplete
  <2> HIDE DEF g, h, k
  <2>3. KeepsPending(f, h)
    BY <2>1, KeepsThrough
  <2>4. KeepsPending(f, k)
    BY <2>1, <2>3, KeepsThrough
  <2>5. KeepsPending(f, markIndexGoodEnough(k)) /\ KeepsPending(f, markBootStuckResolved(h))
    BY <2>1, <2>3, <2>4, KeepsThrough
  <2> QED
    BY <2>1, <2>2, <2>5
<1> QED
  BY <1>1, <1>2, <1>3, <1>4, <1>5, <1>6, <1>7

(* An abort that releases nothing, the rules after a boot, and the end of a *)
(* hydrate; an abort that releases keeps only the shape.                   *)
LEMMA AbortsKeep ==
  ASSUME NEW f
  PROVE  /\ KeepsPending(f, aborted(f, FALSE)) /\ (HasPending(f) => HasPending(aborted(f, TRUE)))
         /\ KeepsPending(f, postBoot(f)) /\ KeepsPending(fl, hydrated)
<1>1. ASSUME NEW g PROVE KeepsPending(g, aborted(g, FALSE))
  BY DEF KeepsPending, HasPending, aborted
<1>2. HasPending(f) => HasPending(aborted(f, TRUE))
  BY DEF HasPending, aborted
<1>3. ASSUME NEW g PROVE KeepsPending(g, postBoot(g))
  <2> DEFINE a == aborted(g, FALSE)
             h == IF stalePostBoot(g) THEN clearWait(a) ELSE g
  <2>1. KeepsPending(g, a) /\ KeepsPending(a, clearWait(a)) /\ KeepsPending(g, g)
    BY <1>1, MarksKeep DEF KeepsPending
  <2>2. postBoot(g) = [h EXCEPT !.decision = FALSE]
    BY DEF postBoot
  <2>3. h = clearWait(a) \/ h = g
    OBVIOUS
  <2> HIDE DEF a, h
  <2>4. KeepsPending(g, h)
    BY <2>1, <2>3, KeepsThrough
  <2>5. KeepsPending(h, postBoot(g))
    BY <2>2 DEF KeepsPending, HasPending
  <2> QED
    BY <2>4, <2>5, KeepsThrough
<1>4. KeepsPending(fl, hydrated)
  <2> DEFINE g == [fl EXCEPT !.hydrating = FALSE]
  <2>1. KeepsPending(fl, g) /\ KeepsPending(fl, fl)
    BY DEF KeepsPending, HasPending
  <2>2. hydrated \in {fl, postBoot(g)}
    BY DEF hydrated
  <2> HIDE DEF g
  <2>3. KeepsPending(fl, postBoot(g))
    BY <1>3, <2>1, KeepsThrough
  <2> QED
    BY <2>1, <2>2, <2>3
<1> QED
  BY <1>1, <1>2, <1>3, <1>4

(* So it is with a step after which the catch-up job, if any, is the one    *)
(* that was there.                                                         *)
LEMMA StaysOwed ==
  ASSUME Owed, KeepsPending(fl, fl'), job' = job \/ job' = NoJob
  PROVE  Owed'
BY DEF Owed, KeepsPending, HasPending, NoJob
(* The actions that edit the flags field by field.                         *)
LEMMA EditsOwe ==
  ASSUME Owed,
         \/ OpenFails \/ Opens \/ RetrySucceeds \/ IdentityVerdict
         \/ FullRefused \/ FullEnds
         \/ Edit \/ FlushBegins \/ FlushEnds \/ EnergySaver \/ DriftVerdict
  PROVE  Owed'
<1>1. ASSUME OpenFails \/ Opens \/ RetrySucceeds PROVE Owed'
  <2>1. KeepsPending(fl, fl') /\ job' = job
    BY <1>1 DEF OpenFails, Opens, RetrySucceeds, KeepsPending, HasPending
  <2> QED
    BY <2>1, StaysOwed
<1>2. ASSUME IdentityVerdict PROVE Owed'
  <2>1. KeepsPending(fl, fl') /\ job' = job
    BY <1>2 DEF IdentityVerdict, KeepsPending, HasPending
  <2> QED
    BY <2>1, StaysOwed
<1>3. ASSUME FullRefused PROVE Owed'
  <2> DEFINE f == noteFleet(fl)
  <2>1. KeepsPending(fl, f)
    BY MarksKeep
  <2>2. fl' = [f EXCEPT !.waiting = @ \/ fleet = "waiting", !.peerSync = TRUE] /\ job' = job
    BY <1>3 DEF FullRefused
  <2> HIDE DEF f
  <2>3. KeepsPending(f, fl')
    BY <2>2 DEF KeepsPending, HasPending
  <2> QED
    BY <2>1, <2>2, <2>3, KeepsThrough, StaysOwed
<1>4. ASSUME FullEnds PROVE Owed'
  <2>1. KeepsPending(fl, fl') /\ job' = NoJob
    BY <1>4 DEF FullEnds, KeepsPending, HasPending
  <2> QED
    BY <2>1, StaysOwed
<1>5. ASSUME Edit \/ FlushBegins \/ FlushEnds \/ EnergySaver PROVE Owed'
  <2>1. KeepsPending(fl, fl') /\ job' = job
    BY <1>5 DEF Edit, FlushBegins, FlushEnds, EnergySaver, KeepsPending, HasPending
  <2> QED
    BY <2>1, StaysOwed
<1>6. ASSUME DriftVerdict PROVE Owed'
  <2>1. KeepsPending(fl, fl') /\ job' = job
    BY <1>6 DEF DriftVerdict, KeepsPending, HasPending
  <2> QED
    BY <2>1, StaysOwed
<1> QED
  BY <1>1, <1>2, <1>3, <1>4, <1>5, <1>6

(* The actions that leave the flags alone.                                 *)
LEMMA OthersOwe ==
  ASSUME Owed,
         \/ TouchEnds \/ PanelReads \/ PanelShows \/ WalkMoves \/ PeerArrives
         \/ PeriodicReconcile \/ FullWipes \/ FullAdvances \/ FullFails
  PROVE  Owed'
<1>1. KeepsPending(fl, fl)
  BY DEF KeepsPending
<1>2. ASSUME TouchEnds \/ PanelReads \/ PanelShows \/ WalkMoves PROVE Owed'
  <2>1. fl' = fl /\ job' = job
    BY <1>2 DEF TouchEnds, PanelReads, PanelShows, WalkMoves
  <2> QED
    BY <1>1, <2>1, StaysOwed
<1>3. ASSUME PeerArrives \/ PeriodicReconcile \/ FullWipes PROVE Owed'
  <2>1. fl' = fl /\ job' = job
    BY <1>3 DEF PeerArrives, PeriodicReconcile, FullWipes
  <2> QED
    BY <1>1, <2>1, StaysOwed
<1>4. ASSUME FullAdvances PROVE Owed'
  <2>1. fl' = fl /\ job' = [job EXCEPT !.done = stored']
    BY <1>4 DEF FullAdvances
  <2>2. job'.kind = job.kind
    BY <2>1
  <2> QED
    BY <2>1, <2>2 DEF Owed
<1>5. ASSUME FullFails PROVE Owed'
  <2>1. fl' = fl /\ job' = NoJob
    BY <1>5 DEF FullFails
  <2> QED
    BY <1>1, <2>1, StaysOwed
<1> QED
  BY <1>2, <1>3, <1>4, <1>5

(* The boot, the hydrates and the count that is read again.                *)
LEMMA BootsOwe ==
  ASSUME Owed,
         \/ RetriesExhausted \/ IdentityMatches \/ IdentityRebuilds \/ RebuildEnds
         \/ ReconcileEnds \/ BootCompletes \/ BootWatchdog \/ TouchTimesOut
  PROVE  Owed'
<1>0. KeepsPending(fl, fl)
  BY DEF KeepsPending
<1>1. ASSUME RetriesExhausted PROVE Owed'
  <2>1. fl' = markBootStuckResolved(fl) /\ job' = job
    BY <1>1 DEF RetriesExhausted
  <2> QED
    BY <2>1, BannersKeep, StaysOwed
<1>2. ASSUME IdentityMatches PROVE Owed'
  <2> DEFINE f == IF FlSidecar /\ stored > 0 THEN versionHealed(fl) ELSE fl
  <2>1. fl' = [f EXCEPT !.hydrating = TRUE] /\ job' = job
    BY <1>2 DEF IdentityMatches
  <2>2. KeepsPending(fl, f)
    BY <1>0, BannersKeep
  <2> HIDE DEF f
  <2>3. KeepsPending(f, fl')
    BY <2>1 DEF KeepsPending, HasPending
  <2> QED
    BY <2>1, <2>2, <2>3, KeepsThrough, StaysOwed
<1>3. ASSUME IdentityRebuilds PROVE Owed'
  <2> DEFINE f == [fl EXCEPT !.hydrating = TRUE]
  <2>1. fl' = noteIndexDropped(f) /\ job' = job
    BY <1>3 DEF IdentityRebuilds
  <2>2. KeepsPending(fl, f)
    BY DEF KeepsPending, HasPending
  <2> HIDE DEF f
  <2>3. KeepsPending(f, fl')
    BY <2>1, MarksKeep
  <2> QED
    BY <2>1, <2>2, <2>3, KeepsThrough, StaysOwed
<1>4. ASSUME RebuildEnds PROVE Owed'
  <2>1. PICK n \in FlCounts \ {0} :
          fl' = versionHealed(applySidecarWait(hydrated,
                  [waiting |-> FALSE, hydrated |-> n, accepted |-> 1, skipped |-> 0]))
    BY <1>4 DEF RebuildEnds
  <2> DEFINE f == applySidecarWait(hydrated,
                    [waiting |-> FALSE, hydrated |-> n, accepted |-> 1, skipped |-> 0])
  <2>2. KeepsPending(fl, hydrated) /\ KeepsPending(hydrated, f)
    BY AbortsKeep, MarksKeep
  <2>3. fl' = versionHealed(f) /\ job' = job
    BY <1>4, <2>1 DEF RebuildEnds
  <2> HIDE DEF f
  <2>4. KeepsPending(f, fl')
    BY <2>3, BannersKeep
  <2>5. KeepsPending(fl, f)
    BY <2>2, KeepsThrough
  <2> QED
    BY <2>3, <2>4, <2>5, KeepsThrough, StaysOwed
<1>5. ASSUME ReconcileEnds PROVE Owed'
  <2>1. PICK ahead \in BOOLEAN, n \in After :
          \E r \in HydrateResults(n) \cup {[waiting |-> FALSE, hydrated |-> 0, accepted |-> 0, skipped |-> 0]} :
            LET f == IF FlSidecar THEN applySidecarWait(hydrated, r) ELSE hydrated
                g == IF work = "pollhydrate" THEN refreshSidecarFleet(f) ELSE f
            IN fl' = IF work = "pollhydrate" /\ (g.waiting \/ g.hydrating) THEN g
                     ELSE applyPeerAheadBanner(g, ahead)
    BY <1>5 DEF ReconcileEnds
  <2>2. PICK r :
            LET f == IF FlSidecar THEN applySidecarWait(hydrated, r) ELSE hydrated
                g == IF work = "pollhydrate" THEN refreshSidecarFleet(f) ELSE f
            IN fl' = IF work = "pollhydrate" /\ (g.waiting \/ g.hydrating) THEN g
                     ELSE applyPeerAheadBanner(g, ahead)
    BY <2>1
  <2> DEFINE f == IF FlSidecar THEN applySidecarWait(hydrated, r) ELSE hydrated
             g == IF work = "pollhydrate" THEN refreshSidecarFleet(f) ELSE f
  <2>3. fl' \in {g, applyPeerAheadBanner(g, ahead)}
    BY <2>2
  <2>4. KeepsPending(fl, hydrated) /\ KeepsPending(hydrated, applySidecarWait(hydrated, r))
    BY AbortsKeep, MarksKeep
  <2>5. KeepsPending(fl, f)
    BY <2>4, KeepsThrough
  <2> HIDE DEF f
  <2>6. KeepsPending(f, refreshSidecarFleet(f))
    BY MarksKeep
  <2>7. KeepsPending(fl, g)
    BY <2>5, <2>6, KeepsThrough
  <2> HIDE DEF g
  <2>8. KeepsPending(g, applyPeerAheadBanner(g, ahead))
    BY BannersKeep
  <2>9. KeepsPending(fl, fl')
    BY <2>3, <2>7, <2>8, KeepsThrough
  <2>10. job' = job
    BY <1>5 DEF ReconcileEnds
  <2> QED
    BY <2>9, <2>10, StaysOwed
<1>6. ASSUME BootCompletes PROVE Owed'
  <2> DEFINE e == IF FlSidecar THEN refreshSidecarFleet(fl) ELSE fl
             f == consumerComplete(e)
             g == IF /\ boot = "complete" /\ ~f.good /\ ~f.waiting /\ ~f.dropRec
                     /\ inv # 0
                  THEN markIndexGoodEnough(f) ELSE f
             H(p) == [g EXCEPT !.booting = FALSE,
                               !.pending = @ \/ (p /\ boot = "complete" /\ ~g.waiting /\ ~g.hydrating)]
  <2>1. PICK p \in BOOLEAN :
          fl' = [postBoot(H(p)) EXCEPT !.dropRec = @ /\ ~fl.recovering, !.recovering = FALSE]
    BY <1>6 DEF BootCompletes
  <2>2. KeepsPending(fl, e)
    BY <1>0, MarksKeep
  <2> HIDE DEF e
  <2>3. KeepsPending(fl, f)
    BY <2>2, MarksKeep, KeepsThrough
  <2> HIDE DEF f
  <2>4. KeepsPending(f, markIndexGoodEnough(f))
    BY MarksKeep
  <2>5. KeepsPending(fl, g)
    BY <2>3, <2>4, KeepsThrough
  <2> HIDE DEF g
  <2>6. KeepsPending(g, H(p))
    BY DEF KeepsPending, HasPending
  <2> HIDE DEF H
  <2> DEFINE k == postBoot(H(p))
  <2>7. KeepsPending(H(p), k)
    BY AbortsKeep
  <2>8. fl' = [k EXCEPT !.dropRec = @ /\ ~fl.recovering, !.recovering = FALSE]
    BY <2>1
  <2> HIDE DEF k
  <2>9. KeepsPending(k, fl')
    BY <2>8 DEF KeepsPending, HasPending
  <2>10. KeepsPending(fl, k)
    BY <2>5, <2>6, <2>7, KeepsThrough
  <2>11. KeepsPending(fl, fl')
    BY <2>9, <2>10, KeepsThrough
  <2>12. job' = job
    BY <1>6 DEF BootCompletes
  <2> QED
    BY <2>11, <2>12, StaysOwed
<1>7. ASSUME BootWatchdog PROVE Owed'
  <2> DEFINE a == clearWait(aborted(fl, FALSE))
             m == markBootStuckResolved(fl)
             t == [fl EXCEPT !.bootStuck = TRUE, !.reason = OrStuck(@)]
  <2>1. KeepsPending(fl, t)
    BY DEF KeepsPending, HasPending
  <2>2. KeepsPending(fl, m)
    BY BannersKeep
  <2>3. KeepsPending(fl, aborted(fl, FALSE)) /\ KeepsPending(aborted(fl, FALSE), a)
    BY AbortsKeep, MarksKeep
  <2>4. fl' \in {fl, markIndexGoodEnough(a), markIndexGoodEnough(fl), clearIndexingStalled(m), t}
    BY <1>7 DEF BootWatchdog
  <2> HIDE DEF a, m, t
  <2>5. KeepsPending(fl, a)
    BY <2>3, KeepsThrough
  <2>6. /\ KeepsPending(a, markIndexGoodEnough(a)) /\ KeepsPending(fl, markIndexGoodEnough(fl))
        /\ KeepsPending(m, clearIndexingStalled(m))
    BY MarksKeep, BannersKeep
  <2>7. KeepsPending(fl, markIndexGoodEnough(a)) /\ KeepsPending(fl, clearIndexingStalled(m))
    BY <2>2, <2>5, <2>6, KeepsThrough
  <2>8. KeepsPending(fl, fl')
    BY <1>0, <2>1, <2>4, <2>6, <2>7
  <2>9. job' = job
    BY <1>7 DEF BootWatchdog
  <2> QED
    BY <2>8, <2>9, StaysOwed
<1>8. ASSUME TouchTimesOut PROVE Owed'
  <2>1. fl' \in {fl, markStoreWedged(fl)} /\ job' = job
    BY <1>8 DEF TouchTimesOut
  <2>2. KeepsPending(fl, fl')
    BY <1>0, <2>1, BannersKeep
  <2> QED
    BY <2>1, <2>2, StaysOwed
<1> QED
  BY <1>1, <1>2, <1>3, <1>4, <1>5, <1>6, <1>7, <1>8
(* The recovery after a drop, and the consumer that is served.             *)
LEMMA DropsOwe ==
  ASSUME Owed, DropPlans \/ DropHydrates \/ DropSettles \/ maybeCompleteConsumerHydrateBoot
  PROVE  Owed'
<1>0. KeepsPending(fl, fl)
  BY DEF KeepsPending
<1>1. ASSUME DropPlans PROVE Owed'
  <2> DEFINE n == noteFleet(fl)
             f == [n EXCEPT !.dropRec = TRUE, !.good = FALSE,
                            !.waiting = FlSidecar, !.peerSync = @ \/ FlSidecar]
  <2>1. KeepsPending(fl, n)
    BY MarksKeep
  <2>2. fl' \in {f, Hydrating(f)} /\ job' = job
    BY <1>1 DEF DropPlans
  <2> HIDE DEF n
  <2>3. KeepsPending(n, f)
    BY DEF KeepsPending, HasPending
  <2>4. KeepsPending(fl, f)
    BY <2>1, <2>3, KeepsThrough
  <2> HIDE DEF f
  <2>5. KeepsPending(f, Hydrating(f))
    BY DEF KeepsPending, HasPending, Hydrating
  <2>6. KeepsPending(fl, fl')
    BY <2>2, <2>4, <2>5, KeepsThrough
  <2> QED
    BY <2>2, <2>6, StaysOwed
<1>2. ASSUME DropHydrates PROVE Owed'
  <2>1. fl' = hydrated \/ \E r : fl' = applySidecarWait(hydrated, r)
    BY <1>2 DEF DropHydrates
  <2>2. KeepsPending(fl, hydrated) /\ \A r : KeepsPending(hydrated, applySidecarWait(hydrated, r))
    BY AbortsKeep, MarksKeep
  <2>3. \A r : KeepsPending(fl, applySidecarWait(hydrated, r))
    BY <2>2, KeepsThrough
  <2>4. KeepsPending(fl, fl')
    BY <2>1, <2>2, <2>3
  <2>5. job' = job
    BY <1>2 DEF DropHydrates
  <2> QED
    BY <2>4, <2>5, StaysOwed
<1>3. ASSUME DropSettles PROVE Owed'
  <2> DEFINE f == clearWait(fl)
  <2>1. fl' \in {fl, markIndexGoodEnough(f)} /\ job' = job
    BY <1>3 DEF DropSettles, Become
  <2>2. KeepsPending(fl, f)
    BY MarksKeep
  <2> HIDE DEF f
  <2>3. KeepsPending(f, markIndexGoodEnough(f))
    BY MarksKeep
  <2>4. KeepsPending(fl, fl')
    BY <1>0, <2>1, <2>2, <2>3, KeepsThrough
  <2> QED
    BY <2>1, <2>4, StaysOwed
<1>4. ASSUME maybeCompleteConsumerHydrateBoot PROVE Owed'
  <2>1. fl' = consumerComplete(fl) /\ job' = job
    BY <1>4 DEF maybeCompleteConsumerHydrateBoot, Become
  <2> QED
    BY <2>1, MarksKeep, StaysOwed
<1> QED
  BY <1>1, <1>2, <1>3, <1>4

(* A rebuild, a reset, a recovery and a stall release the catch-up, and its *)
(* job goes with it; a catch-up begins when it is owed.                    *)
LEMMA TakeoversOwe ==
  ASSUME Owed,
         \/ FullBegins \/ ResetBegins \/ ForceResetFails \/ ForceResets
         \/ RecoverWedged \/ RecoverFromSettings \/ IndexingStalls
         \/ CatchUpBegins \/ CatchUpEnds
  PROVE  Owed'
<1>0. HasPending(fl) /\ HasPending(aborted(fl, TRUE)) /\ jobAborted.kind # "catchup"
  BY AbortsKeep DEF Owed, HasPending, jobAborted, NoJob
<1>1. ASSUME FullBegins PROVE Owed'
  <2> DEFINE n == noteFleet(fl)
             busy == fl.running \/ fl.hydrating \/ fl.pending
             f == IF busy THEN aborted(n, TRUE) ELSE n
             g == [f EXCEPT !.pending = FALSE, !.dirty = 0]
             h == clearIndexingStalled(g)
  <2>1. HasPending(n)
    BY <1>0, MarksKeep DEF KeepsPending
  <2>2. fl' = noteIndexDropped(h)
    BY <1>1 DEF FullBegins
  <2> HIDE DEF n
  <2>3. HasPending(f)
    BY <2>1, AbortsKeep
  <2> HIDE DEF f
  <2>4. HasPending(g)
    BY <2>3 DEF HasPending
  <2> HIDE DEF g
  <2>5. HasPending(h)
    BY <2>4, BannersKeep DEF KeepsPending
  <2> HIDE DEF h
  <2>6. HasPending(fl')
    BY <2>2, <2>5, MarksKeep DEF KeepsPending
  <2>7. job'.kind = "full"
    BY <1>1 DEF FullBegins
  <2> QED
    BY <2>6, <2>7 DEF Owed, HasPending
<1>2. ASSUME ResetBegins PROVE Owed'
  <2> DEFINE f == [fl EXCEPT !.dropRec = TRUE]
             g == aborted(f, TRUE)
  <2>1. HasPending(f)
    BY <1>0 DEF HasPending
  <2>2. fl' = markBootStuckResolved(g) /\ job' = jobAborted
    BY <1>2 DEF ResetBegins
  <2> HIDE DEF f
  <2>3. HasPending(g)
    BY <2>1, AbortsKeep
  <2> HIDE DEF g
  <2>4. HasPending(fl')
    BY <2>2, <2>3, BannersKeep DEF KeepsPending
  <2> QED
    BY <1>0, <2>2, <2>4 DEF Owed, HasPending
<1>3. ASSUME ForceResetFails PROVE Owed'
  <2>1. fl' = noteIndexDropped(fl) /\ job' = job
    BY <1>3 DEF ForceResetFails
  <2> QED
    BY <2>1, MarksKeep, StaysOwed
<1>4. ASSUME ForceResets PROVE Owed'
  <2> DEFINE f == [fl EXCEPT !.locked = FALSE, !.wedged = FALSE]
             g == markBootStuckResolved(f)
             h == clearIndexingStalled(g)
  <2>1. KeepsPending(fl, f)
    BY DEF KeepsPending, HasPending
  <2>2. fl' = noteIndexDropped(h) /\ job' = job
    BY <1>4 DEF ForceResets
  <2> HIDE DEF f
  <2>3. KeepsPending(f, g) /\ KeepsPending(g, h) /\ KeepsPending(h, noteIndexDropped(h))
    BY BannersKeep, MarksKeep
  <2> HIDE DEF g, h
  <2>4. KeepsPending(fl, h)
    BY <2>1, <2>3, KeepsThrough
  <2>5. KeepsPending(fl, fl')
    BY <2>2, <2>3, <2>4, KeepsThrough
  <2> QED
    BY <2>2, <2>5, StaysOwed
<1>5. ASSUME RecoverWedged PROVE Owed'
  <2> DEFINE f == [fl EXCEPT !.wedged = FALSE, !.bootStuck = FALSE, !.stalled = FALSE, !.pending = TRUE,
                             !.reason = IF @ = "stuck" THEN "none" ELSE @]
  <2>1. KeepsPending(fl, f)
    BY DEF KeepsPending, HasPending
  <2>2. fl' \in {markIndexGoodEnough(f), markBootStuckResolved(fl)} /\ job' = job
    BY <1>5 DEF RecoverWedged, Become
  <2> HIDE DEF f
  <2>3. KeepsPending(f, markIndexGoodEnough(f)) /\ KeepsPending(fl, markBootStuckResolved(fl))
    BY MarksKeep, BannersKeep
  <2>4. KeepsPending(fl, fl')
    BY <2>1, <2>2, <2>3, KeepsThrough
  <2> QED
    BY <2>2, <2>4, StaysOwed
<1>6. ASSUME RecoverFromSettings PROVE Owed'
  <2> DEFINE a == aborted(fl, TRUE)
             g == markBootStuckResolved(a)
             h == clearIndexingStalled(g)
  <2>1. /\ fl' = [h EXCEPT !.dropRec = TRUE, !.recovering = TRUE, !.cont = TRUE]
        /\ job' = jobAborted
    BY <1>6 DEF RecoverFromSettings
  <2>2. HasPending(a) /\ KeepsPending(a, g) /\ KeepsPending(g, h)
    BY <1>0, BannersKeep
  <2> HIDE DEF a, g, h
  <2>3. HasPending(h)
    BY <2>2 DEF KeepsPending
  <2>4. HasPending(fl')
    BY <2>1, <2>3 DEF HasPending
  <2> QED
    BY <1>0, <2>1, <2>4 DEF Owed, HasPending
<1>7. ASSUME IndexingStalls PROVE Owed'
  <2> DEFINE f == aborted(fl, TRUE)
             g == [f EXCEPT !.wedged = FALSE]
             h == clearIndexingStalled(g)
             k == [h EXCEPT !.pending = ~g.waiting]
  <2>1. HasPending(f)
    BY <1>0
  <2>2. fl' \in {k, markIndexingStalled(g), markStoreWedged(f)} /\ job' = jobAborted
    BY <1>7 DEF IndexingStalls
  <2> HIDE DEF f
  <2>3. HasPending(g)
    BY <2>1 DEF HasPending
  <2> HIDE DEF g
  <2>4. HasPending(h) /\ HasPending(markIndexingStalled(g)) /\ HasPending(markStoreWedged(f))
    BY <2>1, <2>3, BannersKeep DEF KeepsPending
  <2> HIDE DEF h
  <2>5. HasPending(k)
    BY <2>4 DEF HasPending
  <2> HIDE DEF k
  <2>6. HasPending(fl')
    BY <2>2, <2>4, <2>5
  <2> QED
    BY <1>0, <2>2, <2>6 DEF Owed, HasPending
<1>8. ASSUME CatchUpBegins PROVE Owed'
  <2>1. fl' = [fl EXCEPT !.running = TRUE] /\ fl.pending
    BY <1>8 DEF CatchUpBegins
  <2>2. HasPending(fl') /\ fl'.pending
    BY <1>0, <2>1 DEF HasPending
  <2> QED
    BY <2>2 DEF Owed, HasPending
<1>9. ASSUME CatchUpEnds PROVE Owed'
  <2>1. fl' = [fl EXCEPT !.running = FALSE, !.pending = FALSE] /\ job'.kind = "none"
    BY <1>9 DEF CatchUpEnds, NoJob
  <2>2. HasPending(fl')
    BY <1>0, <2>1 DEF HasPending
  <2> QED
    BY <2>1, <2>2 DEF Owed, HasPending
<1> QED
  BY <1>1, <1>2, <1>3, <1>4, <1>5, <1>6, <1>7, <1>8, <1>9

(* The job is a job of a number of notes, and a job of nothing is none.    *)
LEMMA JobKeeps ==
  ASSUME JobOK, CountsOK, FlNext
  PROVE  JobOK'
<1>0. FlCounts \subseteq Nat /\ FlNotes \in Nat \ {0}
  BY FlAssumption
<1>1. ASSUME job' = job \/ job' = NoJob PROVE JobOK'
  BY <1>1 DEF JobOK, NoJob
<1>2. ASSUME \/ OpenFails \/ Opens \/ RetrySucceeds \/ RetriesExhausted
             \/ IdentityMatches \/ IdentityRebuilds \/ RebuildEnds \/ IdentityVerdict
             \/ ReconcileEnds \/ BootCompletes \/ BootWatchdog
      PROVE  job' = job
  BY <1>2 DEF OpenFails, Opens, RetrySucceeds, RetriesExhausted, IdentityMatches, IdentityRebuilds,
              RebuildEnds, IdentityVerdict, ReconcileEnds, BootCompletes, BootWatchdog
<1>3. ASSUME \/ TouchEnds \/ TouchTimesOut \/ PanelReads \/ PanelShows \/ WalkMoves
             \/ DropPlans \/ DropHydrates \/ DropSettles \/ maybeCompleteConsumerHydrateBoot
             \/ PeerArrives \/ PeriodicReconcile
      PROVE  job' = job
  BY <1>3 DEF TouchEnds, TouchTimesOut, PanelReads, PanelShows, WalkMoves, DropPlans, DropHydrates,
              DropSettles, maybeCompleteConsumerHydrateBoot, PeerArrives, PeriodicReconcile
<1>4. ASSUME \/ FullRefused \/ FullWipes \/ ForceResetFails \/ ForceResets \/ RecoverWedged
             \/ Edit \/ FlushBegins \/ FlushEnds \/ EnergySaver \/ DriftVerdict
      PROVE  job' = job
  BY <1>4 DEF FullRefused, FullWipes, ForceResetFails, ForceResets, RecoverWedged,
              Edit, FlushBegins, FlushEnds, EnergySaver, DriftVerdict
<1>5. ASSUME FullEnds \/ FullFails \/ CatchUpEnds \/ ResetBegins \/ RecoverFromSettings \/ IndexingStalls
      PROVE  job' = job \/ job' = NoJob
  BY <1>5 DEF FullEnds, FullFails, CatchUpEnds, ResetBegins, RecoverFromSettings, IndexingStalls, jobAborted
<1>6. ASSUME FullBegins PROVE JobOK'
  <2>1. job' = [done |-> 0, total |-> FlNotes, kind |-> "full"]
    BY <1>6 DEF FullBegins
  <2> QED
    BY <1>0, <2>1 DEF JobOK
<1>7. ASSUME FullAdvances PROVE JobOK'
  <2>1. job' = [job EXCEPT !.done = stored'] /\ stored' \in Nat
    BY <1>0, <1>7 DEF FullAdvances
  <2> QED
    BY <2>1 DEF JobOK
<1>8. ASSUME CatchUpBegins PROVE JobOK'
  <2>1. PICK total \in {1, FlNotes} : job' = [done |-> 0, total |-> total, kind |-> "catchup"]
    BY <1>8 DEF CatchUpBegins
  <2> QED
    BY <1>0, <2>1 DEF JobOK
<1> QED
  BY <1>1, <1>2, <1>3, <1>4, <1>5, <1>6, <1>7, <1>8 DEF FlNext
(* The counts stay counts: what is read and what is published is something  *)
(* the store has held.                                                     *)
LEMMA CountsKeep ==
  ASSUME CountsOK, FlNext
  PROVE  CountsOK'
<1>0. 0 \in FlCounts /\ FlNotes \in FlCounts /\ After \subseteq FlCounts
  BY FlAssumption DEF After
<1>2. ASSUME \/ OpenFails \/ RetrySucceeds \/ RetriesExhausted \/ IdentityMatches \/ IdentityVerdict
             \/ WalkMoves \/ DropPlans \/ PeerArrives \/ PeriodicReconcile
      PROVE  CountsOK'
  <2>1. UNCHANGED <<stored, inv, read, panel>>
    BY <1>2 DEF OpenFails, RetrySucceeds, RetriesExhausted, IdentityMatches, IdentityVerdict,
                WalkMoves, DropPlans, PeerArrives, PeriodicReconcile
  <2> QED
    BY <2>1 DEF CountsOK
<1>3. ASSUME \/ FullRefused \/ ResetBegins \/ RecoverFromSettings
             \/ CatchUpBegins \/ Edit \/ FlushBegins \/ EnergySaver \/ DriftVerdict
      PROVE  CountsOK'
  <2>1. UNCHANGED <<stored, inv, read, panel>>
    BY <1>3 DEF FullRefused, ResetBegins, RecoverFromSettings,
                CatchUpBegins, Edit, FlushBegins, EnergySaver, DriftVerdict
  <2> QED
    BY <2>1 DEF CountsOK
(* The store is what it was, and what is read is what it holds.            *)
<1>4. ASSUME Opens \/ BootCompletes \/ BootWatchdog \/ FullFails \/ FlushEnds PROVE CountsOK'
  <2>1. stored' = stored /\ inv' = inv /\ panel' = panel /\ read' \in {read, stored, stored'}
    BY <1>4 DEF Opens, BootCompletes, BootWatchdog, FullFails, FlushEnds, Touch
  <2> QED
    BY <2>1 DEF CountsOK
<1>5. ASSUME DropSettles \/ maybeCompleteConsumerHydrateBoot PROVE CountsOK'
  <2>1. stored' = stored /\ inv' = inv /\ panel' = panel /\ read' \in {read, stored'}
    BY <1>5 DEF DropSettles, maybeCompleteConsumerHydrateBoot, Become
  <2> QED
    BY <2>1 DEF CountsOK
<1>6. ASSUME TouchTimesOut \/ PanelReads PROVE CountsOK'
  <2>1. stored' = stored /\ inv' = inv /\ panel' \in {panel, stored} /\ read' \in {read, NoRead}
    BY <1>6 DEF TouchTimesOut, PanelReads
  <2> QED
    BY <2>1 DEF CountsOK
<1>7. ASSUME TouchEnds \/ PanelShows PROVE CountsOK'
  <2>1. \/ inv' = inv
        \/ inv' = read /\ read # NoRead
        \/ inv' = panel /\ panel # NoRead
    BY <1>7 DEF TouchEnds, PanelShows, retainIndexInventory
  <2>2. stored' = stored /\ panel' \in {panel, NoRead} /\ read' \in {read, NoRead}
    BY <1>7 DEF TouchEnds, PanelShows
  <2> QED
    BY <2>1, <2>2 DEF CountsOK
(* The store is emptied.                                                   *)
<1>8. ASSUME IdentityRebuilds \/ FullWipes \/ ForceResets PROVE CountsOK'
  <2>1. stored' = 0 /\ inv' \in {inv, 0} /\ panel' = panel /\ read' = read
    BY <1>8 DEF IdentityRebuilds, FullWipes, ForceResets
  <2> QED
    BY <1>0, <2>1 DEF CountsOK
<1>9. ASSUME ForceResetFails \/ FullBegins \/ RecoverWedged \/ IndexingStalls PROVE CountsOK'
  <2>1. stored' = stored /\ inv' \in {inv, 0, stored} /\ panel' = panel /\ read' \in {read, stored'}
    BY <1>9 DEF ForceResetFails, FullBegins, RecoverWedged, IndexingStalls, Become
  <2> QED
    BY <1>0, <2>1 DEF CountsOK
(* The store is filled.                                                    *)
<1>10. ASSUME RebuildEnds \/ FullEnds \/ CatchUpEnds \/ FullAdvances PROVE CountsOK'
  <2>1. stored' \in FlCounts /\ inv' = inv /\ panel' = panel /\ read' \in {read, stored}
    BY <1>0, <1>10 DEF RebuildEnds, FullEnds, CatchUpEnds, FullAdvances, Touch
  <2> QED
    BY <2>1 DEF CountsOK
<1>11. ASSUME ReconcileEnds PROVE CountsOK'
  <2>1. PICK n \in After : stored' = n /\ read' \in {read, n}
    BY <1>11 DEF ReconcileEnds
  <2>2. inv' = inv /\ panel' = panel
    BY <1>11 DEF ReconcileEnds
  <2> QED
    BY <1>0, <2>1, <2>2 DEF CountsOK
<1>12. ASSUME DropHydrates PROVE CountsOK'
  <2>1. /\ stored' = stored \/ stored' \in After
        /\ read' \in {read, stored}
    BY <1>12 DEF DropHydrates, Touch
  <2>2. inv' = inv /\ panel' = panel
    BY <1>12 DEF DropHydrates
  <2> QED
    BY <1>0, <2>1, <2>2 DEF CountsOK
<1> QED
  BY <1>2, <1>3, <1>4, <1>5, <1>6, <1>7, <1>8, <1>9, <1>10, <1>11, <1>12 DEF FlNext

(* A walk is of a number of notes, and the coverage that the settings tab   *)
(* shows is of the vault.                                                  *)
LEMMA WalkKeeps ==
  ASSUME WalkOK, CountsOK, FlNext
  PROVE  WalkOK'
<1>0. FlCounts \subseteq Nat /\ FlNotes \in Nat
  BY FlAssumption
<1>1. NoWalk \in [done : Nat, total : Nat, needed : {0, Unknown}]
  BY DEF NoWalk
<1>2. ASSUME walk' \in {walk, NoWalk}, cover' = cover PROVE WalkOK'
  BY <1>1, <1>2 DEF WalkOK
<1>3. ASSUME \/ OpenFails \/ Opens \/ RetrySucceeds \/ RetriesExhausted
             \/ IdentityMatches \/ IdentityRebuilds \/ RebuildEnds \/ IdentityVerdict
             \/ ReconcileEnds \/ BootWatchdog
      PROVE  walk' \in {walk, NoWalk} /\ cover' = cover
  BY <1>3 DEF OpenFails, Opens, RetrySucceeds, RetriesExhausted, IdentityMatches, IdentityRebuilds,
              RebuildEnds, IdentityVerdict, ReconcileEnds, BootWatchdog, HydrateEnds
<1>4. ASSUME \/ TouchEnds \/ TouchTimesOut \/ PanelReads
             \/ DropPlans \/ DropHydrates \/ DropSettles \/ maybeCompleteConsumerHydrateBoot
             \/ PeerArrives \/ PeriodicReconcile
      PROVE  walk' \in {walk, NoWalk} /\ cover' = cover
  BY <1>4 DEF TouchEnds, TouchTimesOut, PanelReads, DropPlans, DropHydrates, DropSettles,
              maybeCompleteConsumerHydrateBoot, PeerArrives, PeriodicReconcile
<1>5. ASSUME \/ FullRefused \/ FullBegins \/ FullWipes \/ FullAdvances \/ FullEnds \/ FullFails
             \/ ResetBegins \/ ForceResetFails \/ ForceResets
             \/ RecoverWedged \/ RecoverFromSettings \/ IndexingStalls
      PROVE  walk' \in {walk, NoWalk} /\ cover' = cover
  BY <1>5 DEF FullRefused, FullBegins, FullWipes, FullAdvances, FullEnds, FullFails,
              ResetBegins, ForceResetFails, ForceResets, RecoverWedged, RecoverFromSettings, IndexingStalls
<1>6. ASSUME CatchUpBegins \/ CatchUpEnds \/ Edit \/ FlushBegins \/ FlushEnds \/ EnergySaver \/ DriftVerdict
      PROVE  walk' \in {walk, NoWalk} /\ cover' = cover
  BY <1>6 DEF CatchUpBegins, CatchUpEnds, Edit, FlushBegins, FlushEnds, EnergySaver, DriftVerdict
<1>7. ASSUME BootCompletes PROVE WalkOK'
  <2>1. /\ walk' \in {walk, [done |-> stored, total |-> FlNotes, needed |-> Unknown]}
        /\ cover' = cover
    BY <1>7 DEF BootCompletes, applySidecarHydrateProgressUpdate
  <2>2. stored \in Nat
    BY <1>0 DEF CountsOK
  <2> QED
    BY <1>0, <2>1, <2>2 DEF WalkOK
<1>8. ASSUME WalkMoves PROVE WalkOK'
  <2>1. PICK total \in FlCounts \ {0}, needed \in {0, Unknown} : \E done \in {0, total} :
          walk' \in {walk, [done |-> done, total |-> total, needed |-> needed]}
    BY <1>8 DEF WalkMoves, applySidecarHydrateProgressUpdate
  <2>2. cover' = cover
    BY <1>8 DEF WalkMoves
  <2> QED
    BY <1>0, <2>1, <2>2 DEF WalkOK
<1>9. ASSUME PanelShows PROVE WalkOK'
  <2>1. walk' = walk /\ cover'.total = FlNotes
    BY <1>9 DEF PanelShows
  <2> QED
    BY <2>1 DEF WalkOK
<1> QED
  BY <1>2, <1>3, <1>4, <1>5, <1>6, <1>7, <1>8, <1>9 DEF FlNext

-----------------------------------------------------------------------------
(* The invariant holds when the session begins.                           *)
LEMMA FlInitially == FlInit => FlInv
<1> SUFFICES ASSUME FlInit PROVE FlInv
  OBVIOUS
<1>1. JobOK
  BY DEF FlInit, JobOK, NoJob
<1>2. CountsOK
  BY DEF FlInit, CountsOK
<1>3. WalkOK
  BY DEF FlInit, WalkOK, NoWalk, NoUnits
<1>4. Owed
  BY DEF FlInit, Owed, NoJob
<1> QED
  BY <1>1, <1>2, <1>3, <1>4 DEF FlInv

(* And every step keeps it.                                               *)
LEMMA FlStep == FlInv /\ [FlNext]_flVars => FlInv'
<1> SUFFICES ASSUME FlInv, [FlNext]_flVars PROVE FlInv'
  OBVIOUS
<1>1. CASE FlNext
  <2>1. JobOK' /\ CountsOK' /\ WalkOK'
    BY <1>1, JobKeeps, CountsKeep, WalkKeeps DEF FlInv
  <2>2. Owed'
    <3>1. Owed
      BY DEF FlInv
    <3> QED
      BY <1>1, <3>1, EditsOwe, OthersOwe, BootsOwe, DropsOwe, TakeoversOwe DEF FlNext
  <2> QED
    BY <2>1, <2>2 DEF FlInv
<1>2. CASE UNCHANGED flVars
  BY <1>2 DEF flVars, FlInv, JobOK, CountsOK, WalkOK, Owed
<1> QED
  BY <1>1, <1>2

(* The surfaces of main.ts tell one story in every state of the session:    *)
(* the status bar, the footer, the modal's body and the gate of the command *)
(* line, each with a rule of its own over the flags, do not contradict each *)
(* other but in the two cases that the property names.                     *)
THEOREM SurfacesTellOneStory == FlSpec => []FlSurfacesAgree
<1>1. FlInv => FlSurfacesAgree
  BY SurfacesOfReport
<1> QED
  BY <1>1, FlInitially, FlStep, PTL DEF FlSpec

(* An index that was dropped and is being recovered is never shown as ready *)
(* nor as missing, and nothing is served from an empty store meanwhile.     *)
THEOREM DroppedStaysHidden == FlSpec => []FlDropHidden
<1>1. FlInv => FlDropHidden
  BY SurfacesOfReport
<1> QED
  BY <1>1, FlInitially, FlStep, PTL DEF FlSpec
=============================================================================
