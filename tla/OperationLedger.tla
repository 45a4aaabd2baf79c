--------------------------- MODULE OperationLedger ---------------------------
(***************************************************************************)
(* A guarded mutation from request to recorded outcome: the guard chain of *)
(* internal/app/guard.go around the durable operation ledger of            *)
(* internal/operation and the mutation log of internal/audit.              *)
(*                                                                         *)
(* An MCP server is one process that answers one request at a time, loses  *)
(* its session and its call in progress when it dies, and shares the       *)
(* project's ledger with the servers before, after and beside it.          *)
(* ledgerMu makes a ledger operation atomic in one process only; between   *)
(* processes it is a read of the file followed by a rename over it, which  *)
(* are two actions here.  Every call names a run; whether that run permits *)
(* the tool (RunState) and whether the newest backup is fresh are inputs.  *)
(***************************************************************************)
EXTENDS Naturals, Sequences

CONSTANTS
  Servers,        \* MCP server processes
  Requests,       \* request ids clients use
  Effects,        \* tools with arguments, as operation.Fingerprint tells them apart
  DryRunnable,    \* the effects whose tool is forced into dry-run without a session
  Cap,            \* the mutation cap per session
  LogLosesRecords,\* whether a record of the mutation log may fail to be written
  Nil             \* no entry, no request

ASSUME CapIsNatural == Cap \in Nat
ASSUME DryRunnableAreEffects == DryRunnable \subseteq Effects
ASSUME LogIsLossyOrNot == LogLosesRecords \in BOOLEAN

VARIABLES
  ledger,         \* the operation of each request id, or Nil
  seen,           \* the ledger each server has read to rewrite it, or Nil
  mode,           \* how each server was started
  session,        \* servers that have a session bound to the project
  audited,        \* records logged since each session opened, up to Cap
  call,           \* the call each server is in
  handled,        \* outcomes of the handler runs of each request (observation)
  given,          \* outcomes reported for each request           (observation)
  spent           \* handler runs of each session that are logged (observation)

vars == <<ledger, seen, mode, session, audited, call, handled, given, spent>>

(* What a handler returns: a result, a result with success:false, an       *)
(* error, or an error that wraps a deadline (isAmbiguousMutationError).    *)
Outcomes == {"ok", "rejected", "failed", "ambiguous"}

(* What an entry may hold: an outcome, the refusal of a gate, or what an   *)
(* operator's evidence settled.                                            *)
Answers == Outcomes \cup {"refused", "reconciled"}

Entry ==
  [effect : Effects, state : {"started", "completed", "failed", "unknown"},
   answer : Answers \cup {Nil}]

Ledgers == [Requests -> Entry \cup {Nil}]

ASSUME NilIsNothing == Nil \notin Entry \cup Ledgers \cup Answers

(* Plain, with --locked, or with DRUP_ALLOW_UNSAFE=1. *)
Modes == {"guarded", "locked", "unsafe"}

Idle == [pc |-> "idle", request |-> Nil, effect |-> Nil, outcome |-> Nil]

Calls ==
  [pc : {"idle", "find", "start", "starting", "gates", "handle", "audit",
         "record", "recording", "reconciling"},
   request : Requests \cup {Nil}, effect : Effects \cup {Nil},
   outcome : Outcomes \cup {"refused", Nil}]

Init ==
  /\ ledger = [r \in Requests |-> Nil]
  /\ seen = [s \in Servers |-> Nil]
  /\ mode \in [Servers -> Modes]
  /\ session = {}
  /\ audited = [s \in Servers |-> 0]
  /\ call = [s \in Servers |-> Idle]
  /\ handled = [r \in Requests |-> << >>]
  /\ given = [r \in Requests |-> {}]
  /\ spent = [s \in Servers |-> 0]

(* Mutant of Known: what a dead process left started is forgotten. *)
KnownWhenOutcome(r) == ledger[r] # Nil /\ ledger[r].state # "started"

Known(r) == ledger[r] # Nil

Settled(r) == Known(r) /\ ledger[r].state \in {"completed", "failed"}

Report(r, answer) == given' = [given EXCEPT ![r] = @ \cup {answer}]
Goto(s, pc) == call' = [call EXCEPT ![s].pc = pc]
Leave(s) == call' = [call EXCEPT ![s] = Idle] /\ seen' = [seen EXCEPT ![s] = Nil]

(* The two halves of a ledger operation: what others write in between, the *)
(* rename undoes.                                                          *)
ReadsLedger(s) == seen' = [seen EXCEPT ![s] = ledger]
WritesEntry(s, r, entry) == ledger' = [seen[s] EXCEPT ![r] = entry]

(* audit.Append: every session counts the records logged since it opened,  *)
(* whoever logged them.  A record that cannot be written is dropped.       *)
Appended == audited' = [s \in Servers |-> IF audited[s] < Cap THEN audited[s] + 1 ELSE Cap]
Dropped == LogLosesRecords /\ UNCHANGED audited
Logged == Appended \/ Dropped
-----------------------------------------------------------------------------
(* session_open: the last one wins, and counts from now. *)
OpenSession(s) ==
  /\ call[s].pc = "idle"
  /\ session' = session \cup {s}
  /\ audited' = [audited EXCEPT ![s] = 0]
  /\ spent' = [spent EXCEPT ![s] = 0]
  /\ UNCHANGED <<ledger, seen, mode, call, handled, given>>

(* The policy of the tool, decided before the ledger is opened. *)
Bypasses(s) == mode[s] = "unsafe"

Refuses(s, e) ==
  \/ mode[s] = "locked"
  \/ mode[s] = "guarded" /\ s \notin session /\ e \notin DryRunnable

ForcesDryRun(s, e) == mode[s] = "guarded" /\ s \notin session /\ e \in DryRunnable

CallRefused(s, e) ==
  /\ call[s].pc = "idle"
  /\ Refuses(s, e)
  /\ Logged
  /\ UNCHANGED <<ledger, seen, mode, session, call, handled, given, spent>>

(* The handler runs, but has no effect and leaves no entry. *)
CallDryRun(s, e) ==
  /\ call[s].pc = "idle"
  /\ ForcesDryRun(s, e)
  /\ Logged
  /\ UNCHANGED <<ledger, seen, mode, session, call, handled, given, spent>>

Call(s, r, e) ==
  /\ call[s].pc = "idle"
  /\ ~Refuses(s, e) /\ ~ForcesDryRun(s, e)
  /\ call' = [call EXCEPT ![s] = [pc |-> "find", request |-> r, effect |-> e, outcome |-> Nil]]
  /\ UNCHANGED <<ledger, seen, mode, session, audited, handled, given, spent>>

(* FindRequest: a known request is answered from its entry, never run. *)
Find(s) ==
  LET r == call[s].request IN
  /\ call[s].pc = "find"
  /\ IF ~Known(r) THEN Goto(s, "start") /\ UNCHANGED seen ELSE Leave(s)
  /\ IF Settled(r) /\ ledger[r].effect = call[s].effect
     THEN Report(r, ledger[r].answer) ELSE UNCHANGED given
  /\ UNCHANGED <<ledger, mode, session, audited, handled, spent>>

(* Mutant of MayStart: equivalent requests are not looked at. *)
StartsUnlessKnown(r, e) == ~Known(r)

MayStart(r, e) ==
  /\ ~Known(r)
  /\ \A q \in Requests : Known(q) /\ ledger[q].effect = e => ledger[q].state # "unknown"

(* Start: the intent is on disk before anything may happen. *)
StartReads(s) ==
  /\ call[s].pc = "start"
  /\ MayStart(call[s].request, call[s].effect)
  /\ ReadsLedger(s)
  /\ Goto(s, "starting")
  /\ UNCHANGED <<ledger, mode, session, audited, handled, given, spent>>

StartWrites(s) ==
  /\ call[s].pc = "starting"
  /\ WritesEntry(s, call[s].request,
                 [effect |-> call[s].effect, state |-> "started", answer |-> Nil])
  /\ seen' = [seen EXCEPT ![s] = Nil]
  /\ Goto(s, "gates")
  /\ UNCHANGED <<mode, session, audited, handled, given, spent>>

(* A ledger operation refuses, or the ledger cannot be read or written:    *)
(* the caller gets that error, and the entry stays.                        *)
LedgerFails(s) ==
  /\ call[s].pc \in {"start", "starting", "record", "recording", "reconciling"}
  /\ Leave(s)
  /\ UNCHANGED <<ledger, mode, session, audited, handled, given, spent>>

(* Mutant of UnderCap: the cap is compared too late. *)
UnderCapPlusOne(s) == Bypasses(s) \/ audited[s] <= Cap

UnderCap(s) == Bypasses(s) \/ audited[s] < Cap

(* The gates behind the ledger: backup freshness, then the cap.  A refusal *)
(* is logged like a mutation, and ends the request as failed.              *)
GatesPass(s) ==
  /\ call[s].pc = "gates"
  /\ UnderCap(s)
  /\ Goto(s, "handle")
  /\ UNCHANGED <<ledger, seen, mode, session, audited, handled, given, spent>>

GatesRefuse(s, fresh) ==
  /\ call[s].pc = "gates"
  /\ ~Bypasses(s)
  /\ ~fresh \/ ~UnderCap(s)
  /\ Logged
  /\ call' = [call EXCEPT ![s].pc = "record", ![s].outcome = "refused"]
  /\ UNCHANGED <<ledger, seen, mode, session, handled, given, spent>>

(* The real handler: from here on, the effect may have happened. *)
Handle(s, outcome) ==
  /\ call[s].pc = "handle"
  /\ handled' = [handled EXCEPT ![call[s].request] = Append(@, outcome)]
  /\ call' = [call EXCEPT ![s].pc = "audit", ![s].outcome = outcome]
  /\ UNCHANGED <<ledger, seen, mode, session, audited, given, spent>>

Audit(s) ==
  /\ call[s].pc = "audit"
  /\ \/ Appended /\ spent' = [spent EXCEPT ![s] = @ + 1]
     \/ Dropped /\ UNCHANGED spent
  /\ Goto(s, "record")
  /\ UNCHANGED <<ledger, seen, mode, session, handled, given>>

(* Mutant of StateFor: a deadline is a failure like any other. *)
StateForAnyError(outcome) == IF outcome = "ok" THEN "completed" ELSE "failed"

StateFor(outcome) ==
  IF outcome = "ok" THEN "completed"
  ELSE IF outcome = "ambiguous" THEN "unknown" ELSE "failed"

(* Mutant of Settle: the response is not stored. *)
SettleState(entry, state, answer) == [entry EXCEPT !.state = state]

Settle(entry, state, answer) == [entry EXCEPT !.state = state, !.answer = answer]

(* Mutant of MayBecome: any entry may be completed. *)
MayBecomeAnything(r, state) == Known(r)

(* transition: a settled entry stays as it is. *)
MayBecome(r, state) ==
  /\ Known(r)
  /\ \/ ledger[r].state = "started"
     \/ ledger[r].state = "unknown" /\ state = "completed"

RecordReads(s) ==
  /\ call[s].pc = "record"
  /\ MayBecome(call[s].request, StateFor(call[s].outcome))
  /\ ReadsLedger(s)
  /\ Goto(s, "recording")
  /\ UNCHANGED <<ledger, mode, session, audited, handled, given, spent>>

RecordWrites(s) ==
  LET r       == call[s].request
      outcome == call[s].outcome
      state   == StateFor(outcome)
  IN
  /\ call[s].pc = "recording"
  /\ WritesEntry(s, r, Settle(seen[s][r], state, outcome))
  /\ IF state # "unknown" THEN Report(r, outcome) ELSE UNCHANGED given
  /\ Leave(s)
  /\ UNCHANGED <<mode, session, audited, handled, spent>>

(* operation_reconcile: some file of the project is taken as evidence that *)
(* the operation was done.  The tool is not guarded, needs no session, and *)
(* does not ask whether the operation is still under way.                  *)
ReconcileReads(s, r) ==
  /\ call[s].pc = "idle"
  /\ MayBecome(r, "completed")
  /\ ReadsLedger(s)
  /\ call' = [call EXCEPT ![s].pc = "reconciling", ![s].request = r]
  /\ UNCHANGED <<ledger, mode, session, audited, handled, given, spent>>

ReconcileWrites(s) ==
  LET r == call[s].request IN
  /\ call[s].pc = "reconciling"
  /\ WritesEntry(s, r, Settle(seen[s][r], "completed", "reconciled"))
  /\ Leave(s)
  /\ UNCHANGED <<mode, session, audited, handled, given, spent>>

(* The process ends, in a call or between two; another one takes over. *)
Restart(s, m) ==
  /\ call[s] # Idle \/ s \in session \/ mode[s] # m
  /\ Leave(s)
  /\ mode' = [mode EXCEPT ![s] = m]
  /\ session' = session \ {s}
  /\ audited' = [audited EXCEPT ![s] = 0]
  /\ spent' = [spent EXCEPT ![s] = 0]
  /\ UNCHANGED <<ledger, handled, given>>

ServerNext(s) ==
  \/ OpenSession(s)
  \/ \E e \in Effects : CallRefused(s, e) \/ CallDryRun(s, e)
  \/ \E r \in Requests, e \in Effects : Call(s, r, e)
  \/ Find(s)
  \/ StartReads(s)
  \/ StartWrites(s)
  \/ GatesPass(s)
  \/ \E fresh \in BOOLEAN : GatesRefuse(s, fresh)
  \/ \E outcome \in Outcomes : Handle(s, outcome)
  \/ Audit(s)
  \/ RecordReads(s)
  \/ RecordWrites(s)
  \/ \E r \in Requests : ReconcileReads(s, r)
  \/ ReconcileWrites(s)
  \/ LedgerFails(s)
  \/ \E m \in Modes : Restart(s, m)

Next == \E s \in Servers : ServerNext(s)

Spec == Init /\ [][Next]_vars
-----------------------------------------------------------------------------
(***************************************************************************)
(* Properties                                                              *)
(***************************************************************************)

(* The ledger and the calls are well formed: an entry holds an answer once *)
(* it has an outcome, so that every settled request can be replayed, and a *)
(* server holds a ledger it has read only between the two halves of a      *)
(* ledger operation.                                                       *)
TypeOK ==
  /\ ledger \in Ledgers
  /\ seen \in [Servers -> Ledgers \cup {Nil}]
  /\ mode \in [Servers -> Modes]
  /\ session \subseteq Servers
  /\ audited \in [Servers -> 0..Cap]
  /\ call \in [Servers -> Calls]
  /\ \A r \in Requests : Known(r) => (ledger[r].answer = Nil <=> ledger[r].state = "started")
  /\ \A s \in Servers : seen[s] # Nil <=> call[s].pc \in {"starting", "recording", "reconciling"}

(* One request id never runs its handler twice, however often it is sent,  *)
(* whenever the server dies and whatever fails to be written: it is the    *)
(* identity that is on disk before the effect (FindRequest, Start).        *)
HandledOnce == \A r \in Requests : Len(handled[r]) <= 1

(* All the outcomes ever reported for one request id are the same one: a   *)
(* replay never contradicts the first answer.                              *)
AnswersAgree == \A r \in Requests : \A a, b \in given[r] : a = b

(* A settled entry tells what happened: completed without an operator's    *)
(* evidence means the handler returned a result; failed means that it did  *)
(* not run, or said itself that it failed.                                 *)
OutcomesTrue ==
  \A r \in Requests : Settled(r) /\ ledger[r].answer # "reconciled" =>
    IF ledger[r].state = "completed" THEN handled[r] = <<"ok">>
    ELSE handled[r] \in {<< >>, <<"rejected">>, <<"failed">>}

(* No session logs more handler runs than its cap allows (audit.CheckCap), *)
(* however calls, refusals, dry runs and dropped records alternate.        *)
CapHolds == \A s \in Servers : ~Bypasses(s) => spent[s] <= Cap

(* While the outcome of an operation is unknown, nothing equivalent to it  *)
(* is started under another request id (ErrEquivalentUnknown).             *)
UnknownNotRepeated ==
  [][\A s \in Servers : StartWrites(s) =>
       \A q \in Requests : Known(q) /\ ledger[q].effect = call[s].effect =>
         ledger[q].state # "unknown"]_vars
==============================================================================
