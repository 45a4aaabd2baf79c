------------------------ MODULE OperationLedgerProofs ------------------------
(* Theorems about OperationLedger, for any requests, effects and cap.      *)
EXTENDS OperationLedger, TLAPS

(***************************************************************************)
(* What a call, an entry and a ledger that was read hold                   *)
(***************************************************************************)

Steps ==
  {"idle", "find", "start", "starting", "gates", "handle", "audit",
   "record", "recording", "reconciling"}

(* Between the two halves of a ledger operation.                           *)
Halfway == {"starting", "recording", "reconciling"}

(* What a call names at each of its steps.                                 *)
CallInPlace(s) ==
  /\ call[s].pc # "idle" => call[s].request \in Requests
  /\ call[s].pc \notin {"idle", "reconciling"} => call[s].effect \in Effects
  /\ call[s].pc = "audit" => call[s].outcome \in Outcomes
  /\ call[s].pc \in {"record", "recording"} => call[s].outcome \in Outcomes \cup {"refused"}
  /\ call[s].pc \in {"recording", "reconciling"} => seen[s][call[s].request] # Nil

(* An entry holds an answer once it has an outcome.                        *)
Answered(entry) == entry.answer = Nil <=> entry.state = "started"

AllAnswered(store) == \A r \in Requests : store[r] # Nil => Answered(store[r])

(* A server holds a ledger it has read in the middle of a ledger operation *)
(* only, and that ledger is well formed too.                               *)
ServerTyped(s) ==
  /\ call[s] \in Calls
  /\ seen[s] \in Ledgers \cup {Nil}
  /\ seen[s] # Nil <=> call[s].pc \in Halfway
  /\ seen[s] # Nil => AllAnswered(seen[s])
  /\ CallInPlace(s)

StoreTyped == ledger \in Ledgers /\ AllAnswered(ledger)

(* Modes, sessions and counts are in range.                                *)
CountsTyped ==
  /\ mode \in [Servers -> Modes]
  /\ session \subseteq Servers
  /\ audited \in [Servers -> 0..Cap]
  /\ spent \in [Servers -> Nat]

PerServer(f) == DOMAIN f = Servers /\ f = [s \in Servers |-> f[s]]

(* The type invariant, strengthened by what each call knows.               *)
Typed ==
  /\ StoreTyped
  /\ CountsTyped
  /\ PerServer(call) /\ PerServer(seen)
  /\ \A s \in Servers : ServerTyped(s)

(***************************************************************************)
(* Types                                                                   *)
(***************************************************************************)

LEMMA TypedIsTypeOK == Typed => TypeOK
BY DEF Typed, PerServer, StoreTyped, CountsTyped, ServerTyped, AllAnswered, Answered, TypeOK, Known, Halfway

LEMMA IdleIsACall == Idle \in Calls /\ Idle.pc = "idle"
BY DEF Idle, Calls

LEMMA TypedInit == Init => Typed
<1> SUFFICES ASSUME Init PROVE Typed
    OBVIOUS
<1>1. StoreTyped
      BY DEF Init, StoreTyped, Ledgers, AllAnswered
<1>2. CountsTyped
      BY CapIsNatural DEF Init, CountsTyped
<1>3. \A s \in Servers : call[s] = Idle /\ seen[s] = Nil
      BY DEF Init
<1>4. \A s \in Servers : ServerTyped(s)
      BY <1>3, IdleIsACall DEF ServerTyped, CallInPlace, Halfway
<1>5. QED BY <1>1, <1>2, <1>3, <1>4 DEF Init, Typed, PerServer

(* What a step does to the server that takes it, and to the others.        *)
LEMMA GotoDoes ==
  ASSUME Typed, NEW s \in Servers, NEW p \in Steps, Goto(s, p)
  PROVE  /\ call'[s].pc = p /\ call'[s] \in Calls
         /\ call'[s].request = call[s].request
         /\ call'[s].effect = call[s].effect
         /\ call'[s].outcome = call[s].outcome
BY DEF Typed, PerServer, ServerTyped, Goto, Calls, Steps

LEMMA LeaveDoes ==
  ASSUME Typed, NEW s \in Servers, Leave(s)
  PROVE  call'[s] = Idle /\ seen'[s] = Nil
BY DEF Typed, PerServer, Leave

LEMMA ReadsDoes ==
  ASSUME Typed, NEW s \in Servers, ReadsLedger(s)
  PROVE  seen'[s] = ledger /\ seen'[s] # Nil
BY NilIsNothing DEF Typed, PerServer, StoreTyped, ReadsLedger

(* A server touches no other server.                                       *)
LEMMA OthersStay ==
  ASSUME Typed, NEW s \in Servers, ServerNext(s), NEW t \in Servers, t # s
  PROVE  /\ call'[t] = call[t] /\ seen'[t] = seen[t]
         /\ mode'[t] = mode[t] /\ spent'[t] = spent[t]
<1>1. call'[t] = call[t]
      BY DEF Typed, PerServer, ServerNext, OpenSession, CallRefused, CallDryRun, Call, Find, StartReads,
             StartWrites, GatesPass, GatesRefuse, Handle, Audit, RecordReads, RecordWrites,
             ReconcileReads, ReconcileWrites, LedgerFails, Restart, Goto, Leave
<1>2. seen'[t] = seen[t]
      BY DEF Typed, PerServer, ServerNext, OpenSession, CallRefused, CallDryRun, Call, Find, StartReads,
             StartWrites, GatesPass, GatesRefuse, Handle, Audit, RecordReads, RecordWrites,
             ReconcileReads, ReconcileWrites, LedgerFails, Restart, ReadsLedger, Leave
<1>3. mode'[t] = mode[t] /\ spent'[t] = spent[t]
      BY DEF Typed, CountsTyped, ServerNext, OpenSession, CallRefused, CallDryRun, Call, Find,
             StartReads, StartWrites, GatesPass, GatesRefuse, Handle, Audit, RecordReads,
             RecordWrites, ReconcileReads, ReconcileWrites, LedgerFails, Restart
<1>4. QED BY <1>1, <1>2, <1>3

LEMMA FunctionsStay ==
  ASSUME Typed, NEW s \in Servers, ServerNext(s)
  PROVE  PerServer(call)' /\ PerServer(seen)'
<1>1. PerServer(call)'
      BY DEF Typed, PerServer, ServerNext, OpenSession, CallRefused, CallDryRun, Call, Find, StartReads,
             StartWrites, GatesPass, GatesRefuse, Handle, Audit, RecordReads, RecordWrites,
             ReconcileReads, ReconcileWrites, LedgerFails, Restart, Goto, Leave
<1>2. PerServer(seen)'
      BY DEF Typed, PerServer, ServerNext, OpenSession, CallRefused, CallDryRun, Call, Find, StartReads,
             StartWrites, GatesPass, GatesRefuse, Handle, Audit, RecordReads, RecordWrites,
             ReconcileReads, ReconcileWrites, LedgerFails, Restart, ReadsLedger, Leave
<1>3. QED BY <1>1, <1>2

(* A record makes every count grow, up to the cap.                         *)
LEMMA AppendedCounts ==
  ASSUME Typed, Logged
  PROVE  audited' \in [Servers -> 0..Cap] /\ \A s \in Servers : audited[s] <= audited'[s]
BY CapIsNatural DEF Typed, CountsTyped, Logged, Appended, Dropped

(* So do the counts.                                                       *)
LEMMA CountsStay ==
  ASSUME Typed, NEW s \in Servers, ServerNext(s)
  PROVE  CountsTyped'
<1> USE CapIsNatural DEF Typed, CountsTyped
<1>1. CASE OpenSession(s) \/ \E m \in Modes : Restart(s, m)
      BY <1>1 DEF OpenSession, Restart
<1>2. CASE \/ \E e \in Effects : CallRefused(s, e) \/ CallDryRun(s, e)
           \/ \E fresh \in BOOLEAN : GatesRefuse(s, fresh)
      <2>1. Logged /\ UNCHANGED <<mode, session, spent>>
            BY <1>2 DEF CallRefused, CallDryRun, GatesRefuse
      <2>2. QED BY <2>1, AppendedCounts
<1>3. CASE Audit(s)
      <2>1. audited' \in [Servers -> 0..Cap]
            BY <1>3, AppendedCounts DEF Audit, Logged, Dropped
      <2>2. QED BY <1>3, <2>1 DEF Audit
<1>4. CASE UNCHANGED <<mode, session, audited, spent>>
      BY <1>4
<1>5. QED
      BY <1>1, <1>2, <1>3, <1>4
      DEF ServerNext, Call, Find, StartReads, StartWrites, GatesPass, Handle, RecordReads,
          RecordWrites, ReconcileReads, ReconcileWrites, LedgerFails

(* What is renamed over the ledger is a ledger: the one read, with one     *)
(* entry.                                                                  *)
LEMMA WritesTyped ==
  ASSUME Typed, NEW s \in Servers, seen[s] # Nil, NEW r \in Requests, NEW entry \in Entry,
         Answered(entry), WritesEntry(s, r, entry)
  PROVE  StoreTyped'
BY NilIsNothing DEF Typed, ServerTyped, WritesEntry, StoreTyped, AllAnswered, Ledgers

(* A settled entry keeps its effect and has its answer.                    *)
LEMMA SettleTyped ==
  ASSUME NEW entry \in Entry, NEW state \in {"completed", "failed", "unknown"}, NEW answer \in Answers
  PROVE  /\ Settle(entry, state, answer) \in Entry
         /\ Settle(entry, state, answer).effect = entry.effect
         /\ Settle(entry, state, answer).state = state
         /\ Settle(entry, state, answer).answer = answer
         /\ Answered(Settle(entry, state, answer))
BY NilIsNothing DEF Settle, Entry, Answered, Answers, Outcomes

(* The ledger stays well formed.                                           *)
LEMMA StoreStays ==
  ASSUME Typed, NEW s \in Servers, ServerNext(s)
  PROVE  StoreTyped'
<1>1. CASE StartWrites(s)
      <2> DEFINE entry == [effect |-> call[s].effect, state |-> "started", answer |-> Nil]
      <2>1. call[s].pc = "starting" /\ WritesEntry(s, call[s].request, entry)
            BY <1>1 DEF StartWrites
      <2>2. seen[s] # Nil /\ call[s].request \in Requests /\ call[s].effect \in Effects
            BY <2>1 DEF Typed, ServerTyped, CallInPlace, Halfway
      <2>3. entry \in Entry /\ Answered(entry)
            BY <2>2 DEF Entry, Answered
      <2> HIDE DEF entry
      <2>4. QED BY <2>1, <2>2, <2>3, WritesTyped
<1>2. CASE RecordWrites(s)
      <2> DEFINE r == call[s].request
                 entry == Settle(seen[s][r], StateFor(call[s].outcome), call[s].outcome)
      <2>1. call[s].pc = "recording" /\ WritesEntry(s, r, entry)
            BY <1>2 DEF RecordWrites
      <2>2. seen[s] # Nil /\ r \in Requests /\ seen[s][r] \in Entry
            BY <2>1 DEF Typed, ServerTyped, CallInPlace, Halfway, Ledgers
      <2>3. call[s].outcome \in Answers /\ StateFor(call[s].outcome) \in {"completed", "failed", "unknown"}
            BY <2>1 DEF Typed, ServerTyped, CallInPlace, Answers, StateFor
      <2>4. entry \in Entry /\ Answered(entry)
            BY <2>2, <2>3, SettleTyped
      <2> HIDE DEF entry, r
      <2>5. QED BY <2>1, <2>2, <2>4, WritesTyped
<1>3. CASE ReconcileWrites(s)
      <2> DEFINE r == call[s].request
                 entry == Settle(seen[s][r], "completed", "reconciled")
      <2>1. call[s].pc = "reconciling" /\ WritesEntry(s, r, entry)
            BY <1>3 DEF ReconcileWrites
      <2>2. seen[s] # Nil /\ r \in Requests /\ seen[s][r] \in Entry
            BY <2>1 DEF Typed, ServerTyped, CallInPlace, Halfway, Ledgers
      <2>3. entry \in Entry /\ Answered(entry)
            BY <2>2, SettleTyped DEF Answers
      <2> HIDE DEF entry, r
      <2>4. QED BY <2>1, <2>2, <2>3, WritesTyped
<1>4. CASE UNCHANGED ledger
      BY <1>4 DEF Typed, StoreTyped, AllAnswered
<1>5. QED
      BY <1>1, <1>2, <1>3, <1>4
      DEF ServerNext, OpenSession, CallRefused, CallDryRun, Call, Find, StartReads, GatesPass,
          GatesRefuse, Handle, Audit, RecordReads, ReconcileReads, LedgerFails, Restart

(* So does the server that takes a step.                                   *)
LEMMA ServerStays ==
  ASSUME Typed, NEW s \in Servers, ServerNext(s)
  PROVE  ServerTyped(s)'
<1> USE DEF ServerTyped, CallInPlace, Halfway
<1>0. ServerTyped(s)
      BY DEF Typed
<1>1. CASE OpenSession(s) \/ \E e \in Effects : CallRefused(s, e) \/ CallDryRun(s, e)
      BY <1>0, <1>1 DEF OpenSession, CallRefused, CallDryRun, AllAnswered
<1>2. ASSUME NEW r \in Requests, NEW e \in Effects, Call(s, r, e)
      PROVE  ServerTyped(s)'
      <2>1. call'[s] = [pc |-> "find", request |-> r, effect |-> e, outcome |-> Nil] /\ seen' = seen
            BY <1>2 DEF Call, Typed, PerServer
      <2>2. QED BY <1>0, <1>2, <2>1 DEF Calls, Call
<1>3. CASE Leave(s)
      BY <1>3, LeaveDoes, IdleIsACall
<1>4. CASE Goto(s, "start") /\ UNCHANGED seen /\ call[s].pc = "find"
      BY <1>0, <1>4, GotoDoes DEF Steps
<1>5. CASE StartReads(s)
      BY <1>0, <1>5, GotoDoes, ReadsDoes DEF Steps, StartReads, Typed, StoreTyped
<1>6. CASE StartWrites(s)
      <2>1. seen'[s] = Nil
            BY <1>6 DEF StartWrites, Typed, PerServer
      <2>2. QED BY <1>0, <1>6, <2>1, GotoDoes DEF Steps, StartWrites
<1>7. CASE GatesPass(s)
      BY <1>0, <1>7, GotoDoes DEF Steps, GatesPass
<1>8. ASSUME NEW fresh \in BOOLEAN, GatesRefuse(s, fresh)
      PROVE  ServerTyped(s)'
      <2>1. /\ call'[s].pc = "record" /\ call'[s].outcome = "refused"
            /\ call'[s].request = call[s].request /\ call'[s].effect = call[s].effect
            /\ call'[s] \in Calls
            BY <1>8, <1>0 DEF GatesRefuse, Typed, PerServer, Calls
      <2>2. QED BY <1>0, <1>8, <2>1 DEF GatesRefuse
<1>9. ASSUME NEW outcome \in Outcomes, Handle(s, outcome)
      PROVE  ServerTyped(s)'
      <2>1. /\ call'[s].pc = "audit" /\ call'[s].outcome = outcome
            /\ call'[s].request = call[s].request /\ call'[s].effect = call[s].effect
            /\ call'[s] \in Calls
            BY <1>9, <1>0 DEF Handle, Typed, PerServer, Calls
      <2>2. QED BY <1>0, <1>9, <2>1 DEF Handle
<1>10. CASE Audit(s)
      BY <1>0, <1>10, GotoDoes DEF Steps, Audit
<1>11. CASE RecordReads(s)
      <2>1. ledger[call[s].request] # Nil
            BY <1>11 DEF RecordReads, MayBecome, Known
      <2>2. QED BY <1>0, <1>11, <2>1, GotoDoes, ReadsDoes DEF Steps, RecordReads, Typed, StoreTyped
<1>12. ASSUME NEW r \in Requests, ReconcileReads(s, r)
      PROVE  ServerTyped(s)'
      <2>1. call'[s].pc = "reconciling" /\ call'[s].request = r /\ call'[s] \in Calls
            BY <1>12, <1>0 DEF ReconcileReads, Typed, PerServer, Calls
      <2>2. ledger[r] # Nil
            BY <1>12 DEF ReconcileReads, MayBecome, Known
      <2>3. QED BY <1>12, <2>1, <2>2, ReadsDoes DEF ReconcileReads, Typed, PerServer, StoreTyped
<1>13. QED
      BY <1>1, <1>2, <1>3, <1>4, <1>5, <1>6, <1>7, <1>8, <1>9, <1>10, <1>11, <1>12
      DEF ServerNext, Find, RecordWrites, ReconcileWrites, LedgerFails, Restart

LEMMA TypedNext == Typed /\ [Next]_vars => Typed'
<1>1. CASE UNCHANGED vars
      BY <1>1 DEF vars, Typed, StoreTyped, CountsTyped, ServerTyped, CallInPlace, AllAnswered
<1>2. ASSUME Typed, NEW s \in Servers, ServerNext(s)
      PROVE  Typed'
      <2>1. ASSUME NEW t \in Servers, t # s
            PROVE  ServerTyped(t)'
            BY <1>2, <2>1, OthersStay DEF Typed, ServerTyped, CallInPlace, AllAnswered
      <2>2. \A t \in Servers : ServerTyped(t)'
            BY <1>2, <2>1, ServerStays
      <2>3. QED BY <1>2, <2>2, StoreStays, CountsStay, FunctionsStay DEF Typed
<1>3. QED BY <1>1, <1>2 DEF Next

(***************************************************************************)
(* The cap                                                                 *)
(***************************************************************************)

(* A session logs no more handler runs than it counts, and a run past the  *)
(* gates has a record left to log, whoever else logs in between.           *)
CapCounts ==
  \A s \in Servers : ~Bypasses(s) =>
    /\ spent[s] <= audited[s]
    /\ call[s].pc \in {"handle", "audit"} => spent[s] < Cap

(* What a server does never lowers the count of another.                   *)
LEMMA OthersCount ==
  ASSUME Typed, NEW s \in Servers, ServerNext(s), NEW t \in Servers, t # s
  PROVE  audited[t] <= audited'[t]
<1> USE CapIsNatural DEF Typed, CountsTyped
<1>1. CASE OpenSession(s) \/ \E m \in Modes : Restart(s, m)
      BY <1>1 DEF OpenSession, Restart
<1>2. CASE Logged
      BY <1>2, AppendedCounts
<1>3. CASE UNCHANGED audited
      BY <1>3
<1>4. QED
      BY <1>1, <1>2, <1>3
      DEF ServerNext, Call, CallRefused, CallDryRun, Find, StartReads, StartWrites, GatesPass,
          GatesRefuse, Handle, Audit, RecordReads, RecordWrites, ReconcileReads, ReconcileWrites,
          LedgerFails, Logged

LEMMA CapInit == Init => CapCounts
BY DEF Init, CapCounts, Idle

LEMMA CapNext == Typed /\ CapCounts /\ [Next]_vars => CapCounts'
<1> USE CapIsNatural
<1>1. CASE UNCHANGED vars
      BY <1>1 DEF vars, CapCounts, Bypasses
<1>2. ASSUME Typed, CapCounts, NEW s \in Servers, ServerNext(s), NEW t \in Servers, t # s, ~Bypasses(t)'
      PROVE  spent'[t] <= audited'[t] /\ (call'[t].pc \in {"handle", "audit"} => spent'[t] < Cap)
      <2>1. /\ call'[t] = call[t] /\ mode'[t] = mode[t] /\ spent'[t] = spent[t]
            /\ audited[t] <= audited'[t] /\ audited[t] \in Nat /\ audited'[t] \in Nat /\ spent[t] \in Nat
            BY <1>2, OthersStay, OthersCount, CountsStay DEF Typed, CountsTyped
      <2>2. QED BY <1>2, <2>1 DEF CapCounts, Bypasses
<1>3. ASSUME Typed, CapCounts, NEW s \in Servers, ServerNext(s), ~Bypasses(s)'
      PROVE  spent'[s] <= audited'[s] /\ (call'[s].pc \in {"handle", "audit"} => spent'[s] < Cap)
      <2> USE DEF CapCounts, Bypasses
      <2>0. /\ audited[s] \in 0..Cap /\ audited'[s] \in 0..Cap /\ spent[s] \in Nat
            /\ ServerTyped(s)
            BY <1>3, CountsStay DEF Typed, CountsTyped
      <2>1. CASE OpenSession(s) \/ \E m \in Modes : Restart(s, m)
            <3>1. audited'[s] = 0 /\ spent'[s] = 0 /\ call'[s].pc = "idle"
                  BY <1>3, <2>1, LeaveDoes, IdleIsACall DEF OpenSession, Restart, Typed, CountsTyped
            <3>2. QED BY <3>1
      <2>2. CASE Audit(s)
            <3>1. spent[s] < Cap /\ call[s].pc = "audit" /\ spent[s] <= audited[s]
                  BY <1>3, <2>2 DEF Audit
            <3>2. call'[s].pc = "record"
                  BY <1>3, <2>2, GotoDoes DEF Audit, Steps
            <3>3. CASE Appended /\ spent' = [spent EXCEPT ![s] = @ + 1]
                  <4>1. /\ audited'[s] = IF audited[s] < Cap THEN audited[s] + 1 ELSE Cap
                        /\ spent'[s] = spent[s] + 1
                        BY <1>3, <3>3 DEF Appended, Typed, CountsTyped
                  <4>2. QED BY <2>0, <3>1, <3>2, <4>1
            <3>4. CASE UNCHANGED <<audited, spent>>
                  BY <3>1, <3>2, <3>4
            <3>5. QED BY <2>2, <3>3, <3>4 DEF Audit, Dropped
      <2>3. CASE GatesPass(s)
            BY <1>3, <2>0, <2>3, GotoDoes DEF GatesPass, Steps, UnderCap
      <2>4. CASE \/ \E e \in Effects : CallRefused(s, e) \/ CallDryRun(s, e)
                 \/ \E fresh \in BOOLEAN : GatesRefuse(s, fresh)
            <3>1. audited[s] <= audited'[s] /\ UNCHANGED <<mode, spent>>
                  BY <1>3, <2>4, AppendedCounts DEF CallRefused, CallDryRun, GatesRefuse
            <3>2. call'[s].pc \notin {"handle", "audit"}
                  BY <1>3, <2>4, <2>0 DEF CallRefused, CallDryRun, GatesRefuse, Typed, PerServer, ServerTyped, Calls
            <3>3. QED BY <1>3, <2>0, <3>1, <3>2
      <2>5. ASSUME NEW outcome \in Outcomes, Handle(s, outcome)
            PROVE  spent'[s] <= audited'[s] /\ spent'[s] < Cap
            BY <1>3, <2>0, <2>5 DEF Handle
      <2>6. CASE UNCHANGED <<audited, spent, mode>> /\ call'[s].pc \notin {"handle", "audit"}
            BY <1>3, <2>6
      <2>7. CASE Leave(s) /\ UNCHANGED <<audited, spent, mode>>
            BY <1>3, <2>6, <2>7, LeaveDoes, IdleIsACall
      <2>8. CASE \/ Find(s) \/ StartReads(s) \/ StartWrites(s) \/ RecordReads(s)
                 \/ \E r \in Requests : ReconcileReads(s, r) \/ \E e \in Effects : Call(s, r, e)
            <3>1. UNCHANGED <<audited, spent, mode>>
                  BY <2>8 DEF Find, StartReads, StartWrites, RecordReads, ReconcileReads, Call
            <3>2. CASE \/ Leave(s)
                       \/ \E p \in {"start", "starting", "gates", "recording"} : Goto(s, p)
                  BY <1>3, <2>6, <3>1, <3>2, LeaveDoes, IdleIsACall, GotoDoes DEF Steps
            <3>3. ASSUME NEW r \in Requests, NEW e \in Effects, Call(s, r, e)
                  PROVE  call'[s].pc = "find"
                  BY <1>3, <3>3 DEF Call, Typed, PerServer
            <3>4. ASSUME NEW r \in Requests, ReconcileReads(s, r)
                  PROVE  call'[s].pc = "reconciling"
                  BY <1>3, <2>0, <3>4 DEF ReconcileReads, Typed, PerServer, ServerTyped, Calls
            <3>5. QED
                  BY <2>6, <2>8, <3>1, <3>2, <3>3, <3>4 DEF Find, StartReads, StartWrites, RecordReads
      <2>9. QED
            BY <1>3, <2>1, <2>2, <2>3, <2>4, <2>5, <2>7, <2>8
            DEF ServerNext, RecordWrites, ReconcileWrites, LedgerFails
<1>4. ASSUME Typed, CapCounts, NEW s \in Servers, ServerNext(s)
      PROVE  CapCounts'
      BY <1>2, <1>3, <1>4 DEF CapCounts
<1>5. QED BY <1>1, <1>4 DEF Next

(***************************************************************************)
(* What the ledger says is true, with one server on a project              *)
(***************************************************************************)

OneServer == \A s, t \in Servers : s = t

RanOnce(r) == handled[r] = << >> \/ \E o \in Outcomes : handled[r] = <<o>>

(* What the entry of a request says of its handler and of its answers.     *)
EntryTrue(r) ==
  /\ RanOnce(r)
  /\ ~Known(r) => handled[r] = << >> /\ given[r] = {}
  /\ Known(r) => given[r] \subseteq {ledger[r].answer}
  /\ Known(r) /\ ledger[r].state \in {"started", "unknown"} => given[r] = {}
  /\ Known(r) /\ ledger[r].state = "completed" =>
       ledger[r].answer = "reconciled" \/ handled[r] = <<"ok">>
  /\ Known(r) /\ ledger[r].state = "failed" =>
       handled[r] \in {<< >>, <<"rejected">>, <<"failed">>}

(* What the call of the only server knows of its request.                  *)
CallTrue(s) ==
  LET r == call[s].request IN
  /\ seen[s] # Nil => seen[s] = ledger
  /\ call[s].pc \in {"start", "starting"} => ~Known(r)
  /\ call[s].pc = "starting" =>
       \A q \in Requests : Known(q) /\ ledger[q].effect = call[s].effect => ledger[q].state # "unknown"
  /\ call[s].pc \in {"gates", "handle", "audit", "record", "recording"} =>
       Known(r) /\ ledger[r].state = "started"
  /\ call[s].pc \in {"gates", "handle"} => handled[r] = << >>
  /\ call[s].pc = "audit" => handled[r] = <<call[s].outcome>>
  /\ call[s].pc \in {"record", "recording"} =>
       handled[r] = (IF call[s].outcome = "refused" THEN << >> ELSE <<call[s].outcome>>)
  /\ call[s].pc = "reconciling" => Known(r) /\ ledger[r].state \in {"started", "unknown"}

LedgerTrue ==
  /\ DOMAIN handled = Requests /\ DOMAIN given = Requests
  /\ \A r \in Requests : EntryTrue(r)
  /\ \A s \in Servers : CallTrue(s)

LEMMA LedgerInit == Init => LedgerTrue
<1> SUFFICES ASSUME Init PROVE LedgerTrue
    OBVIOUS
<1>1. \A s \in Servers : call[s].pc = "idle" /\ seen[s] = Nil
      BY DEF Init, Idle
<1>2. \A s \in Servers : CallTrue(s)
      BY <1>1 DEF CallTrue
<1>3. \A r \in Requests : EntryTrue(r)
      BY DEF Init, EntryTrue, RanOnce, Known
<1>4. QED BY <1>2, <1>3 DEF Init, LedgerTrue

(* An entry that a step does not touch stays true.                         *)
LEMMA EntryStays ==
  ASSUME NEW r \in Requests, EntryTrue(r),
         ledger'[r] = ledger[r], handled'[r] = handled[r], given'[r] = given[r]
  PROVE  EntryTrue(r)'
BY DEF EntryTrue, RanOnce, Known

LEMMA LedgerNext == OneServer /\ Typed /\ LedgerTrue /\ [Next]_vars => LedgerTrue'
<1>1. CASE UNCHANGED vars
      BY <1>1 DEF vars, LedgerTrue, EntryTrue, RanOnce, CallTrue, Known
<1>2. ASSUME Typed, LedgerTrue, NEW s \in Servers, ServerNext(s)
      PROVE  (\A r \in Requests : EntryTrue(r)') /\ CallTrue(s)' /\ DOMAIN handled' = Requests /\ DOMAIN given' = Requests
      <2>0. /\ ServerTyped(s) /\ CallTrue(s) /\ ledger \in Ledgers
            /\ \A r \in Requests : EntryTrue(r)
            BY <1>2 DEF Typed, StoreTyped, LedgerTrue
      <2> USE DEF LedgerTrue
      <2>1. CASE OpenSession(s) \/ \E e \in Effects : CallRefused(s, e) \/ CallDryRun(s, e)
            BY <1>2, <2>0, <2>1, EntryStays
            DEF OpenSession, CallRefused, CallDryRun, CallTrue, Known
      <2>2. ASSUME NEW r \in Requests, NEW e \in Effects, Call(s, r, e)
            PROVE  (\A q \in Requests : EntryTrue(q)') /\ CallTrue(s)' /\ UNCHANGED <<handled, given>>
            <3>1. /\ call'[s].pc = "find" /\ seen' = seen /\ seen[s] = Nil
                  /\ UNCHANGED <<ledger, handled, given>>
                  BY <1>2, <2>0, <2>2 DEF Call, Typed, PerServer, ServerTyped, Halfway
            <3>2. QED BY <1>2, <2>0, <3>1, EntryStays DEF CallTrue
      <2>3. CASE Find(s)
            <3>0. PICK r \in Requests : r = call[s].request
                  BY <2>0, <2>3 DEF ServerTyped, CallInPlace, Find
            <3>1. r \in Requests /\ call[s].pc = "find" /\ UNCHANGED <<ledger, handled>> /\ seen[s] = Nil
                  BY <3>0, <2>0, <2>3 DEF Find, ServerTyped, CallInPlace, Halfway
            <3>2. /\ \A q \in Requests : q # r => given'[q] = given[q]
                  /\ given'[r] = given[r] \/ (Settled(r) /\ given'[r] = given[r] \cup {ledger[r].answer})
                  /\ DOMAIN given' = Requests
                  BY <3>0, <1>2, <2>3 DEF Find, Report
            <3>3. EntryTrue(r)'
                  BY <3>0, <2>0, <3>1, <3>2 DEF EntryTrue, RanOnce, Known, Settled
            <3>4. CallTrue(s)'
                  <4>1. CASE Leave(s)
                        BY <3>0, <1>2, <4>1, LeaveDoes, IdleIsACall DEF CallTrue
                  <4>2. CASE ~Known(r) /\ Goto(s, "start") /\ UNCHANGED seen
                        BY <3>0, <1>2, <3>1, <4>2, GotoDoes DEF CallTrue, Known, Steps
                  <4>3. QED BY <3>0, <2>3, <4>1, <4>2 DEF Find
            <3>5. QED BY <3>0, <1>2, <2>0, <3>1, <3>2, <3>3, <3>4, EntryStays
      <2>4. CASE StartReads(s)
            BY <1>2, <2>0, <2>4, GotoDoes, ReadsDoes, EntryStays
            DEF StartReads, MayStart, CallTrue, Known, Steps
      <2>5. CASE StartWrites(s)
            <3>0. PICK r \in Requests : r = call[s].request
                  BY <2>0, <2>5 DEF ServerTyped, CallInPlace, StartWrites
            <3>1. /\ r \in Requests /\ call[s].pc = "starting" /\ seen[s] = ledger
                  /\ ~Known(r) /\ UNCHANGED <<handled, given>> /\ seen'[s] = Nil
                  BY <3>0, <1>2, <2>0, <2>5 DEF StartWrites, ServerTyped, CallInPlace, Halfway, CallTrue, Typed, PerServer
            <3>2. /\ ledger'[r] = [effect |-> call[s].effect, state |-> "started", answer |-> Nil]
                  /\ \A q \in Requests : q # r => ledger'[q] = ledger[q]
                  BY <3>0, <2>0, <2>5, <3>1 DEF StartWrites, WritesEntry, Ledgers
            <3>3. ledger'[r] # Nil /\ ledger'[r].state = "started"
                  <4>1. ledger'[r] \in Entry
                        BY <3>0, <2>0, <3>1, <3>2 DEF Entry, ServerTyped, CallInPlace
                  <4>2. QED BY <3>0, <3>2, <4>1, NilIsNothing
            <3>4. EntryTrue(r)'
                  BY <3>0, <2>0, <3>1, <3>3 DEF EntryTrue, RanOnce, Known
            <3>5. /\ call'[s].pc = "gates" /\ call'[s].request = r
                  BY <3>0, <1>2, <2>5, GotoDoes DEF StartWrites, Steps
            <3>6. CallTrue(s)'
                  BY <3>0, <2>0, <3>1, <3>3, <3>5 DEF CallTrue, Known, EntryTrue
            <3>7. QED BY <3>0, <1>2, <2>0, <3>1, <3>2, <3>4, <3>6, EntryStays
      <2>6. CASE GatesPass(s)
            BY <1>2, <2>0, <2>6, GotoDoes, EntryStays DEF GatesPass, CallTrue, Known, Steps
      <2>7. ASSUME NEW fresh \in BOOLEAN, GatesRefuse(s, fresh)
            PROVE  (\A q \in Requests : EntryTrue(q)') /\ CallTrue(s)' /\ UNCHANGED <<handled, given>>
            <3>1. /\ call'[s].pc = "record" /\ call'[s].outcome = "refused"
                  /\ call'[s].request = call[s].request
                  /\ call[s].pc = "gates" /\ UNCHANGED <<ledger, seen, handled, given>>
                  BY <1>2, <2>7, <2>0 DEF GatesRefuse, Typed, PerServer, ServerTyped, Calls
            <3>2. QED BY <1>2, <2>0, <3>1, EntryStays DEF CallTrue, Known, ServerTyped, Halfway
      <2>8. ASSUME NEW outcome \in Outcomes, Handle(s, outcome)
            PROVE  (\A q \in Requests : EntryTrue(q)') /\ CallTrue(s)' /\ UNCHANGED given /\ DOMAIN handled' = Requests
            <3>0. PICK r \in Requests : r = call[s].request
                  BY <2>0, <2>8 DEF ServerTyped, CallInPlace, Handle
            <3>1. /\ call'[s].pc = "audit" /\ call'[s].outcome = outcome /\ call'[s].request = r
                  /\ call[s].pc = "handle" /\ UNCHANGED <<ledger, seen, given>> /\ r \in Requests
                  BY <3>0, <1>2, <2>8, <2>0 DEF Handle, Typed, PerServer, ServerTyped, CallInPlace, Calls
            <3>2. handled[r] = << >> /\ Known(r) /\ ledger[r].state = "started"
                  BY <3>0, <2>0, <3>1 DEF CallTrue
            <3>3. handled'[r] = <<outcome>> /\ \A q \in Requests : q # r => handled'[q] = handled[q]
                  <4>1. handled'[r] = Append(handled[r], outcome)
                        BY <3>0, <1>2, <2>8, <3>1 DEF Handle
                  <4>2. Append(<< >>, outcome) = <<outcome>>
                        OBVIOUS
                  <4>3. QED BY <3>0, <1>2, <2>8, <3>1, <3>2, <4>1, <4>2 DEF Handle
            <3>4. EntryTrue(r)'
                  BY <3>0, <2>0, <3>1, <3>2, <3>3 DEF EntryTrue, RanOnce, Known
            <3>5. CallTrue(s)'
                  BY <3>0, <2>0, <3>1, <3>2, <3>3 DEF CallTrue, Known, ServerTyped, Halfway
            <3>6. QED BY <3>0, <1>2, <2>8, <2>0, <3>1, <3>3, <3>4, <3>5, EntryStays DEF Handle
      <2>9. CASE Audit(s)
            BY <1>2, <2>0, <2>9, GotoDoes, EntryStays
            DEF Audit, CallTrue, Known, Steps, ServerTyped, CallInPlace, Outcomes
      <2>10. CASE RecordReads(s)
            BY <1>2, <2>0, <2>10, GotoDoes, ReadsDoes, EntryStays DEF RecordReads, CallTrue, Known, Steps
      <2>11. CASE RecordWrites(s)
            <3>0. PICK r \in Requests, outcome \in Outcomes \cup {"refused"} :
                    r = call[s].request /\ outcome = call[s].outcome
                  BY <2>0, <2>11 DEF ServerTyped, CallInPlace, RecordWrites
            <3> DEFINE entry == Settle(seen[s][r], StateFor(outcome), outcome)
            <3>1. /\ r \in Requests /\ call[s].pc = "recording" /\ seen[s] = ledger
                  /\ Known(r) /\ ledger[r].state = "started" /\ ledger[r] \in Entry
                  /\ outcome \in Outcomes \cup {"refused"}
                  /\ handled[r] = (IF outcome = "refused" THEN << >> ELSE <<outcome>>)
                  /\ given[r] = {} /\ handled' = handled
                  BY <3>0, <1>2, <2>0, <2>11
                  DEF RecordWrites, ServerTyped, CallInPlace, Halfway, CallTrue, Ledgers, Known, EntryTrue
            <3>2. entry \in Entry /\ entry.state = StateFor(outcome) /\ entry.answer = outcome
                  <4>1. StateFor(outcome) \in {"completed", "failed", "unknown"} /\ outcome \in Answers
                        BY DEF StateFor, Answers
                  <4>2. seen[s][r] \in Entry
                        BY <3>1
                  <4>3. QED BY <4>1, <4>2, SettleTyped
            <3>3. ledger'[r] = entry /\ \A q \in Requests : q # r => ledger'[q] = ledger[q]
                  BY <3>0, <2>0, <2>11, <3>1 DEF RecordWrites, WritesEntry, Ledgers
            <3>4. /\ given'[r] = (IF StateFor(outcome) # "unknown" THEN {outcome} ELSE {})
                  /\ \A q \in Requests : q # r => given'[q] = given[q]
                  /\ DOMAIN given' = Requests
                  BY <3>0, <1>2, <2>11, <3>1 DEF RecordWrites, Report
            <3> HIDE DEF entry
            <3>5. EntryTrue(r)'
                  BY <3>0, <2>0, <3>1, <3>2, <3>3, <3>4, NilIsNothing DEF EntryTrue, RanOnce, Known, StateFor, Outcomes
            <3>6. CallTrue(s)'
                  BY <3>0, <1>2, <2>11, LeaveDoes, IdleIsACall DEF RecordWrites, CallTrue
            <3>7. QED BY <3>0, <1>2, <2>0, <3>1, <3>3, <3>4, <3>5, <3>6, EntryStays
      <2>12. ASSUME NEW r \in Requests, ReconcileReads(s, r)
            PROVE  (\A q \in Requests : EntryTrue(q)') /\ CallTrue(s)' /\ UNCHANGED <<handled, given>>
            <3>1. call'[s].pc = "reconciling" /\ call'[s].request = r
                  BY <1>2, <2>0, <2>12 DEF ReconcileReads, Typed, PerServer, ServerTyped, Calls
            <3>2. Known(r) /\ ledger[r].state \in {"started", "unknown"}
                  BY <2>12 DEF ReconcileReads, MayBecome
            <3>3. QED BY <1>2, <2>0, <2>12, <3>1, <3>2, ReadsDoes, EntryStays DEF ReconcileReads, CallTrue, Known
      <2>13. CASE ReconcileWrites(s)
            <3>0. PICK r \in Requests : r = call[s].request
                  BY <2>0, <2>13 DEF ServerTyped, CallInPlace, ReconcileWrites
            <3> DEFINE entry == Settle(seen[s][r], "completed", "reconciled")
            <3>1. /\ r \in Requests /\ call[s].pc = "reconciling" /\ seen[s] = ledger
                  /\ Known(r) /\ ledger[r].state \in {"started", "unknown"} /\ ledger[r] \in Entry
                  /\ given[r] = {} /\ UNCHANGED <<handled, given>>
                  BY <3>0, <1>2, <2>0, <2>13
                  DEF ReconcileWrites, ServerTyped, CallInPlace, Halfway, CallTrue, Ledgers, Known, EntryTrue
            <3>2. entry \in Entry /\ entry.state = "completed" /\ entry.answer = "reconciled"
                  BY <3>0, <3>1, SettleTyped DEF Answers
            <3>3. ledger'[r] = entry /\ \A q \in Requests : q # r => ledger'[q] = ledger[q]
                  BY <3>0, <2>0, <2>13, <3>1 DEF ReconcileWrites, WritesEntry, Ledgers
            <3> HIDE DEF entry
            <3>5. EntryTrue(r)'
                  BY <3>0, <2>0, <3>1, <3>2, <3>3, NilIsNothing DEF EntryTrue, RanOnce, Known
            <3>6. CallTrue(s)'
                  BY <3>0, <1>2, <2>13, LeaveDoes, IdleIsACall DEF ReconcileWrites, CallTrue
            <3>7. QED BY <3>0, <1>2, <2>0, <3>1, <3>3, <3>5, <3>6, EntryStays
      <2>14. CASE LedgerFails(s) \/ \E m \in Modes : Restart(s, m)
            <3>1. Leave(s) /\ UNCHANGED <<ledger, handled, given>>
                  BY <2>14 DEF LedgerFails, Restart
            <3>2. CallTrue(s)'
                  BY <1>2, <3>1, LeaveDoes, IdleIsACall DEF CallTrue
            <3>3. QED BY <1>2, <2>0, <3>1, <3>2, EntryStays
      <2>15. QED
            BY <1>2, <2>1, <2>2, <2>3, <2>4, <2>5, <2>6, <2>7, <2>8, <2>9, <2>10, <2>11, <2>12,
               <2>13, <2>14
            DEF ServerNext
<1>3. ASSUME OneServer, Typed, LedgerTrue, NEW s \in Servers, ServerNext(s)
      PROVE  LedgerTrue'
      <2>1. \A t \in Servers : t = s
            BY <1>3 DEF OneServer
      <2>2. QED BY <1>2, <1>3, <2>1 DEF LedgerTrue
<1>4. QED BY <1>1, <1>3 DEF Next

(***************************************************************************)
(* Theorems                                                                *)
(***************************************************************************)

LEMMA TypedHolds == Spec => []Typed
<1>1. Init => Typed
      BY TypedInit
<1>2. Typed /\ [Next]_vars => Typed'
      BY TypedNext
<1>3. QED BY <1>1, <1>2, PTL DEF Spec

(* Spec keeps the ledger true when nobody else writes it.                  *)
LEMMA LedgerHolds ==
  ASSUME OneServer
  PROVE  Spec => [](Typed /\ LedgerTrue)
<1>1. Init => Typed /\ LedgerTrue
      BY TypedInit, LedgerInit
<1>2. Typed /\ LedgerTrue /\ [Next]_vars => (Typed /\ LedgerTrue)'
      BY OneServer, TypedNext, LedgerNext
<1>3. QED BY <1>1, <1>2, PTL DEF Spec

(* Entries and calls stay well formed, and an entry holds an answer once   *)
(* it has an outcome, with any number of servers on one ledger: what one   *)
(* server overwrites with a ledger it read is a ledger.                    *)
THEOREM TypeCorrect == Spec => []TypeOK
<1>1. Typed => TypeOK
      BY TypedIsTypeOK
<1>2. QED BY <1>1, TypedHolds, PTL

(* With any number of servers, no session logs more handler runs than its  *)
(* cap: CheckCap compares the records logged since the session opened,     *)
(* which other sessions can only make more (guard.go, audit.Append).       *)
THEOREM CapIsKept == Spec => []CapHolds
<1>1. Init => Typed /\ CapCounts
      BY TypedInit, CapInit
<1>2. Typed /\ CapCounts /\ [Next]_vars => (Typed /\ CapCounts)'
      BY TypedNext, CapNext
<1>3. Typed /\ CapCounts => CapHolds
      <2> SUFFICES ASSUME Typed, CapCounts, NEW s \in Servers, ~Bypasses(s)
                   PROVE  spent[s] <= Cap
          BY DEF CapHolds
      <2>1. spent[s] <= audited[s] /\ audited[s] \in 0..Cap /\ spent[s] \in Nat
            BY DEF Typed, CountsTyped, CapCounts
      <2>2. QED BY <2>1, CapIsNatural
<1>4. QED BY <1>1, <1>2, <1>3, PTL DEF Spec

(* With one server at a time on a project, a request id runs its handler   *)
(* at most once, whatever is resent, refused or cut short: Start writes    *)
(* the intent before the handler, and FindRequest answers what is known.   *)
THEOREM HandlerRunsOnce ==
  ASSUME OneServer
  PROVE  Spec => []HandledOnce
<1>1. LedgerTrue => HandledOnce
      <2> SUFFICES ASSUME LedgerTrue, NEW r \in Requests
                   PROVE  Len(handled[r]) <= 1
          BY DEF HandledOnce
      <2>1. handled[r] = << >> \/ \E o \in Outcomes : handled[r] = <<o>>
            BY DEF LedgerTrue, EntryTrue, RanOnce
      <2>2. CASE handled[r] = << >>
            <3>1. Len(<< >>) = 0 OBVIOUS
            <3>2. QED BY <2>2, <3>1
      <2>3. ASSUME NEW o \in Outcomes, handled[r] = <<o>>
            PROVE  Len(handled[r]) <= 1
            BY <2>3
      <2>4. QED BY <2>1, <2>2, <2>3
<1>2. QED BY <1>1, LedgerHolds, OneServer, PTL

(* With one server at a time, all the answers ever given for a request id  *)
(* are the same.                                                           *)
THEOREM ReplaysAgree ==
  ASSUME OneServer
  PROVE  Spec => []AnswersAgree
<1>1. LedgerTrue => AnswersAgree
      BY DEF LedgerTrue, EntryTrue, AnswersAgree
<1>2. QED BY <1>1, LedgerHolds, OneServer, PTL

(* With one server at a time, a settled entry tells what its handler did,  *)
(* unless an operator settled it.                                          *)
THEOREM EntriesAreTrue ==
  ASSUME OneServer
  PROVE  Spec => []OutcomesTrue
<1>1. Typed /\ LedgerTrue => OutcomesTrue
      BY DEF LedgerTrue, EntryTrue, OutcomesTrue, Settled
<1>2. QED BY <1>1, LedgerHolds, OneServer, PTL

(* The action of UnknownNotRepeated. *)
StartStep ==
  \A s \in Servers : StartWrites(s) =>
    \A q \in Requests : Known(q) /\ ledger[q].effect = call[s].effect =>
      ledger[q].state # "unknown"

(* With one server at a time, nothing equivalent to an operation of        *)
(* unknown outcome is started (Start looks at every entry).                *)
THEOREM UnknownIsNotRepeated ==
  ASSUME OneServer
  PROVE  Spec => UnknownNotRepeated
<1>1. LedgerTrue /\ [Next]_vars => [StartStep]_vars
      BY DEF LedgerTrue, CallTrue, StartStep, StartWrites
<1>2. QED BY <1>1, LedgerHolds, OneServer, PTL DEF Spec, UnknownNotRepeated, StartStep
=============================================================================
