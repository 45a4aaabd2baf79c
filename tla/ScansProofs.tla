---------------------------- MODULE ScansProofs ----------------------------
(* Theorems about Scans, for any constants.                                *)
EXTENDS Scans, TLAPS

(***************************************************************************)
(* Where a handler may be, and where one step takes it                     *)
(***************************************************************************)

StepsOf(tool) ==
  IF tool \in Analyses THEN {"list", "analyse"}
  ELSE IF tool = "cleanup" THEN {"uninstall", "remove"}
  ELSE {"dry_run", "require", "look", "delete_config", "en", "cr"}

HandlerInPlace == call # Idle => call.step \in {"start"} \cup StepsOf(call.tool)

Typed == TypeOK /\ HandlerInPlace

(* A step that reports nothing of the code. *)
HandlerMoves ==
  \/ \E step \in StepsOf(call.tool) :
       Proceed(step) /\ (step = "remove" => Running("uninstall") /\ Succeeds)
  \/ Pass /\ call.tool \notin Analyses
  \/ Fail \/ Doubt
  \/ \E transient \in BOOLEAN : FailOrRetry(transient)

(* A report: in scan and validate, of an output that is not refused.       *)
Reports(exit, out) ==
  /\ call' = Idle
  /\ evidence' \in {evidence, Rows(out)}
  /\ answer'.tool = call.tool
  /\ call.tool \in {"scan", "validate"} =>
       /\ ~Refused(exit, out)
       /\ answer'.rows = Rows(out) /\ answer'.exit = exit
       /\ answer'.total = Total(call.tool, Rows(out))
  /\ call.tool = "validate" => answer'.pin \in {Nil, Rows(out)}

(* An output that was read off the code, or is taken for such a one.       *)
Read(exit, out) == out = site.findings \/ (exit = 3 /\ out = Notices)

LEMMA EffectsAreSites ==
  ASSUME NEW step, NEW s \in Site
  PROVE  Effect(step, s) \in Site /\ Effect(step, s).findings = s.findings
BY DEF Effect, Site

(* Any end of a command, where there was one to run. *)
LEMMA CommandsEnd ==
  ASSUME TypeOK, NothingRuns \/ Succeeds \/ Breaks \/ TimesOut
  PROVE  /\ site' \in Site /\ site'.findings = site.findings
         /\ site' \in {site, Effect(call.step, site)}
         /\ survivors' \subseteq survivors \cup Changing
         /\ UNCHANGED <<belated, seen>>
BY EffectsAreSites DEF TypeOK, NothingRuns, Succeeds, Breaks, TimesOut

LEMMA RunningIsACall ==
  ASSUME TypeOK, call.step # "idle"
  PROVE  call \in Calls /\ call # Idle
BY DEF TypeOK, Idle

LEMMA IdleIsNoCall == Idle \notin Calls
BY DEF Calls, Commands, Idle

LEMMA CallsStayTyped ==
  ASSUME Typed, call \in Calls, HandlerMoves
  PROVE  /\ call' \in Calls \cup {Idle}
         /\ HandlerInPlace'
         /\ evidence' \in Evidence
<1>1. ASSUME NEW step \in StepsOf(call.tool), Proceed(step)
      PROVE  call' \in Calls /\ HandlerInPlace' /\ evidence' \in Evidence
  <2>1. step \in Commands
    BY DEF StepsOf, Commands
  <2> QED
    BY <1>1, <2>1 DEF Typed, TypeOK, HandlerInPlace, Proceed, Calls
<1>2. ASSUME Pass \/ Fail \/ Doubt
      PROVE  call' = Idle /\ HandlerInPlace' /\ evidence' \in Evidence
  BY <1>2 DEF Typed, TypeOK, HandlerInPlace, Pass, Fail, Doubt, Answer
<1>3. ASSUME NEW transient \in BOOLEAN, FailOrRetry(transient)
      PROVE  call' \in Calls \cup {Idle} /\ HandlerInPlace' /\ evidence' \in Evidence
  <2>1. CASE transient /\ MayRetry
    <3>1. call.attempt + 1 \in 1..MaxAttempts
      BY <2>1, MaxAttemptsIsPositive DEF MayRetry, Calls
    <3> QED
      BY <1>3, <2>1, <3>1 DEF Typed, TypeOK, HandlerInPlace, FailOrRetry, Calls
  <2>2. CASE ~(transient /\ MayRetry)
    BY <1>2, <1>3, <2>2 DEF FailOrRetry
  <2> QED
    BY <2>1, <2>2
<1> QED
  BY <1>1, <1>2, <1>3 DEF HandlerMoves

LEMMA AnalysedMovesOrReports ==
  ASSUME NEW exit, NEW out, Analysed(exit, out)
  PROVE  \/ HandlerMoves
         \/ Reports(exit, out) /\ (evidence' = evidence \/ ~Refused(exit, out))
<1>1. CASE AnswerScan(exit, out)
  BY <1>1 DEF AnswerScan, Refuse, HandlerMoves, Answer, Result, Reports
<1>2. CASE AnswerValidate(exit, out)
  BY <1>2 DEF AnswerValidate, Refuse, HandlerMoves, Stale, Result, Reports
<1>3. CASE AnswerUpgradeScan(exit, out)
  BY <1>3 DEF AnswerUpgradeScan, Answer, Result, Reports
<1> QED
  BY <1>1, <1>2, <1>3 DEF Analysed

(* The end of an analysis: it read the code, or is refused by scan and     *)
(* validate, or left notices and an exit code of 3, or the deadline has    *)
(* passed.                                                                 *)
LEMMA AnalysisEnds ==
  ASSUME Typed, Analyse
  PROVE  /\ call \in Calls
         /\ Succeeds \/ Breaks \/ TimesOut
         /\ \/ HandlerMoves
            \/ \E exit, out :
                 /\ Reports(exit, out)
                 /\ ~Refused(exit, out) => Read(exit, out)
                 /\ evidence' = evidence \/ ~Refused(exit, out)
<1>1. call \in Calls
  BY RunningIsACall DEF Typed, Analyse, Running
<1>2. CASE Succeeds /\ Analysed(IF site.findings = {} THEN 0 ELSE 3, site.findings)
  BY <1>1, <1>2, AnalysedMovesOrReports DEF Read
<1>3. CASE Breaks /\ \E exit \in {1, 3}, out \in {Blank, Notices, Garbage} : Analysed(exit, out)
  <2>1. PICK exit \in {1, 3}, out \in {Blank, Notices, Garbage} : Analysed(exit, out)
    BY <1>3
  <2>2. ~Refused(exit, out) => Read(exit, out)
    BY <2>1 DEF Refused, CarriesData, Parses, Read
  <2> QED
    BY <1>1, <1>3, <2>1, <2>2, AnalysedMovesOrReports
<1>4. CASE TimesOut /\ FailOrRetry(TRUE)
  BY <1>1, <1>4 DEF HandlerMoves
<1> QED
  BY <1>2, <1>3, <1>4 DEF Analyse

(* Every other step of the server. *)
LEMMA OtherStepsMove ==
  ASSUME Typed, Serve, ~Analyse
  PROVE  /\ call \in Calls
         /\ HandlerMoves
         /\ NothingRuns \/ Succeeds \/ Breaks \/ TimesOut
<1>1. /\ call.step # "idle" => call \in Calls /\ call # Idle
      /\ call # Idle => call.step \in {"start"} \cup StepsOf(call.tool)
      /\ call \in Calls => call.tool \in Tools
  BY RunningIsACall DEF Typed, HandlerInPlace, Calls
<1>2. CASE StartAnalysis \/ StartPrepare \/ StartCleanup
  BY <1>1, <1>2 DEF StartAnalysis, StartPrepare, StartCleanup, Running, HandlerMoves, StepsOf,
                    Analyses
<1>3. CASE ListEnabled
  BY <1>1, <1>3 DEF ListEnabled, Running, HandlerMoves, StepsOf, Analyses, Tools
<1>4. CASE LookIfEnabled \/ ComposerDryRun \/ ComposerRequire \/ DeleteConfig \/ Enable
             \/ RebuildCaches
  BY <1>1, <1>4 DEF LookIfEnabled, ComposerDryRun, ComposerRequire, DeleteConfig, Enable,
                    RebuildCaches, Must, Try, Running, HandlerMoves, StepsOf, Analyses, Tools
<1>5. CASE UninstallModule \/ ComposerRemove
  BY <1>1, <1>5 DEF UninstallModule, ComposerRemove, Must, Running, HandlerMoves, StepsOf,
                    Analyses, Tools
<1> QED
  BY <1>2, <1>3, <1>4, <1>5 DEF Serve

(***************************************************************************)
(* Types                                                                   *)
(***************************************************************************)

LEMMA ServeKeepsTypes ==
  ASSUME Typed, Serve
  PROVE  Typed'
<1>1. /\ call \in Calls
      /\ NothingRuns \/ Succeeds \/ Breaks \/ TimesOut
  BY AnalysisEnds, OtherStepsMove
<1>2. site' \in Site /\ survivors' \subseteq Changing /\ belated' \in BOOLEAN /\ seen' \subseteq SUBSET Findings
  BY <1>1, CommandsEnd DEF Typed, TypeOK
<1>3. CASE HandlerMoves
  BY <1>1, <1>2, <1>3, CallsStayTyped DEF Typed, TypeOK
<1>4. CASE Analyse /\ ~HandlerMoves
  <2>1. PICK exit, out :
          /\ Reports(exit, out)
          /\ ~Refused(exit, out) => Read(exit, out)
          /\ evidence' = evidence \/ ~Refused(exit, out)
    BY <1>4, AnalysisEnds
  <2>2. ~Refused(exit, out) => Rows(out) \in SUBSET Findings
    BY <2>1 DEF Rows, Read, Typed, TypeOK, Site
  <2>3. evidence' \in Evidence /\ call' = Idle
    BY <2>1, <2>2 DEF Reports, Typed, TypeOK, Evidence
  <2> QED
    BY <1>2, <2>3 DEF Typed, TypeOK, HandlerInPlace
<1> QED
  BY <1>3, <1>4, OtherStepsMove

LEMMA StepKeepsTypes ==
  ASSUME Typed, [Next]_vars
  PROVE  Typed'
<1>1. ASSUME NEW tool \in Tools, Request(tool)
      PROVE  Typed'
  <2>1. PICK pin \in IF tool = "validate" THEN {Nil, evidence} ELSE {Nil}, passed \in BOOLEAN :
          call' = [tool |-> tool, step |-> "start", attempt |-> 1, pin |-> pin,
                   passed |-> passed]
    BY <1>1 DEF Request
  <2>2. pin \in Evidence /\ 1 \in 1..MaxAttempts
    BY MaxAttemptsIsPositive DEF Typed, TypeOK, Evidence
  <2>3. call' \in Calls /\ call'.step = "start"
    BY <2>1, <2>2 DEF Calls
  <2>4. site.findings \in SUBSET Findings
    BY DEF Typed, TypeOK, Site
  <2> QED
    BY <1>1, <2>3, <2>4 DEF Request, Typed, TypeOK, HandlerInPlace
<1>2. CASE Serve
  BY <1>2, ServeKeepsTypes
<1>3. ASSUME NEW findings \in SUBSET Findings, CodeChanges(findings)
      PROVE  Typed'
  BY <1>3 DEF CodeChanges, Typed, TypeOK, HandlerInPlace, Site
<1>4. ASSUME NEW step \in Changing, SurvivorEnds(step)
      PROVE  Typed'
  BY <1>4, EffectsAreSites DEF SurvivorEnds, Typed, TypeOK, HandlerInPlace
<1>5. CASE UNCHANGED vars
  BY <1>5 DEF vars, Typed, TypeOK, HandlerInPlace
<1> QED
  BY <1>1, <1>2, <1>3, <1>4, <1>5 DEF Next

LEMMA AlwaysTyped == Spec => []Typed
<1>1. Init => Typed
  BY DEF Init, Typed, TypeOK, HandlerInPlace, Site, Evidence
<1> QED
  BY <1>1, StepKeepsTypes, PTL DEF Spec

(* The state the server keeps has its type in every behaviour; no handler  *)
(* runs more often than the limit.  (retryLoop)                            *)
THEOREM ServerTypes == Spec => []TypeOK
<1>1. Typed => TypeOK
  BY DEF Typed
<1> QED
  BY <1>1, AlwaysTyped, PTL

(***************************************************************************)
(* Upgrade Status is not enabled without its code.                         *)
(***************************************************************************)

(* No module is enabled while its package is removed: cleanup has          *)
(* uninstalled it, and nothing but an earlier drush en enables it in the   *)
(* meantime.                                                               *)
WholeModule ==
  /\ ModuleKeepsItsCode
  /\ Running("remove") => ~site.enabled \/ belated

LEMMA EffectsKeepCode ==
  ASSUME NEW step, NEW s \in Site, s.enabled => s.required
  PROVE  LET after == Effect(step, s)
         IN  /\ step # "remove" \/ ~s.enabled => (after.enabled => after.required)
             /\ step # "en" => (after.enabled => s.enabled)
             /\ step = "uninstall" => ~after.enabled
BY DEF Effect, Site

LEMMA StepKeepsModule ==
  ASSUME Typed, WholeModule, [Next]_vars
  PROVE  WholeModule'
<1>0. /\ site \in Site /\ belated \in BOOLEAN
      /\ (site.enabled => site.required) \/ belated
  BY DEF Typed, TypeOK, WholeModule, ModuleKeepsItsCode
<1>1. CASE belated
  <2>1. belated'
    BY <1>1, AnalysisEnds, OtherStepsMove
    DEF Next, vars, Request, CodeChanges, SurvivorEnds, Succeeds, Breaks, TimesOut, NothingRuns
  <2> QED
    BY <2>1 DEF WholeModule, ModuleKeepsItsCode
<1>2. ASSUME ~belated, NEW tool \in Tools, Request(tool)
      PROVE  WholeModule'
  BY <1>2 DEF Request, WholeModule, ModuleKeepsItsCode, Running
<1>3. CASE ~belated /\ Serve
  <2>1. NothingRuns \/ Succeeds \/ Breaks \/ TimesOut
    BY <1>3, AnalysisEnds, OtherStepsMove
  <2>2. site' \in {site, Effect(call.step, site)}
    BY <2>1, CommandsEnd DEF Typed
  <2>3. ModuleKeepsItsCode'
    BY <1>0, <1>3, <2>2, EffectsKeepCode DEF ModuleKeepsItsCode, WholeModule, Running
  <2>4. ASSUME Running("remove")'
        PROVE  Running("uninstall") /\ Succeeds
    <3>1. call' # Idle /\ call'.step = "remove"
      BY <2>4 DEF Running, Idle
    <3>2. HandlerMoves
      BY <1>3, <3>1, AnalysisEnds, OtherStepsMove DEF Reports
    <3>3. ~Pass /\ ~Fail /\ ~Doubt
      BY <3>1 DEF Pass, Fail, Doubt, Answer
    <3>4. ASSUME NEW transient \in BOOLEAN, FailOrRetry(transient)
          PROVE  FALSE
      <4>1. call \in Calls
        BY <1>3, AnalysisEnds, OtherStepsMove
      <4>2. call'.step = "start"
        BY <3>3, <3>4, <4>1 DEF FailOrRetry, Calls
      <4> QED
        BY <3>1, <4>2
    <3>5. PICK step \in StepsOf(call.tool) :
            Proceed(step) /\ (step = "remove" => Running("uninstall") /\ Succeeds)
      BY <3>2, <3>3, <3>4 DEF HandlerMoves
    <3>6. call'.step = step
      <4>1. call \in Calls
        BY <1>3, AnalysisEnds, OtherStepsMove
      <4> QED
        BY <3>5, <4>1 DEF Proceed, Calls
    <3> QED
      BY <3>1, <3>5, <3>6
  <2>5. Running("remove")' => ~site'.enabled
    BY <1>0, <1>3, <2>4, EffectsKeepCode DEF Succeeds, Running
  <2> QED
    BY <2>3, <2>5 DEF WholeModule
<1>4. ASSUME ~belated, NEW findings \in SUBSET Findings, CodeChanges(findings)
      PROVE  WholeModule'
  BY <1>0, <1>4 DEF CodeChanges, WholeModule, ModuleKeepsItsCode, Running, Site
<1>5. ASSUME ~belated, NEW step \in Changing, SurvivorEnds(step)
      PROVE  WholeModule'
  <2>1. CASE belated'
    BY <2>1 DEF WholeModule, ModuleKeepsItsCode
  <2>2. CASE ~belated'
    <3>1. /\ site' = site \/ (site' = Effect(step, site) /\ step \notin {"en", "remove"})
          /\ call' = call
      BY <1>5, <2>2 DEF SurvivorEnds
    <3> QED
      BY <1>0, <1>5, <3>1, EffectsKeepCode DEF WholeModule, ModuleKeepsItsCode, Running
  <2> QED
    BY <2>1, <2>2
<1>6. CASE UNCHANGED vars
  BY <1>6 DEF vars, WholeModule, ModuleKeepsItsCode, Running
<1> QED
  BY <1>1, <1>2, <1>3, <1>4, <1>5, <1>6 DEF Next

(* No failure, deadline, retry or order of requests leaves Upgrade Status  *)
(* enabled without its code, but for a drush en or a composer remove that  *)
(* has its effect after its deadline.  (RunCleanup, runBounded,            *)
(* realHandlePrepareUpgradeStatus)                                         *)
THEOREM ModuleStaysWhole == Spec => []ModuleKeepsItsCode
<1>1. Init => WholeModule
  BY DEF Init, WholeModule, ModuleKeepsItsCode, Running, Idle
<1>2. Typed /\ WholeModule /\ [Next]_vars => WholeModule'
  BY StepKeepsModule
<1>3. WholeModule => ModuleKeepsItsCode
  BY DEF WholeModule
<1> QED
  BY <1>1, <1>2, <1>3, AlwaysTyped, PTL DEF Spec

(***************************************************************************)
(* What scan and validate answer                                           *)
(***************************************************************************)

(* While a handler runs nothing is answered, and what the code holds has   *)
(* been seen.                                                              *)
SeenWhileRunning ==
  call # Idle => answer = Nil /\ site.findings \in seen

Faithful == AnswersReportSite /\ SeenWhileRunning

LEMMA StepKeepsAnswers ==
  ASSUME Typed, Faithful, [Next]_vars
  PROVE  Faithful'
<1>1. ASSUME NEW tool \in Tools, Request(tool)
      PROVE  Faithful'
  BY <1>1 DEF Request, Faithful, AnswersReportSite, SeenWhileRunning
<1>2. CASE Serve
  <2>1. /\ call \in Calls
        /\ NothingRuns \/ Succeeds \/ Breaks \/ TimesOut
    BY <1>2, AnalysisEnds, OtherStepsMove
  <2>2. /\ answer = Nil /\ site.findings \in seen
        /\ site'.findings = site.findings /\ seen' = seen
    BY <2>1, CommandsEnd, IdleIsNoCall DEF Faithful, SeenWhileRunning, Typed
  <2>3. CASE HandlerMoves
    <3>1. \/ answer' = Nil
          \/ \E status \in {"fail", "unknown"} :
               answer' = [tool |-> call.tool, status |-> status] /\ call' = Idle
          \/ /\ answer' = [tool |-> call.tool, status |-> "pass"] /\ call' = Idle
             /\ call.tool \notin {"scan", "validate"}
      BY <2>2, <2>3 DEF HandlerMoves, Proceed, Pass, Fail, Doubt, FailOrRetry, Answer, Analyses
    <3> QED
      BY <2>2, <3>1 DEF Faithful, AnswersReportSite, SeenWhileRunning
  <2>4. CASE Analyse /\ ~HandlerMoves
    <3>1. PICK exit, out :
            /\ Reports(exit, out)
            /\ ~Refused(exit, out) => Read(exit, out)
      BY <2>4, AnalysisEnds
    <3>2. Rows(site.findings) = site.findings /\ Rows(Notices) = {}
      BY OutputsAreNoReports DEF Rows, Typed, TypeOK, Site
    <3>3. call.tool \in {"scan", "validate"} =>
            /\ answer'.exit = exit /\ answer'.rows = Rows(out)
            /\ answer'.total = Total(call.tool, Rows(out))
            /\ call.tool = "validate" => answer'.pin \in {Nil, Rows(out)}
            /\ answer'.tool = call.tool
            /\ Read(exit, out)
      BY <3>1 DEF Reports
    <3>4. AnswersReportSite'
      BY <2>2, <3>1, <3>2, <3>3 DEF Reports, Read, AnswersReportSite
    <3> QED
      BY <3>1, <3>4 DEF Reports, Faithful, SeenWhileRunning
  <2> QED
    BY <1>2, <2>3, <2>4, OtherStepsMove
<1>3. ASSUME NEW findings \in SUBSET Findings, CodeChanges(findings)
      PROVE  Faithful'
  <2>1. /\ site'.findings = findings /\ answer' = answer /\ call' = call
        /\ seen \subseteq seen'
        /\ call # Idle => findings \in seen'
    <3>1. call # Idle => ~Running("idle")
      BY DEF Typed, TypeOK, Calls, Commands, Running
    <3> QED
      BY <1>3, <3>1 DEF CodeChanges, Typed, TypeOK, Site
  <2> QED
    BY <2>1 DEF Faithful, AnswersReportSite, SeenWhileRunning
<1>4. ASSUME NEW step \in Changing, SurvivorEnds(step)
      PROVE  Faithful'
  <2>1. site'.findings = site.findings
    BY <1>4, EffectsAreSites DEF SurvivorEnds, Typed, TypeOK
  <2> QED
    BY <1>4, <2>1 DEF SurvivorEnds, Faithful, AnswersReportSite, SeenWhileRunning
<1>5. CASE UNCHANGED vars
  BY <1>5 DEF vars, Faithful, AnswersReportSite, SeenWhileRunning
<1> QED
  BY <1>1, <1>2, <1>3, <1>4, <1>5 DEF Next

(* What scan and validate answer is what there was to find during the      *)
(* request, whatever commands failed, were retried or outlived their       *)
(* deadline, except that no findings may stand for an analysis that broke  *)
(* with exit code 3 and left only notices.  (realHandleScan,               *)
(* realHandleValidate, ParseCheckstyle)                                    *)
THEOREM AnswersAreFaithful == Spec => []AnswersReportSite
<1>1. Init => Faithful
  BY DEF Init, Faithful, AnswersReportSite, SeenWhileRunning
<1>2. Faithful => AnswersReportSite
  BY DEF Faithful
<1> QED
  BY <1>1, <1>2, StepKeepsAnswers, AlwaysTyped, PTL DEF Spec
=============================================================================
