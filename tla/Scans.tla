------------------------------- MODULE Scans -------------------------------
(***************************************************************************)
(* The MCP server of internal/mcp/server.go answering the tools that       *)
(* analyse a site with Upgrade Status (scan, validate, upgrade_scan) and   *)
(* the two that put the module there and take it away                      *)
(* (prepare_upgrade_status and cleanup).                                   *)
(*                                                                         *)
(* The server answers one request at a time.  A handler runs commands, one *)
(* after the other, each under a deadline: it ends, well or badly, or the  *)
(* deadline passes and its process group is sent SIGTERM, when it may have *)
(* had its effect, may have none, or may outlive the signal and have it    *)
(* later (a command that a container runs is not in that group).  That     *)
(* goes for every command alike.                                           *)
(*                                                                         *)
(* A finding is a row of the report; informational rows are findings too.  *)
(* The filters by scope, module and file are left out, as are the rows'    *)
(* texts: the evidence hash of a report is the set of its rows.            *)
(***************************************************************************)
EXTENDS Naturals, FiniteSets

CONSTANTS
  Findings,     \* the rows a report may have
  Infos,        \* those of severity info
  MaxAttempts,  \* runs of a retried handler (maxAttempts of retryLoop)
  Blank,        \* an output of nothing, or of white space
  Notices,      \* one of drush notices only, or that says "no errors found"
  Garbage,      \* an output that is neither a report nor the lack of one
  Nil           \* no evidence, no answer

ASSUME InfosAreFindings == IsFiniteSet(Findings) /\ Infos \subseteq Findings
ASSUME OutputsAreNoReports ==
  /\ Blank # Notices /\ Garbage \notin {Blank, Notices}
  /\ \A rows \in SUBSET Findings : rows \notin {Blank, Notices, Garbage}
ASSUME MaxAttemptsIsPositive == MaxAttempts \in Nat \ {0}

VARIABLES
  site,      \* composer.json, the enabled modules, the code
  survivors, \* steps whose command goes on after its deadline
  belated,   \* drush en or composer remove had its effect so (observation)
  evidence,  \* the hash the client had from the last validate, or Nil
  call,      \* the request the server is at work on
  answer,    \* its last answer
  seen       \* what there was to find since the request came (observation)

vars == <<site, survivors, belated, evidence, call, answer, seen>>

Analyses == {"scan", "validate", "upgrade_scan"}
Tools == Analyses \cup {"prepare_upgrade_status", "cleanup"}

(* The tools whose descriptor is RetryEligible. *)
RetryEligible == Analyses

Commands ==
  {"list", "analyse", "dry_run", "require", "look", "delete_config", "en", "cr",
   "uninstall", "remove"}

(* The others change nothing of the site: it is all one when they end.     *)
Changing == {"require", "en", "uninstall", "remove"}

Site == [required : BOOLEAN, enabled : BOOLEAN, findings : SUBSET Findings]

Evidence == (SUBSET Findings) \cup {Nil}

Calls ==
  [tool : Tools, step : Commands \cup {"start"}, attempt : 1..MaxAttempts,
   pin : Evidence, passed : BOOLEAN]

Idle == [tool |-> Nil, step |-> "idle", attempt |-> 0, pin |-> Nil, passed |-> FALSE]

Init ==
  /\ site \in {s \in Site : s.enabled => s.required}
  /\ survivors = {} /\ belated = FALSE
  /\ evidence = Nil
  /\ call = Idle
  /\ answer = Nil
  /\ seen = {}

Running(step) == call.step = step
-----------------------------------------------------------------------------
(***************************************************************************)
(* Requests and answers                                                    *)
(***************************************************************************)

(* The client may pin a validate to the evidence it has, and tells cleanup *)
(* whether the validation passed.                                          *)
Request(tool) ==
  /\ Running("idle")
  /\ \E pin \in IF tool = "validate" THEN {Nil, evidence} ELSE {Nil},
        passed \in IF tool = "cleanup" THEN BOOLEAN ELSE {FALSE} :
       call' = [tool |-> tool, step |-> "start", attempt |-> 1, pin |-> pin, passed |-> passed]
  /\ answer' = Nil
  /\ seen' = {site.findings}
  /\ UNCHANGED <<site, survivors, belated, evidence>>

Proceed(step) ==
  /\ call' = [call EXCEPT !.step = step]
  /\ UNCHANGED <<answer, evidence>>

(* The envelope: a handler's error is an answer too. *)
Answer(envelope) ==
  /\ answer' = envelope
  /\ call' = Idle
  /\ UNCHANGED evidence

Pass == Answer([tool |-> call.tool, status |-> "pass"])
Fail == Answer([tool |-> call.tool, status |-> "fail"])

(* The guard of a mutating tool, when its handler met a deadline. *)
Doubt == Answer([tool |-> call.tool, status |-> "unknown"])

(* Mutant of MayRetry: one attempt more than the limit. *)
RetryOnceMore == call.tool \in RetryEligible /\ call.attempt <= MaxAttempts

MayRetry == call.tool \in RetryEligible /\ call.attempt < MaxAttempts

(* Mutant of FailOrRetry: attempts are not counted. *)
RetryUncounted(transient) ==
  IF transient /\ MayRetry
    THEN call' = [call EXCEPT !.step = "start"] /\ UNCHANGED <<answer, evidence>>
    ELSE Fail

(* retryLoop: the whole handler runs again after a transient error. *)
FailOrRetry(transient) ==
  IF transient /\ MayRetry
    THEN /\ call' = [call EXCEPT !.step = "start", !.attempt = @ + 1]
         /\ UNCHANGED <<answer, evidence>>
    ELSE Fail
-----------------------------------------------------------------------------
(***************************************************************************)
(* How a command ends                                                      *)
(***************************************************************************)

(* What the command of a step does to the site.  The configuration object  *)
(* update.settings, which is deleted before the module is enabled, is left *)
(* out.                                                                    *)
Effect(step, s) ==
  CASE step = "require" -> [s EXCEPT !.required = TRUE]
    [] step = "en" -> [s EXCEPT !.enabled = s.enabled \/ s.required]
    [] step = "uninstall" -> [s EXCEPT !.enabled = FALSE]
    [] step = "remove" -> [s EXCEPT !.required = FALSE]
    [] OTHER -> s

(* A module is enabled only where its code is. *)
CanSucceed == Running("en") => site.required

Succeeds ==
  /\ CanSucceed
  /\ site' = Effect(call.step, site)
  /\ UNCHANGED <<survivors, belated, seen>>

(* One that fails may have done its work before. *)
Breaks ==
  /\ site' \in {site, Effect(call.step, site)}
  /\ UNCHANGED <<survivors, belated, seen>>

(* runBounded returns at the deadline, whatever becomes of the command. *)
TimesOut ==
  /\ \/ site' = site /\ survivors' = survivors
     \/ site' = Effect(call.step, site) /\ survivors' = survivors
     \/ site' = site /\ survivors' = survivors \cup ({call.step} \cap Changing)
  /\ UNCHANGED <<belated, seen>>

NothingRuns == UNCHANGED <<site, survivors, belated, seen>>
-----------------------------------------------------------------------------
(***************************************************************************)
(* The analyses: the module must be there and enabled; then one command    *)
(***************************************************************************)

(* requirePreparedUpgradeStatus: its errors are never transient, because   *)
(* they do not carry the cause.                                            *)
StartAnalysis ==
  /\ Running("start") /\ call.tool \in Analyses
  /\ IF site.required THEN Proceed("list") ELSE Fail
  /\ NothingRuns

ListEnabled ==
  /\ Running("list")
  /\ \/ Succeeds /\ site.enabled /\ Proceed("analyse")
     \/ Succeeds /\ ~site.enabled /\ Fail
     \/ Breaks /\ Fail
     \/ TimesOut /\ Fail

(* Mutant of CarriesData: an exit code that says nothing. *)
CarriesAnything(exit) == exit \in Nat

(* isScanExitOK: 0 is no findings, 3 is findings, any other an error. *)
CarriesData(exit) == exit \in {0, 3}

(* ParseCheckstyle takes the lack of a report for a report without rows, *)
(* if there is nothing else or only notices.                             *)
Parses(out) == out # Garbage
Rows(out) == IF out \in {Blank, Notices} THEN {} ELSE out

(* What a tool counts of the rows: scan leaves the informational ones out. *)
Total(tool, rows) == Cardinality(IF tool = "scan" THEN rows \ Infos ELSE rows)

Result(exit, rows) ==
  [tool |-> call.tool, status |-> "pass", exit |-> exit, rows |-> rows,
   total |-> Total(call.tool, rows), pin |-> call.pin]

(* An exit code of 3 without any output is a crash; one with notices is not *)
(* taken for one.                                                           *)
Refused(exit, out) == ~CarriesData(exit) \/ (exit = 3 /\ out = Blank) \/ ~Parses(out)

(* scan and validate; the text of an error may be that of a transient one. *)
Refuse == \E transient \in BOOLEAN : FailOrRetry(transient)

AnswerScan(exit, out) ==
  /\ call.tool = "scan"
  /\ IF Refused(exit, out) THEN Refuse ELSE Answer(Result(exit, Rows(out)))

(* The pin is compared before anything is reported. *)
Stale(out) == call.pin \notin {Nil, Rows(out)}

AnswerValidate(exit, out) ==
  /\ call.tool = "validate"
  /\ \/ Refused(exit, out) /\ Refuse
     \/ ~Refused(exit, out) /\ Stale(out) /\ Fail
     \/ /\ ~Refused(exit, out) /\ ~Stale(out)
        /\ answer' = Result(exit, Rows(out))
        /\ call' = Idle
        /\ evidence' = Rows(out)

(* upgrade_scan looks at the exit code only to word a warning. *)
AnswerUpgradeScan(exit, out) ==
  /\ call.tool = "upgrade_scan"
  /\ Answer(Result(exit, IF Parses(out) THEN Rows(out) ELSE {}))

Analysed(exit, out) ==
  AnswerScan(exit, out) \/ AnswerValidate(exit, out) \/ AnswerUpgradeScan(exit, out)

Analyse ==
  /\ Running("analyse")
  /\ \/ Succeeds /\ Analysed(IF site.findings = {} THEN 0 ELSE 3, site.findings)
     \/ Breaks /\ \E exit \in {1, 3}, out \in {Blank, Notices, Garbage} : Analysed(exit, out)
     \/ TimesOut /\ FailOrRetry(TRUE)
-----------------------------------------------------------------------------
(***************************************************************************)
(* prepare_upgrade_status: composer require, unless composer.json has the  *)
(* package; then enable the module, unless pm:list names it                *)
(***************************************************************************)

StartPrepare ==
  /\ Running("start") /\ call.tool = "prepare_upgrade_status"
  /\ Proceed(IF site.required THEN "look" ELSE "dry_run")
  /\ NothingRuns

(* A step that must succeed before the next. *)
Must(step, next) ==
  /\ Running(step)
  /\ \/ Succeeds /\ next
     \/ Breaks /\ Fail
     \/ TimesOut /\ Doubt

(* A step whose failure is ignored. *)
Try(step, next) ==
  /\ Running(step)
  /\ Succeeds \/ Breaks \/ TimesOut
  /\ next

ComposerDryRun == Must("dry_run", Proceed("require"))
ComposerRequire == Must("require", Proceed("look"))

(* A pm:list that fails is taken for one that does not name the module. *)
LookIfEnabled ==
  /\ Running("look")
  /\ \/ Succeeds /\ site.enabled /\ Pass
     \/ Succeeds /\ ~site.enabled /\ Proceed("delete_config")
     \/ Breaks /\ Proceed("delete_config")
     \/ TimesOut /\ Proceed("delete_config")

DeleteConfig == Try("delete_config", Proceed("en"))
Enable == Must("en", Proceed("cr"))
RebuildCaches == Try("cr", Pass)
-----------------------------------------------------------------------------
(***************************************************************************)
(* cleanup (RunCleanup)                                                    *)
(***************************************************************************)

StartCleanup ==
  /\ Running("start") /\ call.tool = "cleanup"
  /\ IF call.passed /\ site.required THEN Proceed("uninstall") ELSE Pass
  /\ NothingRuns

(* Mutant of UninstallModule: the package goes even if the module stays. *)
UninstallIfPossible == Try("uninstall", Proceed("remove"))

UninstallModule == Must("uninstall", Proceed("remove"))

ComposerRemove == Must("remove", Pass)
-----------------------------------------------------------------------------
(***************************************************************************)
(* The rest of the world                                                   *)
(***************************************************************************)

(* Code is edited whenever its authors like, an analysis going on or not. *)
CodeChanges(findings) ==
  /\ findings # site.findings
  /\ site' = [site EXCEPT !.findings = findings]
  /\ seen' = IF Running("idle") THEN seen ELSE seen \cup {findings}
  /\ UNCHANGED <<survivors, belated, evidence, call, answer>>

SurvivorEnds(step) ==
  /\ step \in survivors
  /\ survivors' = survivors \ {step}
  /\ \/ UNCHANGED <<site, belated>>
     \/ /\ site' = Effect(step, site)
        /\ belated' = (belated \/ step \in {"en", "remove"})
  /\ UNCHANGED <<evidence, call, answer, seen>>

Serve ==
  \/ StartAnalysis \/ ListEnabled \/ Analyse
  \/ StartPrepare \/ ComposerDryRun \/ ComposerRequire \/ LookIfEnabled
  \/ DeleteConfig \/ Enable \/ RebuildCaches
  \/ StartCleanup \/ UninstallModule \/ ComposerRemove

Next ==
  \/ \E tool \in Tools : Request(tool)
  \/ Serve
  \/ \E findings \in SUBSET Findings : CodeChanges(findings)
  \/ \E step \in Changing : SurvivorEnds(step)

(* The server goes on with its request: every command it waits for ends,   *)
(* if only at its deadline.                                                *)
Spec == Init /\ [][Next]_vars /\ WF_vars(Serve)
-----------------------------------------------------------------------------
(***************************************************************************)
(* Properties                                                              *)
(***************************************************************************)

TypeOK ==
  /\ site \in Site
  /\ survivors \subseteq Changing
  /\ belated \in BOOLEAN
  /\ evidence \in Evidence
  /\ call \in Calls \cup {Idle}
  /\ seen \subseteq SUBSET Findings

(* What scan and validate report is what there was to find at some moment  *)
(* since the request came, however many times the handler ran and whatever *)
(* changed meanwhile; and a validate pinned to earlier evidence passes     *)
(* only if the code had those very findings again.  There is one way       *)
(* around it: an analysis that breaks with the exit code of findings and   *)
(* leaves only notices is reported as no findings.  (realHandleScan,       *)
(* realHandleValidate, ParseCheckstyle, retryLoop)                         *)
AnswersReportSite ==
  answer # Nil /\ answer.status = "pass" /\ answer.tool \in {"scan", "validate"} =>
    \/ /\ \E findings \in seen :
            /\ answer.rows = findings
            /\ answer.total = Total(answer.tool, findings)
       /\ answer.tool = "validate" /\ answer.pin # Nil => answer.pin \in seen
    \/ /\ answer.exit = 3 /\ answer.rows = {}
       /\ answer.tool = "validate" => answer.pin \in {Nil, {}}

(* Whatever fails, times out or is done twice, Upgrade Status is never     *)
(* enabled on a site without its code: it is required before it is enabled *)
(* and uninstalled before it is removed.  Unless, that is, a drush en or a *)
(* composer remove that the server had given up at its deadline went on    *)
(* and had its effect afterwards.  (realHandlePrepareUpgradeStatus,        *)
(* RunCleanup, runBounded)                                                 *)
ModuleKeepsItsCode == site.enabled => site.required \/ belated

(* Every request is answered, though the commands may time out every time: *)
(* a hanging command is cut off, and retries come to an end.  (runBounded, *)
(* retryLoop)                                                              *)
EveryCallAnswered == ~Running("idle") ~> Running("idle")

(* An analysis that failed is not reported as a result: "failure stops at  *)
(* the first failing sub-step (install / enable / analyze) and reports     *)
(* exactly which one" (docs/mcp-tools.md, upgrade_scan).                   *)
FailedAnalysisIsReported ==
  answer # Nil /\ answer.status = "pass" /\ answer.tool \in Analyses =>
    CarriesData(answer.exit)
=============================================================================
