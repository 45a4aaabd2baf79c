----------------------------- MODULE MCRunState -----------------------------
(* Bounds for model-checking RunState: how far a run goes, how many plans  *)
(* it retires, how much evidence it keeps, and what does not change while  *)
(* a project is upgraded.  Of several runs, Leader is the one that goes    *)
(* that far; the others stay in their first phase.                         *)
EXTENDS RunState, FiniteSets, TLC

CONSTANTS
  Leader,
  StrategiesUsed, \* commit strategies of the runs
  Bounds          \* how far a run of each strategy goes (see below)

(* rank: of the last phase explored; plans, evidence, candidates: how many *)
(* a run sees; managed: the project has config/sync; smoke: it configures  *)
(* smoke commands; stray: plans of a changed configuration are begun, but  *)
(* not executed; captures: inventories are recorded, the baseline always,  *)
(* and a contrib plan in the report phase, where nothing else is left;     *)
(* refusals: evidence a completion must refuse is recorded too;            *)
(* paths: the path sets a plan may declare; statuses: those a run takes.   *)
BoundNames ==
  {"rank", "plans", "evidence", "candidates", "managed", "smoke", "stray",
   "captures", "refusals", "paths", "statuses"}

ASSUME BoundsCover == \A s \in StrategiesUsed : DOMAIN Bounds[s] = BoundNames

(* The whole walk, of a run with one commit at its end. *)
WholeWalk ==
  [rank |-> 13, plans |-> 6, evidence |-> 7, candidates |-> 1,
   managed |-> FALSE, smoke |-> TRUE, stray |-> FALSE, captures |-> TRUE,
   refusals |-> FALSE, paths |-> {Paths},
   statuses |-> {"active", "completed"}]

(* Two plans of one phase, two candidates, receipts, and a second run. *)
TwoPlans ==
  [rank |-> 7, plans |-> 2, evidence |-> 3, candidates |-> 2,
   managed |-> FALSE, smoke |-> FALSE, stray |-> TRUE, captures |-> FALSE,
   refusals |-> TRUE, paths |-> {Paths},
   statuses |-> {"active", "blocked", "completed", "abandoned"}]

(* One active run into its second checkpoint phase, with plans of more and *)
(* of fewer paths.                                                         *)
Stranding ==
  [rank |-> 8, plans |-> 3, evidence |-> 2, candidates |-> 1,
   managed |-> FALSE, smoke |-> FALSE, stray |-> FALSE, captures |-> FALSE,
   refusals |-> TRUE, paths |-> {{p} : p \in Paths} \cup {Paths},
   statuses |-> {"active"}]

WholeAndPlans == [single |-> WholeWalk] @@ ("per-fix" :> TwoPlans)
StrandingOnly == "per-fix" :> Stranding

(* The executor writes the plan's own paths into all its evidence and a    *)
(* candidate only into that of a validation; where refusals are looked at, *)
(* a validation with no paths, or of no candidate, stands for the evidence *)
(* a completion must refuse.                                               *)
PlanWithinBounds(plan, bound) ==
  /\ plan.requireExport = bound.managed
  /\ \/ plan.smoke = bound.smoke
     \/ bound.stray /\ \A s \in StepNames : plan.steps[s].status \in {"absent", "pending"}
  /\ plan.paths \in bound.paths
  /\ \A s \in StepNames : plan.steps[s].evidence # Nil =>
       LET e == plan.steps[s].evidence IN
       /\ plan.steps[s].status # "succeeded" => e.candidate = Nil
       /\ s = "validation" /\ plan.steps[s].status = "succeeded" =>
            bound.refusals \/ e.candidate # Nil
       /\ \/ e.paths = plan.paths
          \/ bound.refusals /\ s = "validation" /\ plan.steps[s].status = "succeeded" /\ e.paths = {}

EvidenceWithinBounds(log, bound) ==
  /\ Len(log) <= bound.evidence
  /\ \A i \in 1..Len(log) :
       /\ log[i].kind = "validation" => log[i].phase \in CheckpointPhases
       /\ log[i].validation # Nil /\ log[i].candidate # Nil
       /\ log[i].paths \in bound.paths

CandidatesOf(run) ==
  ({run.evidence[i].candidate : i \in 1..Len(run.evidence)}
     \cup UNION {{plan.candidate, plan.steps["validation"].evidence.candidate} :
                   plan \in {p \in Plans(run) : p.steps["validation"].evidence # Nil}})
    \ {Nil}

CapturesWithinBounds(run, bound) ==
  IF bound.captures
  THEN /\ PhaseRank[run.phase] > PhaseRank["baseline"] => run.baseline # Nil
       /\ run.contribPlan # Nil => PhaseRank[run.phase] >= PhaseRank["report"]
  ELSE run.baseline = Nil /\ run.final = Nil /\ run.contribPlan = Nil

WithinBounds(run) ==
  /\ run.strategy \in StrategiesUsed
  /\ LET bound == Bounds[run.strategy] IN
     /\ PhaseRank[run.phase] <= bound.rank
     /\ Cardinality(Plans(run)) <= bound.plans
     /\ run.status \in bound.statuses
     /\ CapturesWithinBounds(run, bound)
     /\ Cardinality(CandidatesOf(run)) <= bound.candidates
     /\ EvidenceWithinBounds(run.evidence, bound)
     /\ \A plan \in Plans(run) : PlanWithinBounds(plan, bound)

(* The action constraint of every run.  Nobody confirms a mutation for the *)
(* leader; other runs are of its kind when it has a second plan, and come  *)
(* and go until the leader first has evidence.                             *)
StepWithinBounds ==
  /\ runs'[Leader] # Nil => WithinBounds(runs'[Leader]) /\ runs'[Leader].confirmations = {}
  /\ \A id \in RunIds \ {Leader} : runs'[id] # Nil =>
       /\ WithinBounds(runs'[id])
       /\ runs'[id].strategy = "per-fix"
       /\ PhaseRank[runs'[id].phase] = 1 /\ runs'[id].evidence = << >>
       /\ runs'[Leader] # Nil =>
            runs'[Leader].strategy = "per-fix" /\ runs'[Leader].evidence = << >>

Alike == Permutations(Candidates)
=============================================================================
