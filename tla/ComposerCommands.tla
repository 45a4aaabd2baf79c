--------------------------- MODULE ComposerCommands ---------------------------
(***************************************************************************)
(* The commands that rewrite composer.json: the core upgrade               *)
(* (app/commands.go, coreupgrade), the lenient list (app/lenient.go), and  *)
(* the patches of contributed modules (patch, app/contrib_patch.go,        *)
(* create_patch of app/mcp_tools.go).                                      *)
(*                                                                         *)
(* One command runs at a time.  Its steps are the external commands and    *)
(* the writes it makes, each of which may fail; the process may die        *)
(* between any two.  Between commands people commit, discard and install.  *)
(* drup writes composer.json and its backup with os.WriteFile, which       *)
(* empties the file first: a write that fails leaves it as it was or torn. *)
(*                                                                         *)
(* composer.json, composer.lock, the patches directory, composer.json.bak  *)
(* are files git sees; the installed code under vendor and modules/contrib *)
(* is ignored by git.  The code of a module is the set of changes made to  *)
(* what its project published, and so is a patch.                          *)
(***************************************************************************)
EXTENDS Integers

CONSTANTS
  Installed,         \* Drupal major of the project at first
  Catalog,           \* pairs <<from, to>> of KnownCatalog
  Packages,          \* contributed modules
  Upstream,          \* patches on drupal.org, each a change of its own
  MaxCommands,       \* bound: commands that begin
  Torn,              \* a file whose write broke off: it does not parse
  Nil

ASSUME MajorsAssumption == Installed \in Nat \ {0} /\ Catalog \subseteq Nat \X Nat
ASSUME BoundAssumption == MaxCommands \in Nat

VARIABLES
  composer,          \* composer.json, or Torn
  backup,            \* composer.json.bak, or Torn, or Nil
  lock, code, db,    \* the major in composer.lock, installed, and of the database
  plugin,            \* whether the lenient plugin is installed
  tree,              \* the changes each module's installed code has
  patches,           \* the files in patches/, each a set of changes, or Nil
  head,              \* what is committed
  call,              \* the running command, or Nil
  begun,             \* commands that began
  last,              \* the command that ended last, with its outcome, or Nil
  unfinished         \* observed: whether the core moved in composer.json, or
                     \* was moved back, without a complete upgrade since

project == <<composer, backup, lock, code, db, plugin, tree, patches, head>>
vars ==
  <<composer, backup, lock, code, db, plugin, tree, patches, head, call, begun, last, unfinished>>

Majors == {Installed} \cup {jump[1] : jump \in Catalog} \cup {jump[2] : jump \in Catalog}
Changes == {"declaration", "rector"} \cup Upstream

LocalRefs == {"compatibility", "created"} \X Packages
Refs == LocalRefs \cup {<<"upstream", u>> : u \in Upstream}

(* composer-patches keys the patches of a package by their description. *)
Keys == {"compatibility", "described"}

(* core: the drupal/core requirements; dev: drupal/core-dev, if required;  *)
(* policy: the plugin and advisory settings of the core upgrade; trusted,  *)
(* declared: the lenient plugin in allow-plugins and require-dev.          *)
ComposerFile ==
  [core : Majors, dev : Majors \cup {Nil}, policy : BOOLEAN, trusted : BOOLEAN,
   declared : BOOLEAN, lenient : SUBSET Packages,
   patches : [Packages -> [Keys -> Refs \cup {Nil}]]]

ASSUME NilIsNothing ==
  /\ Nil \notin Packages \cup Refs \cup ComposerFile \cup {Torn}
  /\ \A changes \in SUBSET Changes : changes # Nil

ASSUME TornIsNoFile == Torn \notin ComposerFile

Init ==
  /\ composer \in {[core |-> Installed, dev |-> d, policy |-> FALSE, trusted |-> FALSE,
                    declared |-> FALSE, lenient |-> {},
                    patches |-> [p \in Packages |-> [k \in Keys |-> Nil]]] :
                     d \in {Installed, Nil}}
  /\ backup = Nil
  /\ lock = Installed /\ code = Installed /\ db = Installed
  /\ plugin = FALSE
  /\ tree = [p \in Packages |-> {}]
  /\ patches = [r \in LocalRefs |-> Nil]
  /\ head = [composer |-> composer, lock |-> lock, patches |-> patches]
  /\ call = Nil /\ begun = 0 /\ last = Nil /\ unfinished = FALSE

(***************************************************************************)
(* Commands                                                                *)
(***************************************************************************)

(* git status --porcelain says nothing. *)
IsClean ==
  /\ composer = head.composer /\ lock = head.lock /\ patches = head.patches
  /\ backup = Nil

(* A command remembers what it read when it began; what it lost of its own *)
(* writes, and whether the tree was clean, is observed.                    *)
Command(name, target, p) ==
  [name |-> name, at |-> "begun", target |-> target, package |-> p,
   composer |-> composer, code |-> IF p = Nil THEN {} ELSE tree[p], ref |-> Nil, key |-> Nil,
   clean |-> IsClean, lost |-> {}]

At(name, step) == call # Nil /\ call.name = name /\ call.at = step

MayBegin == call = Nil /\ begun < MaxCommands /\ begun' = begun + 1

Begins(command, step) == MayBegin /\ call' = [command EXCEPT !.at = step] /\ last' = Nil
Goes(step) == call' = [call EXCEPT !.at = step] /\ UNCHANGED <<begun, last>>
Ends(outcome) == call' = Nil /\ last' = [call EXCEPT !.at = outcome] /\ UNCHANGED begun

(* The same, for a command one of whose writes failed. *)
GoesWithout(lost, step) ==
  call' = [call EXCEPT !.at = step, !.lost = @ \cup {lost}] /\ UNCHANGED <<begun, last>>
EndsWithout(lost, outcome) ==
  call' = Nil /\ last' = [call EXCEPT !.at = outcome, !.lost = @ \cup {lost}] /\ UNCHANGED begun

(* A command that ends with its first checks. *)
EndsAtOnce(command, outcome) == MayBegin /\ call' = Nil /\ last' = [command EXCEPT !.at = outcome]

(* Mutant of CoreAt: the wrong requirement moves. *)
CoreDevAt(m) == composer' = [composer EXCEPT !.dev = m]

(* The core requirement moved to a major, by applyConstraint or composer. *)
CoreAt(m) == composer' = [composer EXCEPT !.core = m]

Content(ref) == IF ref \in LocalRefs THEN patches[ref] ELSE {ref[2]}

(* A registered reference under a key takes the place of another. *)
Registered(p, key, ref) == [composer EXCEPT !.patches[p][key] = ref]

(* What the registered patches of a module make of the published code. *)
Recorded(p) ==
  UNION {Content(composer.patches[p][k]) :
           k \in {k \in Keys : composer.patches[p][k] # Nil /\ Content(composer.patches[p][k]) # Nil}}

(* composer installs modules again, with their registered patches. *)
Reinstalled == [p \in Packages |-> Recorded(p)]

(***************************************************************************)
(* drup upgrade-core and core_upgrade_apply                                *)
(***************************************************************************)

(* upgradeplan.Build has a route, ApplyPlan takes only one step of it. *)
HasStep(from, to) == to = from + 1 /\ <<from, to>> \in Catalog

(* A composer.json that does not parse has no plan. *)
MayStep(t) == composer # Torn /\ HasStep(composer.core, t)
AlreadyAtTarget(t) == composer # Torn /\ composer.core = t

SameInstallation == UNCHANGED <<lock, code, db, plugin, tree, patches, head>>

(* The plan is a no-op, which is answered with success; or there is no     *)
(* plan, or the tree is not clean.  None of the files of this model passes *)
(* as drup's own (withoutDrupArtifacts).                                   *)
RefuseUpgrade(t, allowDirty) ==
  /\ UNCHANGED project /\ UNCHANGED unfinished
  /\ \/ AlreadyAtTarget(t) /\ EndsAtOnce(Command("upgrade-core", t, Nil), "no-op")
     \/ /\ ~AlreadyAtTarget(t)
        /\ ~MayStep(t) \/ ~(allowDirty \/ IsClean)
        /\ EndsAtOnce(Command("upgrade-core", t, Nil), "refused")

BeginUpgrade(t, allowDirty) ==
  /\ MayStep(t)
  /\ allowDirty \/ IsClean
  /\ Begins(Command("upgrade-core", t, Nil), "backup")
  /\ CoreAt(t)
  /\ unfinished' = TRUE
  /\ UNCHANGED backup /\ SameInstallation

(* What a write of os.WriteFile that fails leaves of a file. *)
Broken(file) == {file, Torn}

(* ApplyStep cannot write composer.json: the upgrade, or the tool, ends    *)
(* there, before any backup.                                               *)
ApplyStepFails(name, t, allowDirty) ==
  /\ MayStep(t)
  /\ (allowDirty /\ name = "upgrade-core") \/ IsClean
  /\ composer' \in Broken(composer)
  /\ EndsAtOnce([Command(name, t, Nil) EXCEPT !.lost = {"composer.json"}], "not written")
  /\ UNCHANGED <<backup, unfinished>> /\ SameInstallation

(* Mutant of BackedUp: the file as it is by now. *)
BackedUpLate(file) == composer

(* What os.WriteFile of the backup is given. *)
BackedUp(file) == file

(* The error of the write is not looked at. *)
WriteBackup ==
  /\ At("upgrade-core", "backup")
  /\ \/ backup' = BackedUp(call.composer) /\ Goes("policy")
     \/ backup' \in Broken(backup) /\ GoesWithout("backup", "policy")
  /\ UNCHANGED <<composer, unfinished>> /\ SameInstallation

(* composer config: allow-plugins of the core plugins, then the policy. *)
PolicySet == [composer EXCEPT !.policy = TRUE]

SetPolicy ==
  /\ At("upgrade-core", "policy")
  /\ composer' = PolicySet
  /\ Goes("require")
  /\ UNCHANGED <<backup, unfinished>> /\ SameInstallation

(* composer require --no-update, for the core packages and then for        *)
(* drupal/core-dev when the file read at first had it.                     *)
RequireCore ==
  /\ At("upgrade-core", "require")
  /\ CoreAt(call.target)
  /\ Goes(IF call.composer.dev = Nil THEN "update" ELSE "require dev")
  /\ UNCHANGED <<backup, unfinished>> /\ SameInstallation

RequireCoreDev ==
  /\ At("upgrade-core", "require dev")
  /\ composer' = [composer EXCEPT !.dev = call.target]
  /\ Goes("update")
  /\ UNCHANGED <<backup, unfinished>> /\ SameInstallation

(* composer update resolves only if core-dev does not pin another major. *)
Resolvable == composer.dev \in {Nil, composer.core}

Update ==
  /\ At("upgrade-core", "update")
  /\ Resolvable
  /\ lock' = composer.core /\ code' = composer.core
  /\ tree' \in {tree, Reinstalled}
  /\ Goes("updb")
  /\ UNCHANGED <<composer, backup, db, plugin, patches, head, unfinished>>

(* What is in the backup, if there is one and it can be written back: the  *)
(* error of that write is not looked at either.                            *)
restoreComposerJSON(outcome) ==
  \/ composer' = (IF backup = Nil THEN composer ELSE backup) /\ Ends(outcome)
  \/ composer' \in Broken(composer) /\ EndsWithout("restore", outcome)

(* It fails to resolve and changes nothing, or fails later, with the lock   *)
(* written and the code replaced or not.                                    *)
UpdateFails ==
  /\ At("upgrade-core", "update")
  /\ \/ UNCHANGED <<lock, code>>
     \/ Resolvable /\ lock' = composer.core /\ code' \in {code, composer.core}
  /\ restoreComposerJSON("update failed")
  /\ UNCHANGED <<backup, db, plugin, tree, patches, head, unfinished>>

(* Mutant of UpdateDatabase: its exit code is not looked at. *)
UpdateDatabaseUnchecked ==
  /\ At("upgrade-core", "updb")
  /\ db' \in {db, code}
  /\ Goes("status")
  /\ UNCHANGED <<composer, backup, lock, code, plugin, tree, patches, head, unfinished>>

UpdateDatabase ==
  /\ At("upgrade-core", "updb")
  /\ db' = code
  /\ Goes("status")
  /\ UNCHANGED <<composer, backup, lock, code, plugin, tree, patches, head, unfinished>>

(* drush status names the target, or no version that can be read. *)
VerifyUpgrade ==
  /\ At("upgrade-core", "status")
  /\ backup' = Nil
  /\ Ends("ok")
  /\ unfinished' = FALSE
  /\ UNCHANGED composer /\ SameInstallation

FailingSteps == {"policy", "require", "require dev", "updb", "status"}

(* Any other command of the upgrade fails, and the upgrade with it. *)
UpgradeStepFails ==
  /\ call # Nil /\ call.name = "upgrade-core" /\ call.at \in FailingSteps
  /\ db' \in {db} \cup (IF call.at = "updb" THEN {code} ELSE {})
  /\ composer' \in {composer} \cup (IF call.at = "policy" THEN {PolicySet} ELSE {})
  /\ Ends("step failed")
  /\ UNCHANGED <<backup, lock, code, plugin, tree, patches, head, unfinished>>

(* The tool core_upgrade_apply: the rewrite alone, on a clean tree. *)
ApplyCoreStep(t) ==
  /\ MayStep(t) /\ IsClean
  /\ EndsAtOnce(Command("core_upgrade_apply", t, Nil), "ok")
  /\ CoreAt(t)
  /\ unfinished' = TRUE
  /\ UNCHANGED backup /\ SameInstallation

(***************************************************************************)
(* drup allow-lenient, alone or as the last step of contrib-patch          *)
(***************************************************************************)

NeedsPlugin == IF plugin THEN "list" ELSE "trust"

(* It has to parse composer.json. *)
BeginLenient(p) ==
  /\ composer # Torn
  /\ Begins(Command("allow-lenient", Nil, p), NeedsPlugin)
  /\ UNCHANGED project /\ UNCHANGED unfinished

AtLenient(step) == call # Nil /\ call.name \in {"allow-lenient", "contrib-patch"} /\ call.at = step

OnlyComposerChanges ==
  UNCHANGED <<backup, lock, code, db, plugin, tree, patches, head, unfinished>>

TrustPlugin ==
  /\ AtLenient("trust")
  /\ composer' = [composer EXCEPT !.trusted = TRUE]
  /\ Goes("require plugin")
  /\ OnlyComposerChanges

(* composer require --dev -W.  It needs a lock that satisfies the          *)
(* requirements; it may exit with 0 and leave the plugin declared only.    *)
RequirePlugin ==
  /\ AtLenient("require plugin")
  /\ composer.core = lock
  /\ composer' = [composer EXCEPT !.declared = TRUE]
  /\ plugin' \in BOOLEAN
  /\ tree' \in {tree, Reinstalled}
  /\ Goes("check plugin")
  /\ UNCHANGED <<backup, lock, code, db, patches, head, unfinished>>

(* Mutant of PluginInstalled: what composer.json says. *)
PluginDeclared == composer.declared

(* lenientPluginInstalled *)
PluginInstalled == plugin

CheckPlugin ==
  /\ AtLenient("check plugin")
  /\ IF PluginInstalled THEN Goes("list") ELSE Ends("failed")
  /\ UNCHANGED project /\ UNCHANGED unfinished

(* What follows in contrib-patch measures and changes nothing. *)
ListPackage ==
  /\ AtLenient("list")
  /\ composer' = [composer EXCEPT !.lenient = @ \cup {call.package}]
  /\ Ends("ok")
  /\ OnlyComposerChanges

LenientStepFails ==
  /\ AtLenient("trust") \/ AtLenient("require plugin") \/ AtLenient("list")
  /\ composer' \in CASE call.at = "trust" -> {composer}
                     [] call.at = "require plugin" -> {composer, [composer EXCEPT !.declared = TRUE]}
                     [] call.at = "list" -> Broken(composer)
  /\ Ends("failed")
  /\ OnlyComposerChanges

(***************************************************************************)
(* Patches                                                                 *)
(***************************************************************************)

OnlyTreeChanges == UNCHANGED <<composer, backup, lock, code, db, plugin, patches, head, unfinished>>

(* git apply --check: no hunk is applied already. *)
Applies(ref, p) == Content(ref) # Nil /\ Content(ref) \cap tree[p] = {}

RefuseApply(p, ref) ==
  /\ EndsAtOnce([Command("apply-patch", Nil, p) EXCEPT !.ref = ref], "not applied")
  /\ UNCHANGED project /\ UNCHANGED unfinished

(* git apply takes all of a patch or nothing. *)
BeginApply(p, ref) ==
  /\ Applies(ref, p)
  /\ Begins([Command("apply-patch", Nil, p) EXCEPT !.ref = ref, !.key = "described"], "register")
  /\ tree' = [tree EXCEPT ![p] = @ \cup Content(ref)]
  /\ OnlyTreeChanges

RegisterApplied ==
  /\ At("apply-patch", "register")
  /\ composer # Torn
  /\ composer' = Registered(call.package, call.key, call.ref)
  /\ Ends("ok")
  /\ OnlyComposerChanges

(* Mutant of Reverted: the changes stay. *)
NotReverted(p, ref) == tree

(* git apply -R *)
Reverted(p, ref) == [tree EXCEPT ![p] = @ \ Content(ref)]

(* composer.json does not parse or cannot be written.  Whether git apply   *)
(* -R then succeeds is not looked at.                                      *)
RegisterAppliedFails ==
  /\ At("apply-patch", "register")
  /\ composer' \in Broken(composer)
  /\ \/ tree' = Reverted(call.package, call.ref) /\ Ends("not applied")
     \/ UNCHANGED tree /\ EndsWithout("revert", "not applied")
  /\ UNCHANGED <<backup, lock, code, db, plugin, patches, head, unfinished>>

(* create_patch: rector runs on the module itself, whatever its exit code, *)
(* and the difference to the copy made before becomes a file (bound: one   *)
(* file of create_patch for a module; the code gives each a new name).     *)
CreatePatch(p) ==
  /\ patches[<<"created", p>>] = Nil
  /\ \E rewritten \in {tree[p], tree[p] \cup {"rector"}}, written \in BOOLEAN :
       /\ written => rewritten # tree[p]
       /\ tree' = [tree EXCEPT ![p] = rewritten]
       /\ patches' = IF written THEN [patches EXCEPT ![<<"created", p>>] = rewritten \ tree[p]]
                     ELSE patches
       /\ EndsAtOnce(Command("create_patch", Nil, p), IF written THEN "ok" ELSE "failed")
  /\ UNCHANGED <<composer, backup, lock, code, db, plugin, head, unfinished>>

(***************************************************************************)
(* drup contrib-patch                                                      *)
(***************************************************************************)

Declares(p) == "declaration" \in tree[p]

(* The copy to compare with is made here, of the code as it is. *)
BeginContribPatch(p, declarationOnly) ==
  /\ IF Declares(p) /\ declarationOnly
     THEN EndsAtOnce(Command("contrib-patch", Nil, p), "no patch needed")
     ELSE Begins(Command("contrib-patch", Nil, p),
                 IF Declares(p) THEN "rector"
                 ELSE IF declarationOnly THEN "declare only" ELSE "declare")
  /\ UNCHANGED project /\ UNCHANGED unfinished

WidenDeclaration ==
  /\ At("contrib-patch", "declare") \/ At("contrib-patch", "declare only")
  /\ tree' = [tree EXCEPT ![call.package] = @ \cup {"declaration"}]
  /\ Goes(IF call.at = "declare" THEN "rector" ELSE "diff")
  /\ OnlyTreeChanges

(* rectorModule, then phpcbf: there may be nothing to rewrite. *)
RunRector ==
  /\ At("contrib-patch", "rector")
  /\ tree' \in {tree, [tree EXCEPT ![call.package] = @ \cup {"rector"}]}
  /\ Goes("diff")
  /\ OnlyTreeChanges

RectorFails ==
  /\ At("contrib-patch", "rector")
  /\ tree' \in {tree, [tree EXCEPT ![call.package] = @ \cup {"rector"}]}
  /\ Ends("failed")
  /\ OnlyTreeChanges

(* Mutant of Difference: of the declaration alone. *)
DifferenceOfDeclaration(p) == {"declaration"} \ call.code

(* git diff --no-index of the copy and the module. *)
Difference(p) == tree[p] \ call.code

NoDifference ==
  /\ At("contrib-patch", "diff")
  /\ Difference(call.package) = {}
  /\ Ends("failed")
  /\ UNCHANGED project /\ UNCHANGED unfinished

(* The file has one name per module and major, whatever it held. *)
WritePatch ==
  /\ At("contrib-patch", "diff")
  /\ Difference(call.package) # {}
  /\ patches' = [patches EXCEPT ![<<"compatibility", call.package>>] = Difference(call.package)]
  /\ Goes("register")
  /\ UNCHANGED <<composer, backup, lock, code, db, plugin, tree, head, unfinished>>

RegisterContribPatch ==
  /\ At("contrib-patch", "register")
  /\ composer # Torn
  /\ composer' = Registered(call.package, "compatibility", <<"compatibility", call.package>>)
  /\ Goes(NeedsPlugin)
  /\ OnlyComposerChanges

ContribStepFails ==
  /\ \E step \in {"declare", "declare only", "diff", "register"} : At("contrib-patch", step)
  /\ composer' \in IF call.at = "register" THEN Broken(composer) ELSE {composer}
  /\ Ends("failed")
  /\ OnlyComposerChanges

(***************************************************************************)
(* Everything else                                                         *)
(***************************************************************************)

(* The process of the command dies. *)
Crash ==
  /\ call # Nil
  /\ call' = Nil /\ last' = Nil
  /\ UNCHANGED project /\ UNCHANGED <<begun, unfinished>>

(* Someone commits everything and removes the backup. *)
Commit ==
  /\ call = Nil
  /\ head' = [composer |-> composer, lock |-> lock, patches |-> patches]
  /\ backup' = Nil
  /\ last' = Nil
  /\ UNCHANGED <<composer, lock, code, db, plugin, tree, patches, call, begun, unfinished>>

(* git reset --hard and git clean: the ignored code and the database stay, *)
(* at a major that may not be that of the files.                           *)
Discard ==
  /\ call = Nil
  /\ composer' = head.composer /\ lock' = head.lock /\ patches' = head.patches
  /\ backup' = Nil
  /\ last' = Nil
  /\ unfinished' = (unfinished \/ lock # head.lock \/ head.composer = Torn \/ head.composer.core # lock)
  /\ UNCHANGED <<code, db, plugin, tree, head, call, begun>>

(* composer install on a lock that satisfies composer.json.  composer-     *)
(* patches stops at a file that is missing.                                *)
Install ==
  /\ call = Nil
  /\ composer # Torn
  /\ composer.core = lock
  /\ \A p \in Packages, k \in Keys :
       composer.patches[p][k] # Nil => Content(composer.patches[p][k]) # Nil
  /\ code' = lock
  /\ plugin' = (composer.declared /\ composer.trusted)
  /\ tree' = Reinstalled
  /\ last' = Nil
  /\ UNCHANGED <<composer, backup, lock, db, patches, head, call, begun, unfinished>>

Upgrade ==
  \/ \E t \in Majors, allowDirty \in BOOLEAN : RefuseUpgrade(t, allowDirty) \/ BeginUpgrade(t, allowDirty)
  \/ WriteBackup \/ SetPolicy \/ RequireCore \/ RequireCoreDev \/ Update \/ UpdateFails
  \/ UpdateDatabase \/ VerifyUpgrade \/ UpgradeStepFails
  \/ \E t \in Majors : ApplyCoreStep(t)
  \/ \E name \in {"upgrade-core", "core_upgrade_apply"}, t \in Majors, allowDirty \in BOOLEAN :
       ApplyStepFails(name, t, allowDirty)

Lenient ==
  \/ \E p \in Packages : BeginLenient(p)
  \/ TrustPlugin \/ RequirePlugin \/ CheckPlugin \/ ListPackage \/ LenientStepFails

Patching ==
  \/ \E p \in Packages : \E ref \in Refs : RefuseApply(p, ref) \/ BeginApply(p, ref)
  \/ RegisterApplied \/ RegisterAppliedFails
  \/ \E p \in Packages : CreatePatch(p)

ContribPatch ==
  \/ \E p \in Packages, declarationOnly \in BOOLEAN : BeginContribPatch(p, declarationOnly)
  \/ WidenDeclaration \/ RunRector \/ RectorFails \/ NoDifference \/ WritePatch
  \/ RegisterContribPatch \/ ContribStepFails

Next == Upgrade \/ Lenient \/ Patching \/ ContribPatch \/ Crash \/ Commit \/ Discard \/ Install

Spec == Init /\ [][Next]_vars
-----------------------------------------------------------------------------
(***************************************************************************)
(* Properties                                                              *)
(***************************************************************************)

(* Files are well formed; a command that ran to its update, to its         *)
(* database or to its list did not skip what it needs for that.            *)
TypeOK ==
  /\ composer \in ComposerFile \cup {Torn}
  /\ backup \in ComposerFile \cup {Torn, Nil}
  /\ lock \in Majors /\ code \in Majors /\ db \in Majors
  /\ plugin \in BOOLEAN /\ unfinished \in BOOLEAN /\ begun \in 0 .. MaxCommands
  /\ tree \in [Packages -> SUBSET Changes]
  /\ patches \in [LocalRefs -> {Nil} \cup (SUBSET Changes)]
  /\ At("upgrade-core", "update") => composer.core = call.target
  /\ At("upgrade-core", "updb") => lock = call.target /\ code = call.target

LastIs(name, outcomes) == last # Nil /\ last.name = name /\ last.at \in outcomes

(* An upgrade that ran to its end is one: requirements, lock, code and     *)
(* database are at the target together, and core-dev does not lag behind.  *)
(* The other success, "already at target", is as good only while every     *)
(* move of the core requirement so far was part of a complete upgrade.     *)
UpgradeIsComplete ==
  /\ LastIs("upgrade-core", {"ok"}) =>
       /\ lock = last.target /\ code = last.target /\ db = last.target
       /\ composer.core = last.target /\ composer.dev \in {Nil, last.target}
  /\ LastIs("upgrade-core", {"no-op"}) /\ ~unfinished =>
       lock = last.target /\ code = last.target /\ db = last.target

(* "already at target" is no success of a half-done upgrade.               *)
NoOpIsComplete ==
  LastIs("upgrade-core", {"no-op"}) =>
    lock = last.target /\ code = last.target /\ db = last.target

(* An upgrade that fails leaves the original composer.json: what was       *)
(* committed, when it began on a clean tree; on any tree, when no write of *)
(* its own failed, the backup, and after a failed update it has also put   *)
(* it back, with everything other commands had registered there.           *)
FailedUpgradeIsRecoverable ==
  LastIs("upgrade-core", {"not written", "step failed", "update failed"}) =>
    /\ last.clean => head.composer = last.composer
    /\ last.lost = {} => backup = last.composer
    /\ last.lost = {} /\ last.at = "update failed" => composer = last.composer

(* A lenient pass that succeeds has an effect: the package is listed, and  *)
(* the plugin that reads the list is installed, not declared only.         *)
LenientHasEffect ==
  LastIs("allow-lenient", {"ok"}) \/ LastIs("contrib-patch", {"ok"}) =>
    plugin /\ last.package \in composer.lenient

(* Applying a patch is all or nothing: it is in the code and registered,   *)
(* or it is not registered and the code is what it was.  Only where git    *)
(* apply -R failed too does the code keep it, all of it, with no trace in  *)
(* composer.json, which a failed write may have torn.                      *)
ApplyIsAtomic ==
  /\ LastIs("apply-patch", {"ok"}) =>
       Content(last.ref) \subseteq tree[last.package] \cap Recorded(last.package)
  /\ LastIs("apply-patch", {"not applied"}) =>
       /\ composer \in Broken(last.composer)
       /\ tree[last.package] = IF "revert" \in last.lost THEN last.code \cup Content(last.ref)
                               ELSE last.code

(* A compatibility patch made of published code records all that the       *)
(* command changed: installing the project anew gives the same code.       *)
PatchOfPublishedCodeIsWhole ==
  LastIs("contrib-patch", {"ok"}) /\ last.code = {} =>
    tree[last.package] \subseteq Recorded(last.package)
==============================================================================
