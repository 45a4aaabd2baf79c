------------------------ MODULE ComposerCommandsProofs ------------------------
(* Theorems about ComposerCommands, for any catalogue, packages, patches    *)
(* and number of commands.                                                  *)
EXTENDS ComposerCommands, TLAPS

(***************************************************************************)
(* What a command holds at each of its steps                               *)
(***************************************************************************)

UpgradeSteps == {"backup", "policy", "require", "require dev", "update", "updb", "status"}
LenientSteps == {"trust", "require plugin", "check plugin", "list"}
ContribSteps == {"declare", "declare only", "rector", "diff", "register"}
Endings ==
  {"no-op", "refused", "not written", "ok", "step failed", "update failed", "failed", "not applied",
   "no patch needed"}

(* The writes of a command that can be lost. *)
Writes == {"composer.json", "backup", "restore", "revert"}

(* The records a command can be. *)
Commands ==
  [name : {"upgrade-core", "core_upgrade_apply", "allow-lenient", "apply-patch",
           "create_patch", "contrib-patch"},
   at : {"begun"} \cup UpgradeSteps \cup LenientSteps \cup ContribSteps \cup Endings,
   target : Majors \cup {Nil}, package : Packages \cup {Nil},
   composer : ComposerFile \cup {Torn}, code : SUBSET Changes,
   ref : Refs \cup {Nil}, key : Keys \cup {Nil}, clean : BOOLEAN, lost : SUBSET Writes]

(* The patch files. *)
PatchSet == [LocalRefs -> {Nil} \cup (SUBSET Changes)]

(* Files, installation and what is committed are well formed. *)
ProjectTyped ==
  /\ composer \in ComposerFile \cup {Torn}
  /\ backup \in ComposerFile \cup {Torn, Nil}
  /\ lock \in Majors /\ code \in Majors /\ db \in Majors
  /\ plugin \in BOOLEAN /\ unfinished \in BOOLEAN
  /\ tree \in [Packages -> SUBSET Changes]
  /\ patches \in PatchSet
  /\ head \in [composer : ComposerFile \cup {Torn}, lock : Majors, patches : PatchSet]

(* An upgrade and a lenient pass have parsed composer.json, and go on only *)
(* while it can be.                                                        *)
ParsedInPlace ==
  call # Nil /\ call.at \in UpgradeSteps \cup LenientSteps => composer \in ComposerFile

(* What a command names, and where it can be.                              *)
Named(c) ==
  /\ c \in Commands
  /\ c.name = "upgrade-core" => c.target \in Majors
  /\ c.name \in {"allow-lenient", "contrib-patch", "apply-patch"} => c.package \in Packages
  /\ c.name = "apply-patch" => c.ref \in Refs

CallInPlace ==
  /\ call # Nil => last = Nil
  /\ call # Nil => Named(call)
  /\ last # Nil => Named(last)
  /\ call # Nil =>
       \/ call.name = "upgrade-core" /\ call.at \in UpgradeSteps
       \/ call.name = "allow-lenient" /\ call.at \in LenientSteps
       \/ call.name = "contrib-patch" /\ call.at \in LenientSteps \cup ContribSteps
       \/ call.name = "apply-patch" /\ call.at = "register" /\ call.key = "described"

(* The type invariant. *)
Typed == ProjectTyped /\ begun \in 0..MaxCommands /\ CallInPlace /\ ParsedInPlace

(* What an upgrade has brought to its target by each of its steps, and     *)
(* that the backup it may need is the file it began with.                  *)
UpgradeInPlace ==
  call # Nil /\ call.name = "upgrade-core" =>
    /\ unfinished
    /\ composer.core = call.target
    /\ call.at \in {"backup", "policy", "require", "require dev"} =>
         composer.dev = call.composer.dev
    /\ call.at \in {"update", "updb", "status"} => composer.dev \in {Nil, call.target}
    /\ call.at \in {"updb", "status"} => lock = call.target /\ code = call.target
    /\ call.at = "status" => db = call.target
    /\ call.lost = {} /\ call.at # "backup" => backup = call.composer
    /\ call.clean => head.composer = call.composer

(* While every move of the core was completed, requirements, lock, code    *)
(* and database are at one major.                                          *)
CoreInPlace ==
  ~unfinished => /\ lock = code /\ code = db
                 /\ composer # Torn => composer.core = lock

(* A package is listed only by a command that found the plugin installed. *)
LenientInPlace ==
  call # Nil /\ call.name \in {"allow-lenient", "contrib-patch"} /\ call.at = "list" => plugin

(* While a patch waits to be registered, composer.json is as it was, and   *)
(* the code is as it was with the changes of the patch, none of which it   *)
(* had before.                                                             *)
ApplyInPlace ==
  call # Nil /\ call.name = "apply-patch" =>
    /\ composer = call.composer
    /\ Content(call.ref) # Nil
    /\ tree[call.package] = call.code \cup Content(call.ref)
    /\ Content(call.ref) \cap call.code = {}
    /\ call.lost = {}

(* A contrib-patch that found published code has written all the code has  *)
(* of changes into the patch it registers, and what is registered stays    *)
(* whole while the lenient plugin is installed.                            *)
PatchInPlace ==
  call # Nil /\ call.name = "contrib-patch" /\ call.code = {} =>
    /\ call.at = "register" => patches[<<"compatibility", call.package>>] = tree[call.package]
    /\ call.at \in LenientSteps => tree[call.package] \subseteq Recorded(call.package)

(***************************************************************************)
(* Records                                                                 *)
(***************************************************************************)

(* Moving a requirement gives a file and changes no other one. *)
LEMMA FileFields ==
  ASSUME NEW c \in ComposerFile, NEW m \in Majors
  PROVE  /\ [c EXCEPT !.core = m] \in ComposerFile /\ [c EXCEPT !.dev = m] \in ComposerFile
         /\ [c EXCEPT !.core = m].core = m /\ [c EXCEPT !.core = m].dev = c.dev
         /\ [c EXCEPT !.dev = m].dev = m /\ [c EXCEPT !.dev = m].core = c.core
BY DEF ComposerFile

(* So does listing a package, *)
LEMMA ListFields ==
  ASSUME NEW c \in ComposerFile, NEW p \in Packages
  PROVE  /\ [c EXCEPT !.lenient = @ \cup {p}] \in ComposerFile
         /\ [c EXCEPT !.lenient = @ \cup {p}].lenient = c.lenient \cup {p}
         /\ [c EXCEPT !.lenient = @ \cup {p}].patches = c.patches
         /\ [c EXCEPT !.lenient = @ \cup {p}].core = c.core
BY DEF ComposerFile

(* and so do the settings. *)
LEMMA FlagFields ==
  ASSUME NEW c \in ComposerFile
  PROVE  /\ [c EXCEPT !.policy = TRUE] \in ComposerFile
         /\ [c EXCEPT !.policy = TRUE].core = c.core /\ [c EXCEPT !.policy = TRUE].dev = c.dev
         /\ [c EXCEPT !.trusted = TRUE] \in ComposerFile
         /\ [c EXCEPT !.trusted = TRUE].patches = c.patches
         /\ [c EXCEPT !.trusted = TRUE].core = c.core /\ [c EXCEPT !.declared = TRUE].core = c.core
         /\ [c EXCEPT !.declared = TRUE] \in ComposerFile
         /\ [c EXCEPT !.declared = TRUE].patches = c.patches
BY DEF ComposerFile

(* Registering a patch gives a file that names it under its key. *)
LEMMA RegisteredFields ==
  ASSUME composer \in ComposerFile, NEW p \in Packages, NEW key \in Keys, NEW ref \in Refs
  PROVE  /\ Registered(p, key, ref) \in ComposerFile
         /\ Registered(p, key, ref).patches[p][key] = ref
         /\ Registered(p, key, ref).core = composer.core
BY DEF Registered, ComposerFile

(* A patch is a set of changes, or it is not there. *)
LEMMA ContentTyped ==
  ASSUME patches \in PatchSet, NEW ref \in Refs
  PROVE  Content(ref) \in {Nil} \cup (SUBSET Changes)
<1>1. CASE ref \in LocalRefs
      BY <1>1 DEF Content, PatchSet
<1>2. CASE ref \notin LocalRefs
      <2>1. PICK u \in Upstream : ref = <<"upstream", u>>
            BY <1>2 DEF Refs
      <2>2. QED BY <1>2, <2>1 DEF Content, Changes
<1>3. QED BY <1>1, <1>2

(* So is what the registered patches record of a module, *)
LEMMA RecordedTyped ==
  ASSUME composer \in ComposerFile, patches \in PatchSet, NEW p \in Packages
  PROVE  Recorded(p) \in SUBSET Changes
<1> SUFFICES ASSUME NEW c \in Recorded(p) PROVE c \in Changes
    OBVIOUS
<1>1. PICK k \in Keys : /\ composer.patches[p][k] # Nil /\ Content(composer.patches[p][k]) # Nil
                        /\ c \in Content(composer.patches[p][k])
      BY DEF Recorded
<1>2. composer.patches[p][k] \in Refs
      BY <1>1 DEF ComposerFile
<1>3. QED BY <1>1, <1>2, ContentTyped

(* and what an installation makes of the modules. *)
LEMMA ReinstalledTyped ==
  ASSUME composer \in ComposerFile, patches \in PatchSet
  PROVE  Reinstalled \in [Packages -> SUBSET Changes]
BY RecordedTyped DEF Reinstalled

(* Where a patch that is registered contributes to what is recorded.       *)
LEMMA RecordedHolds ==
  ASSUME composer \in ComposerFile, NEW p \in Packages, NEW k \in Keys,
         composer.patches[p][k] # Nil, Content(composer.patches[p][k]) # Nil
  PROVE  Content(composer.patches[p][k]) \subseteq Recorded(p)
BY DEF Recorded

(* All names of commands, and all places of one. *)
CommandNames ==
  {"upgrade-core", "core_upgrade_apply", "allow-lenient", "apply-patch", "create_patch", "contrib-patch"}

(* What a command that begins remembers. *)
LEMMA CommandFields ==
  ASSUME ProjectTyped, NEW name \in CommandNames, NEW t \in Majors \cup {Nil}, NEW p \in Packages \cup {Nil}
  PROVE  /\ Command(name, t, p) \in Commands
         /\ Command(name, t, p).name = name
         /\ Command(name, t, p).target = t
         /\ Command(name, t, p).package = p
         /\ Command(name, t, p).composer = composer
         /\ Command(name, t, p).code = IF p = Nil THEN {} ELSE tree[p]
         /\ Command(name, t, p).clean = IsClean
         /\ Command(name, t, p).lost = {}
<1>1. IsClean \in BOOLEAN
      BY DEF IsClean
<1>2. QED BY <1>1 DEF Command, Commands, ProjectTyped, CommandNames

Places == {"begun"} \cup UpgradeSteps \cup LenientSteps \cup ContribSteps \cup Endings

(* A command that moves on keeps all it remembers. *)
LEMMA PlacedFields ==
  ASSUME NEW c \in Commands, NEW step \in Places
  PROVE  /\ [c EXCEPT !.at = step] \in Commands
         /\ [c EXCEPT !.at = step].at = step
         /\ [c EXCEPT !.at = step].name = c.name
         /\ [c EXCEPT !.at = step].target = c.target
         /\ [c EXCEPT !.at = step].package = c.package
         /\ [c EXCEPT !.at = step].composer = c.composer
         /\ [c EXCEPT !.at = step].code = c.code
         /\ [c EXCEPT !.at = step].ref = c.ref
         /\ [c EXCEPT !.at = step].key = c.key
         /\ [c EXCEPT !.at = step].clean = c.clean
         /\ [c EXCEPT !.at = step].lost = c.lost
BY DEF Commands, Places

(* One that lost a write remembers that too. *)
Losing(c, step, write) == [c EXCEPT !.at = step, !.lost = @ \cup {write}]

LEMMA LosingFields ==
  ASSUME NEW c \in Commands, NEW step \in Places, NEW write \in Writes
  PROVE  /\ Losing(c, step, write) \in Commands
         /\ Losing(c, step, write).at = step
         /\ write \in Losing(c, step, write).lost
         /\ Losing(c, step, write).name = c.name
         /\ Losing(c, step, write).target = c.target
         /\ Losing(c, step, write).package = c.package
         /\ Losing(c, step, write).composer = c.composer
         /\ Losing(c, step, write).code = c.code
         /\ Losing(c, step, write).ref = c.ref
         /\ Losing(c, step, write).key = c.key
         /\ Losing(c, step, write).clean = c.clean
<1>1. c.lost \cup {write} \in SUBSET Writes
      BY DEF Commands
<1>2. Losing(c, step, write) = [[c EXCEPT !.at = step] EXCEPT !.lost = c.lost \cup {write}]
      BY DEF Losing, Commands
<1>3. PICK d \in Commands : d = [c EXCEPT !.at = step]
      BY PlacedFields
<1>4. Losing(c, step, write) = [d EXCEPT !.lost = c.lost \cup {write}]
      BY <1>2, <1>3
<1>5. /\ [d EXCEPT !.lost = c.lost \cup {write}] \in Commands
      /\ write \in [d EXCEPT !.lost = c.lost \cup {write}].lost
      BY <1>1 DEF Commands
<1>6. /\ d.at = step /\ d.name = c.name /\ d.target = c.target /\ d.package = c.package
      /\ d.composer = c.composer /\ d.code = c.code /\ d.ref = c.ref /\ d.key = c.key
      /\ d.clean = c.clean
      BY <1>3, PlacedFields
<1>7. QED BY <1>4, <1>5, <1>6 DEF Commands

(* The command that applies a patch, refused or begun. *)
Refused(p, ref) == [Command("apply-patch", Nil, p) EXCEPT !.ref = ref]
Applied(p, ref) == [Command("apply-patch", Nil, p) EXCEPT !.ref = ref, !.key = "described"]

(* The same of a command that applies a patch, which also knows the        *)
(* patch.                                                                  *)
LEMMA ApplyFields ==
  ASSUME ProjectTyped, NEW p \in Packages, NEW ref \in Refs
  PROVE  /\ Refused(p, ref) \in Commands /\ Applied(p, ref) \in Commands
         /\ Refused(p, ref).name = "apply-patch" /\ Applied(p, ref).name = "apply-patch"
         /\ Refused(p, ref).package = p /\ Applied(p, ref).package = p
         /\ Refused(p, ref).ref = ref /\ Applied(p, ref).ref = ref
         /\ Refused(p, ref).composer = composer /\ Applied(p, ref).composer = composer
         /\ Refused(p, ref).code = tree[p] /\ Applied(p, ref).code = tree[p]
         /\ Applied(p, ref).key = "described"
         /\ Refused(p, ref).lost = {} /\ Applied(p, ref).lost = {}
<1>1. Command("apply-patch", Nil, p) \in Commands
      BY CommandFields DEF CommandNames
<1>2. p # Nil
      BY NilIsNothing
<1>3. /\ Command("apply-patch", Nil, p).name = "apply-patch"
      /\ Command("apply-patch", Nil, p).package = p
      /\ Command("apply-patch", Nil, p).composer = composer
      /\ Command("apply-patch", Nil, p).code = tree[p]
      /\ Command("apply-patch", Nil, p).lost = {}
      <2>1. "apply-patch" \in CommandNames /\ Nil \in Majors \cup {Nil} /\ p \in Packages \cup {Nil}
            BY DEF CommandNames
      <2>2. QED BY <1>2, <2>1, CommandFields
<1>4. "described" \in Keys
      BY DEF Keys
<1>5. QED BY <1>1, <1>3, <1>4 DEF Commands, Refused, Applied

(* The command of a rewrite of composer.json that is lost. *)
Lost(name, t) == [Command(name, t, Nil) EXCEPT !.lost = {"composer.json"}]

LEMMA LostFields ==
  ASSUME ProjectTyped, NEW name \in CommandNames, NEW t \in Majors
  PROVE  /\ Lost(name, t) \in Commands
         /\ Lost(name, t).name = name /\ Lost(name, t).target = t
         /\ Lost(name, t).composer = composer /\ Lost(name, t).clean = IsClean
         /\ Lost(name, t).lost = {"composer.json"}
<1>1. /\ Command(name, t, Nil) \in Commands
      /\ Command(name, t, Nil).name = name
      /\ Command(name, t, Nil).target = t
      /\ Command(name, t, Nil).composer = composer
      /\ Command(name, t, Nil).clean = IsClean
      BY CommandFields
<1>2. QED BY <1>1 DEF Commands, Lost, Writes

(***************************************************************************)
(* Types                                                                   *)
(***************************************************************************)

(* The project is well formed at first. *)
LEMMA TypedInit == Init => Typed
<1> SUFFICES ASSUME Init PROVE Typed
    OBVIOUS
<1>1. Installed \in Majors
      BY DEF Majors
<1>2. composer \in ComposerFile
      <2>1. PICK d \in {Installed, Nil} :
              composer = [core |-> Installed, dev |-> d, policy |-> FALSE, trusted |-> FALSE,
                          declared |-> FALSE, lenient |-> {},
                          patches |-> [p \in Packages |-> [k \in Keys |-> Nil]]]
            BY DEF Init
      <2>2. QED BY <1>1, <2>1 DEF ComposerFile
<1>3. ProjectTyped
      BY <1>1, <1>2 DEF Init, ProjectTyped, PatchSet
<1>4. QED BY <1>3, BoundAssumption DEF Init, Typed, CallInPlace, ParsedInPlace

(* The bound on the commands that begin is kept by each beginning, *)
LEMMA MayBeginCounts ==
  ASSUME begun \in 0..MaxCommands, MayBegin
  PROVE  begun' \in 0..MaxCommands
BY BoundAssumption DEF MayBegin

(* A command goes on: it is at its next step, and nothing has ended. *)
LEMMA GoesDoes ==
  ASSUME CallInPlace, call # Nil, NEW step \in Places, Goes(step)
  PROVE  /\ call' \in Commands /\ call'.at = step
         /\ call'.name = call.name /\ call'.target = call.target
         /\ call'.package = call.package /\ call'.composer = call.composer
         /\ call'.code = call.code /\ call'.ref = call.ref /\ call'.key = call.key
         /\ call'.clean = call.clean /\ call'.lost = call.lost
         /\ last' = Nil /\ begun' = begun
BY PlacedFields DEF Goes, CallInPlace, Named

(* So does one that lost a write. *)
LEMMA GoesWithoutDoes ==
  ASSUME CallInPlace, call # Nil, NEW step \in Places, NEW write \in Writes, GoesWithout(write, step)
  PROVE  /\ call' \in Commands /\ call'.at = step /\ write \in call'.lost
         /\ call'.name = call.name /\ call'.target = call.target
         /\ call'.package = call.package /\ call'.composer = call.composer
         /\ call'.code = call.code /\ call'.ref = call.ref /\ call'.key = call.key
         /\ call'.clean = call.clean
         /\ last' = Nil /\ begun' = begun
<1>1. call \in Commands
      BY DEF CallInPlace, Named
<1>2. call' = Losing(call, step, write)
      BY DEF GoesWithout, Losing
<1>3. last' = Nil /\ begun' = begun
      BY DEF GoesWithout, CallInPlace
<1>4. QED BY <1>1, <1>2, <1>3, LosingFields

(* A command ends: nothing runs, and the last command is that one. *)
LEMMA EndsDoes ==
  ASSUME CallInPlace, call # Nil, NEW step \in Endings, Ends(step)
  PROVE  /\ call' = Nil
         /\ last' \in Commands /\ last'.at = step
         /\ last'.name = call.name /\ last'.target = call.target
         /\ last'.package = call.package /\ last'.composer = call.composer
         /\ last'.code = call.code /\ last'.ref = call.ref /\ last'.key = call.key
         /\ last'.clean = call.clean /\ last'.lost = call.lost
         /\ begun' = begun
BY PlacedFields DEF Ends, CallInPlace, Named, Places

(* So does one that lost a write. *)
LEMMA EndsWithoutDoes ==
  ASSUME CallInPlace, call # Nil, NEW step \in Endings, NEW write \in Writes, EndsWithout(write, step)
  PROVE  /\ call' = Nil
         /\ last' \in Commands /\ last'.at = step /\ write \in last'.lost
         /\ last'.name = call.name /\ last'.target = call.target
         /\ last'.package = call.package /\ last'.composer = call.composer
         /\ last'.code = call.code /\ last'.ref = call.ref /\ last'.key = call.key
         /\ last'.clean = call.clean
         /\ begun' = begun
<1>1. call \in Commands /\ step \in Places
      BY DEF CallInPlace, Named, Places
<1>2. last' = Losing(call, step, write)
      BY DEF EndsWithout, Losing
<1>3. QED BY <1>1, <1>2, LosingFields DEF EndsWithout

(* A command begins: nothing ran and nothing has ended. *)
LEMMA BeginsDoes ==
  ASSUME NEW command \in Commands, NEW step \in Places, Begins(command, step)
  PROVE  /\ call = Nil /\ last' = Nil
         /\ call' \in Commands /\ call'.at = step
         /\ call'.name = command.name /\ call'.target = command.target
         /\ call'.package = command.package /\ call'.composer = command.composer
         /\ call'.code = command.code /\ call'.ref = command.ref /\ call'.key = command.key
         /\ call'.clean = command.clean /\ call'.lost = command.lost
BY PlacedFields DEF Begins, MayBegin

(* A command ends with its first checks. *)
LEMMA EndsAtOnceDoes ==
  ASSUME NEW command \in Commands, NEW step \in Endings, EndsAtOnce(command, step)
  PROVE  /\ call = Nil /\ call' = Nil
         /\ last' \in Commands /\ last'.at = step
         /\ last'.name = command.name /\ last'.target = command.target
         /\ last'.package = command.package /\ last'.composer = command.composer
         /\ last'.code = command.code /\ last'.ref = command.ref /\ last'.key = command.key
         /\ last'.clean = command.clean /\ last'.lost = command.lost
BY PlacedFields DEF EndsAtOnce, MayBegin, Places

(* and so by every step. *)
LEMMA BegunStays == begun \in 0..MaxCommands /\ [Next]_vars => begun' \in 0..MaxCommands
<1> SUFFICES ASSUME begun \in 0..MaxCommands, [Next]_vars PROVE begun' \in 0..MaxCommands
    OBVIOUS
<1>1. begun' = begun \/ MayBegin
      BY DEF Next, vars, Upgrade, Lenient, Patching, ContribPatch, RefuseUpgrade, BeginUpgrade, WriteBackup,
             SetPolicy, RequireCore, RequireCoreDev, Update, UpdateFails, UpdateDatabase, VerifyUpgrade,
             UpgradeStepFails, ApplyCoreStep, BeginLenient, TrustPlugin, RequirePlugin, CheckPlugin,
             ListPackage, LenientStepFails, RefuseApply, BeginApply, RegisterApplied, RegisterAppliedFails,
             CreatePatch, BeginContribPatch, WidenDeclaration, RunRector, RectorFails, NoDifference,
             WritePatch, RegisterContribPatch, ContribStepFails, Crash, Commit, Discard, Install,
             Goes, Ends, GoesWithout, EndsWithout, Begins, EndsAtOnce, ApplyStepFails, restoreComposerJSON
<1>2. QED BY <1>1, MayBeginCounts

(* What a failing step of a lenient pass makes of composer.json. *)
LEMMA StepFailsLeaves ==
  ASSUME LenientStepFails
  PROVE  composer' \in Broken(composer) \/ composer' = [composer EXCEPT !.declared = TRUE]
<1>1. CASE call.at = "trust"
      BY <1>1 DEF LenientStepFails, Broken
<1>2. CASE call.at = "require plugin"
      BY <1>2 DEF LenientStepFails, Broken
<1>3. CASE call.at = "list"
      BY <1>3 DEF LenientStepFails
<1>4. QED BY <1>1, <1>2, <1>3 DEF LenientStepFails, AtLenient

(* Every step leaves the files and the installation well formed. *)
LEMMA ProjectStays == Typed /\ [Next]_vars => ProjectTyped'
<1> SUFFICES ASSUME Typed, [Next]_vars PROVE ProjectTyped'
    OBVIOUS
<1> USE DEF ProjectTyped
<1> USE DEF UpgradeSteps, LenientSteps
<1>0. ProjectTyped /\ CallInPlace /\ ParsedInPlace
      BY DEF Typed
<1>a. ASSUME call # Nil, call.at \in UpgradeSteps \cup LenientSteps
      PROVE  composer \in ComposerFile
      BY <1>0, <1>a DEF ParsedInPlace
<1>1. CASE UNCHANGED project /\ UNCHANGED unfinished
      BY <1>0, <1>1 DEF project
<1>2. ASSUME OnlyComposerChanges, composer' \in ComposerFile \cup {Torn}
      PROVE  ProjectTyped'
      BY <1>0, <1>2 DEF OnlyComposerChanges
<1>3. ASSUME OnlyTreeChanges, tree' \in [Packages -> SUBSET Changes]
      PROVE  ProjectTyped'
      BY <1>0, <1>3 DEF OnlyTreeChanges
<1>4. ASSUME NEW t \in Majors, composer \in ComposerFile, CoreAt(t)
      PROVE  composer' \in ComposerFile
      BY <1>4, FileFields DEF CoreAt
<1>5. CASE Upgrade
      <2>1. ASSUME NEW t \in Majors, NEW dirty \in BOOLEAN, RefuseUpgrade(t, dirty)
            PROVE  ProjectTyped'
            BY <1>1, <2>1 DEF RefuseUpgrade
      <2>2. ASSUME NEW t \in Majors, NEW dirty \in BOOLEAN, BeginUpgrade(t, dirty) \/ ApplyCoreStep(t)
            PROVE  ProjectTyped'
            BY <1>0, <1>4, <2>2 DEF BeginUpgrade, ApplyCoreStep, SameInstallation, MayStep
      <2>12. ASSUME NEW name \in CommandNames, NEW t \in Majors, NEW dirty \in BOOLEAN,
                    ApplyStepFails(name, t, dirty)
             PROVE  ProjectTyped'
             BY <1>0, <2>12 DEF ApplyStepFails, SameInstallation, Broken
      <2>3. CASE WriteBackup
            <3>1. call.composer \in ComposerFile \cup {Torn}
                  BY <1>0, <2>3 DEF WriteBackup, At, CallInPlace, Named, Commands
            <3>2. QED BY <1>0, <2>3, <3>1 DEF WriteBackup, BackedUp, Broken, SameInstallation
      <2>4. CASE SetPolicy
            BY <1>0, <1>a, <2>4, FlagFields DEF SetPolicy, At, PolicySet, SameInstallation
      <2>5. CASE RequireCore \/ RequireCoreDev
            <3>1. call.target \in Majors /\ composer \in ComposerFile
                  BY <1>0, <1>a, <2>5 DEF RequireCore, RequireCoreDev, At, CallInPlace, Named
            <3>2. composer' \in ComposerFile
                  <4>1. CASE RequireCore
                        BY <1>4, <3>1, <4>1 DEF RequireCore
                  <4>2. CASE RequireCoreDev
                        BY <1>0, <3>1, <4>2, FileFields DEF RequireCoreDev
                  <4>3. QED BY <2>5, <4>1, <4>2
            <3>3. QED BY <1>0, <2>5, <3>2 DEF RequireCore, RequireCoreDev, SameInstallation
      <2>6. CASE Update
            <3>1. composer \in ComposerFile
                  BY <1>a, <2>6 DEF Update, At
            <3>2. composer.core \in Majors
                  BY <3>1 DEF ComposerFile
            <3>3. QED BY <1>0, <2>6, <3>1, <3>2, ReinstalledTyped DEF Update
      <2>7. CASE UpdateFails
            <3>1. composer \in ComposerFile
                  BY <1>a, <2>7 DEF UpdateFails, At
            <3>2. composer.core \in Majors
                  BY <3>1 DEF ComposerFile
            <3>3. composer' \in {composer, backup, Torn} \ {Nil}
                  BY <3>1, <2>7, NilIsNothing DEF UpdateFails, restoreComposerJSON, Broken
            <3>4. composer' \in ComposerFile \cup {Torn}
                  BY <1>0, <3>3
            <3>5. lock' \in Majors /\ code' \in Majors
                  BY <1>0, <2>7, <3>2 DEF UpdateFails
            <3>6. QED BY <1>0, <2>7, <3>4, <3>5 DEF UpdateFails
      <2>8. CASE UpdateDatabase
            BY <1>0, <2>8 DEF UpdateDatabase
      <2>9. CASE VerifyUpgrade
            BY <1>0, <2>9 DEF VerifyUpgrade, SameInstallation
      <2>10. CASE UpgradeStepFails
            <3>1. composer \in ComposerFile
                  BY <1>a, <2>10 DEF UpgradeStepFails, FailingSteps
            <3>2. composer' \in ComposerFile /\ db' \in Majors
                  BY <1>0, <2>10, <3>1, FlagFields DEF UpgradeStepFails, PolicySet
            <3>3. QED BY <1>0, <2>10, <3>2 DEF UpgradeStepFails
      <2>11. QED
            BY <1>5, <2>12, <2>1, <2>2, <2>3, <2>4, <2>5, <2>6, <2>7, <2>8, <2>9, <2>10 DEF Upgrade, CommandNames
<1>6. CASE Lenient
      <2>1. CASE (\E p \in Packages : BeginLenient(p)) \/ CheckPlugin
            BY <1>1, <2>1 DEF BeginLenient, CheckPlugin
      <2>2. CASE TrustPlugin
            BY <1>a, <1>2, <2>2, FlagFields DEF TrustPlugin, AtLenient
      <2>3. CASE RequirePlugin
            <3>1. composer \in ComposerFile
                  BY <1>a, <2>3 DEF RequirePlugin, AtLenient
            <3>2. QED BY <1>0, <2>3, <3>1, FlagFields, ReinstalledTyped DEF RequirePlugin
      <2>4. CASE ListPackage
            <3>1. call.package \in Packages /\ composer \in ComposerFile
                  BY <1>0, <1>a, <2>4 DEF ListPackage, AtLenient, CallInPlace, Named
            <3>2. QED BY <1>2, <2>4, <3>1, ListFields DEF ListPackage
      <2>5. CASE LenientStepFails
            <3>1. composer \in ComposerFile
                  BY <1>a, <2>5 DEF LenientStepFails, AtLenient
            <3>2. composer' \in Broken(composer) \/ composer' = [composer EXCEPT !.declared = TRUE]
                  BY <2>5, StepFailsLeaves
            <3>3. composer' \in ComposerFile \cup {Torn}
                  BY <3>1, <3>2, FlagFields DEF Broken
            <3>4. QED BY <1>2, <2>5, <3>3 DEF LenientStepFails
      <2>6. QED BY <1>6, <2>1, <2>2, <2>3, <2>4, <2>5 DEF Lenient
<1>7. CASE Patching
      <2>1. ASSUME NEW p \in Packages, NEW ref \in Refs, RefuseApply(p, ref)
            PROVE  ProjectTyped'
            BY <1>1, <2>1 DEF RefuseApply
      <2>2. ASSUME NEW p \in Packages, NEW ref \in Refs, BeginApply(p, ref)
            PROVE  ProjectTyped'
            <3>1. Content(ref) \in SUBSET Changes
                  BY <1>0, <2>2, ContentTyped DEF BeginApply, Applies
            <3>2. tree' \in [Packages -> SUBSET Changes]
                  BY <1>0, <2>2, <3>1 DEF BeginApply
            <3>3. QED BY <1>3, <2>2, <3>2 DEF BeginApply
      <2>3. CASE RegisterApplied
            <3>1. call.package \in Packages /\ call.key \in Keys /\ call.ref \in Refs
                  BY <1>0, <2>3 DEF RegisterApplied, At, CallInPlace, Named, Keys
            <3>2. composer \in ComposerFile
                  BY <1>0, <2>3 DEF RegisterApplied
            <3>3. QED BY <1>2, <2>3, <3>1, <3>2, RegisteredFields DEF RegisterApplied
      <2>4. CASE RegisterAppliedFails
            <3>1. tree' \in [Packages -> SUBSET Changes]
                  BY <1>0, <2>4 DEF RegisterAppliedFails, Reverted
            <3>2. QED BY <1>0, <2>4, <3>1 DEF RegisterAppliedFails, Broken
      <2>5. ASSUME NEW p \in Packages, CreatePatch(p)
            PROVE  ProjectTyped'
            <3>1. PICK rewritten \in {tree[p], tree[p] \cup {"rector"}}, written \in BOOLEAN :
                    /\ tree' = [tree EXCEPT ![p] = rewritten]
                    /\ patches' = IF written THEN [patches EXCEPT ![<<"created", p>>] = rewritten \ tree[p]]
                                  ELSE patches
                  BY <2>5 DEF CreatePatch
            <3>2. rewritten \in SUBSET Changes
                  BY <1>0, <3>1 DEF Changes
            <3>3. rewritten \ tree[p] \in SUBSET Changes
                  BY <3>2
            <3>4. tree' \in [Packages -> SUBSET Changes] /\ patches' \in PatchSet
                  BY <1>0, <3>1, <3>2, <3>3 DEF PatchSet
            <3>5. QED BY <1>0, <2>5, <3>4 DEF CreatePatch
      <2>6. QED BY <1>7, <2>1, <2>2, <2>3, <2>4, <2>5 DEF Patching
<1>8. CASE ContribPatch
      <2>1. CASE \/ \E p \in Packages, declarationOnly \in BOOLEAN : BeginContribPatch(p, declarationOnly)
                 \/ NoDifference
            BY <1>1, <2>1 DEF BeginContribPatch, NoDifference
      <2>6. CASE ContribStepFails
            BY <1>0, <1>2, <2>6 DEF ContribStepFails, Broken
      <2>2. CASE WidenDeclaration \/ RunRector \/ RectorFails
            <3>1. call.package \in Packages
                  BY <1>0, <2>2 DEF WidenDeclaration, RunRector, RectorFails, At, CallInPlace, Named
            <3>2. /\ [tree EXCEPT ![call.package] = @ \cup {"declaration"}] \in [Packages -> SUBSET Changes]
                  /\ [tree EXCEPT ![call.package] = @ \cup {"rector"}] \in [Packages -> SUBSET Changes]
                  BY <1>0, <3>1 DEF Changes
            <3>3. QED BY <1>0, <1>3, <2>2, <3>2 DEF WidenDeclaration, RunRector, RectorFails, OnlyTreeChanges
      <2>3. CASE WritePatch
            <3>1. call.package \in Packages
                  BY <1>0, <2>3 DEF WritePatch, At, CallInPlace, Named
            <3>2. Difference(call.package) \in SUBSET Changes
                  BY <1>0, <3>1 DEF Difference
            <3>3. patches' \in PatchSet
                  BY <1>0, <2>3, <3>2 DEF WritePatch, PatchSet
            <3>4. QED BY <1>0, <2>3, <3>3 DEF WritePatch
      <2>4. CASE RegisterContribPatch
            <3>1. call.package \in Packages
                  BY <1>0, <2>4 DEF RegisterContribPatch, At, CallInPlace, Named
            <3>2. <<"compatibility", call.package>> \in Refs /\ "compatibility" \in Keys
                  BY <3>1 DEF Refs, LocalRefs, Keys
            <3>3. composer \in ComposerFile
                  BY <1>0, <2>4 DEF RegisterContribPatch
            <3>4. QED BY <1>2, <2>4, <3>1, <3>2, <3>3, RegisteredFields DEF RegisterContribPatch
      <2>5. QED BY <1>8, <2>1, <2>2, <2>3, <2>4, <2>6 DEF ContribPatch
<1>9. CASE Crash
      BY <1>1, <1>9 DEF Crash
<1>10. CASE Commit
      BY <1>0, <1>10 DEF Commit
<1>11. CASE Discard
      BY <1>0, <1>11 DEF Discard
<1>12. CASE Install
      <2>1. composer \in ComposerFile
            BY <1>0, <1>12 DEF Install
      <2>2. plugin' \in BOOLEAN
            BY <1>12 DEF Install
      <2>3. QED BY <1>0, <1>12, <2>1, <2>2, ReinstalledTyped DEF Install
<1>13. CASE UNCHANGED vars
      BY <1>1, <1>13 DEF vars, project
<1>14. QED
      BY <1>5, <1>6, <1>7, <1>8, <1>9, <1>10, <1>11, <1>12, <1>13 DEF Next

(* Which command begins, goes on or ends with a step.                      *)
LEMMA CallStays == Typed /\ [Next]_vars => CallInPlace'
<1> SUFFICES ASSUME Typed, [Next]_vars PROVE CallInPlace'
    OBVIOUS
<1> USE DEF UpgradeSteps, LenientSteps, ContribSteps, Endings, Places
<1>0. ProjectTyped /\ CallInPlace
      BY DEF Typed
<1>1. CASE UNCHANGED <<call, last>>
      BY <1>0, <1>1 DEF CallInPlace, Named
<1>2. CASE call' = Nil /\ last' = Nil
      BY <1>2 DEF CallInPlace
<1>3. ASSUME call # Nil, NEW step \in Endings, Ends(step)
      PROVE  CallInPlace'
      BY <1>0, <1>3, EndsDoes DEF CallInPlace, Named
<1>16. ASSUME call # Nil, NEW step \in Endings, NEW write \in Writes, EndsWithout(write, step)
      PROVE  CallInPlace'
      BY <1>0, <1>16, EndsWithoutDoes DEF CallInPlace, Named
<1>4. ASSUME NEW command, Named(command), NEW step \in Endings, EndsAtOnce(command, step)
      PROVE  CallInPlace'
      <2>1. command \in Commands
            BY <1>4 DEF Named
      <2>2. QED BY <2>1, <1>4, EndsAtOnceDoes DEF CallInPlace, Named
<1>5. ASSUME call # Nil, NEW step \in Places, Goes(step),
             \/ call.name = "upgrade-core" /\ step \in UpgradeSteps
             \/ call.name = "allow-lenient" /\ step \in LenientSteps
             \/ call.name = "contrib-patch" /\ step \in LenientSteps \cup ContribSteps
      PROVE  CallInPlace'
      <2>1. Named(call)
            BY <1>0, <1>5 DEF CallInPlace
      <2>2. QED BY <1>0, <1>5, <2>1, GoesDoes DEF CallInPlace, Named
<1>6. ASSUME NEW command, Named(command), NEW step \in Places, Begins(command, step),
             \/ command.name = "upgrade-core" /\ step \in UpgradeSteps
             \/ command.name = "allow-lenient" /\ step \in LenientSteps
             \/ command.name = "contrib-patch" /\ step \in LenientSteps \cup ContribSteps
             \/ command.name = "apply-patch" /\ step = "register" /\ command.key = "described"
      PROVE  CallInPlace'
      <2>1. command \in Commands
            BY <1>6 DEF Named
      <2>2. QED BY <2>1, <1>6, BeginsDoes DEF CallInPlace, Named
<1>7. ASSUME NEW p \in Packages
      PROVE  /\ Named(Command("allow-lenient", Nil, p)) /\ Command("allow-lenient", Nil, p).name = "allow-lenient"
             /\ Named(Command("contrib-patch", Nil, p)) /\ Command("contrib-patch", Nil, p).name = "contrib-patch"
             /\ Named(Command("create_patch", Nil, p))
      BY <1>0, CommandFields DEF Named, CommandNames
<1>8. ASSUME NEW t \in Majors
      PROVE  /\ Named(Command("upgrade-core", t, Nil)) /\ Command("upgrade-core", t, Nil).name = "upgrade-core"
             /\ Named(Command("core_upgrade_apply", t, Nil))
      BY <1>0, CommandFields DEF Named, CommandNames
<1>9. CASE Upgrade
      <2>1. ASSUME NEW t \in Majors, NEW dirty \in BOOLEAN, RefuseUpgrade(t, dirty)
            PROVE  CallInPlace'
            BY <1>4, <1>8, <2>1 DEF RefuseUpgrade
      <2>2. ASSUME NEW t \in Majors, NEW dirty \in BOOLEAN, BeginUpgrade(t, dirty)
            PROVE  CallInPlace'
            BY <1>6, <1>8, <2>2 DEF BeginUpgrade
      <2>3. ASSUME NEW t \in Majors, ApplyCoreStep(t)
            PROVE  CallInPlace'
            BY <1>4, <1>8, <2>3 DEF ApplyCoreStep
      <2>7. ASSUME NEW name \in {"upgrade-core", "core_upgrade_apply"}, NEW t \in Majors, NEW dirty \in BOOLEAN,
                   ApplyStepFails(name, t, dirty)
            PROVE  CallInPlace'
            <3>1. EndsAtOnce(Lost(name, t), "not written")
                  BY <2>7 DEF ApplyStepFails, Lost
            <3>2. Named(Lost(name, t))
                  BY <1>0, LostFields DEF Named, CommandNames
            <3>3. QED BY <1>4, <3>1, <3>2
      <2>8. CASE WriteBackup
            <3>1. call # Nil /\ call.name = "upgrade-core" /\ Named(call)
                  BY <1>0, <2>8 DEF WriteBackup, At, CallInPlace
            <3>2. ASSUME GoesWithout("backup", "policy")
                  PROVE  CallInPlace'
                  BY <1>0, <3>1, <3>2, GoesWithoutDoes DEF CallInPlace, Named, Writes
            <3>3. QED BY <1>5, <2>8, <3>1, <3>2 DEF WriteBackup
      <2>4. CASE SetPolicy \/ RequireCore \/ RequireCoreDev \/ Update \/ UpdateDatabase
            BY <1>5, <2>4 DEF SetPolicy, RequireCore, RequireCoreDev, Update, UpdateDatabase, At
      <2>5. CASE VerifyUpgrade \/ UpgradeStepFails
            BY <1>3, <2>5 DEF VerifyUpgrade, UpgradeStepFails, At
      <2>9. CASE UpdateFails
            <3>1. call # Nil /\ (Ends("update failed") \/ EndsWithout("restore", "update failed"))
                  BY <2>9 DEF UpdateFails, restoreComposerJSON, At
            <3>2. QED BY <1>3, <1>16, <3>1 DEF Writes
      <2>6. QED BY <1>9, <2>1, <2>2, <2>3, <2>4, <2>5, <2>7, <2>8, <2>9 DEF Upgrade
<1>10. CASE Lenient
      <2>1. ASSUME NEW p \in Packages, BeginLenient(p)
            PROVE  CallInPlace'
            BY <1>6, <1>7, <2>1 DEF BeginLenient, NeedsPlugin
      <2>2. CASE TrustPlugin \/ RequirePlugin
            BY <1>5, <2>2 DEF TrustPlugin, RequirePlugin, AtLenient
      <2>3. CASE CheckPlugin
            BY <1>3, <1>5, <2>3 DEF CheckPlugin, AtLenient
      <2>4. CASE ListPackage \/ LenientStepFails
            BY <1>3, <2>4 DEF ListPackage, LenientStepFails, AtLenient
      <2>5. QED BY <1>10, <2>1, <2>2, <2>3, <2>4 DEF Lenient
<1>11. CASE Patching
      <2>1. ASSUME NEW p \in Packages, NEW ref \in Refs, RefuseApply(p, ref)
            PROVE  CallInPlace'
            <3>1. EndsAtOnce(Refused(p, ref), "not applied")
                  BY <2>1 DEF RefuseApply, Refused
            <3>2. Named(Refused(p, ref))
                  BY <1>0, ApplyFields DEF Named
            <3>3. QED BY <1>4, <3>1, <3>2
      <2>2. ASSUME NEW p \in Packages, NEW ref \in Refs, BeginApply(p, ref)
            PROVE  CallInPlace'
            <3>1. Begins(Applied(p, ref), "register")
                  BY <2>2 DEF BeginApply, Applied
            <3>2. /\ Named(Applied(p, ref)) /\ Applied(p, ref).name = "apply-patch"
                  /\ Applied(p, ref).key = "described"
                  BY <1>0, ApplyFields DEF Named
            <3>3. QED BY <1>6, <3>1, <3>2
      <2>3. CASE RegisterApplied \/ RegisterAppliedFails
            <3>1. \/ call # Nil /\ (Ends("ok") \/ Ends("not applied"))
                  \/ call # Nil /\ EndsWithout("revert", "not applied")
                  BY <2>3 DEF RegisterApplied, RegisterAppliedFails, At
            <3>2. QED BY <1>3, <1>16, <3>1 DEF Writes
      <2>4. ASSUME NEW p \in Packages, CreatePatch(p)
            PROVE  CallInPlace'
            BY <1>4, <1>7, <2>4 DEF CreatePatch
      <2>5. QED BY <1>11, <2>1, <2>2, <2>3, <2>4 DEF Patching
<1>12. CASE ContribPatch
      <2>1. ASSUME NEW p \in Packages, NEW declarationOnly \in BOOLEAN, BeginContribPatch(p, declarationOnly)
            PROVE  CallInPlace'
            BY <1>4, <1>6, <1>7, <2>1 DEF BeginContribPatch
      <2>2. CASE WidenDeclaration \/ RunRector \/ WritePatch \/ RegisterContribPatch
            BY <1>5, <2>2 DEF WidenDeclaration, RunRector, WritePatch, RegisterContribPatch, NeedsPlugin, At
      <2>3. CASE RectorFails \/ NoDifference \/ ContribStepFails
            BY <1>3, <2>3 DEF RectorFails, NoDifference, ContribStepFails, At
      <2>4. QED BY <1>12, <2>1, <2>2, <2>3 DEF ContribPatch
<1>13. CASE Crash \/ Commit \/ Discard \/ Install
      BY <1>2, <1>13 DEF Crash, Commit, Discard, Install
<1>14. CASE UNCHANGED vars
      BY <1>1, <1>14 DEF vars
<1>15. QED
      BY <1>9, <1>10, <1>11, <1>12, <1>13, <1>14 DEF Next

(* Where composer.json has to parse, it does. *)
LEMMA ParsedStays == Typed /\ [Next]_vars => ParsedInPlace'
<1> SUFFICES ASSUME Typed, [Next]_vars, call' # Nil, call'.at \in UpgradeSteps \cup LenientSteps
             PROVE  composer' \in ComposerFile
    BY DEF ParsedInPlace
<1> USE DEF UpgradeSteps, LenientSteps, ContribSteps, Endings, Places
<1>0. ProjectTyped /\ CallInPlace /\ ParsedInPlace
      BY DEF Typed
<1>1. ASSUME call # Nil, call.at \in UpgradeSteps \cup LenientSteps
      PROVE  composer \in ComposerFile
      BY <1>0, <1>1 DEF ParsedInPlace
<1>2. CASE UNCHANGED <<composer, call>>
      BY <1>0, <1>2 DEF ParsedInPlace
<1>3. CASE UNCHANGED composer /\ composer # Torn
      BY <1>0, <1>3 DEF ProjectTyped
<1>4. CASE Upgrade
      <2>1. ASSUME NEW t \in Majors, NEW dirty \in BOOLEAN, BeginUpgrade(t, dirty)
            PROVE  composer' \in ComposerFile
            <3>1. composer \in ComposerFile
                  BY <1>0, <2>1 DEF BeginUpgrade, MayStep, ProjectTyped
            <3>2. QED BY <2>1, <3>1, FileFields DEF BeginUpgrade, CoreAt
      <2>2. CASE WriteBackup \/ Update \/ UpdateDatabase
            BY <1>1, <2>2 DEF WriteBackup, Update, UpdateDatabase, At
      <2>3. CASE SetPolicy
            BY <1>1, <2>3, FlagFields DEF SetPolicy, PolicySet, At
      <2>4. CASE RequireCore \/ RequireCoreDev
            <3>1. call.target \in Majors /\ composer \in ComposerFile
                  BY <1>0, <1>1, <2>4 DEF RequireCore, RequireCoreDev, At, CallInPlace, Named
            <3>2. CASE RequireCore
                  BY <3>1, <3>2, FileFields DEF RequireCore, CoreAt
            <3>3. CASE RequireCoreDev
                  BY <3>1, <3>3, FileFields DEF RequireCoreDev
            <3>4. QED BY <2>4, <3>2, <3>3
      <2>5. QED
            BY <1>4, <2>1, <2>2, <2>3, <2>4
            DEF Upgrade, RefuseUpgrade, ApplyCoreStep, ApplyStepFails, UpdateFails, restoreComposerJSON,
                VerifyUpgrade, UpgradeStepFails, Ends, EndsWithout, EndsAtOnce
<1>5. CASE Lenient
      <2>1. ASSUME NEW p \in Packages, BeginLenient(p)
            PROVE  composer' \in ComposerFile
            BY <1>3, <2>1 DEF BeginLenient, project
      <2>2. CASE TrustPlugin \/ RequirePlugin
            <3>1. composer \in ComposerFile
                  BY <1>1, <2>2 DEF TrustPlugin, RequirePlugin, AtLenient
            <3>2. QED BY <2>2, <3>1, FlagFields DEF TrustPlugin, RequirePlugin
      <2>3. CASE CheckPlugin
            BY <1>1, <2>3 DEF CheckPlugin, AtLenient, project
      <2>4. QED BY <1>5, <2>1, <2>2, <2>3 DEF Lenient, ListPackage, LenientStepFails, Ends
<1>6. CASE Patching
      <2>1. ASSUME NEW p \in Packages, NEW ref \in Refs, BeginApply(p, ref)
            PROVE  FALSE
            <3>1. Begins(Applied(p, ref), "register")
                  BY <2>1 DEF BeginApply, Applied
            <3>2. Applied(p, ref) \in Commands
                  BY <1>0, ApplyFields
            <3>3. call'.at = "register"
                  BY <3>1, <3>2, BeginsDoes
            <3>4. QED BY <3>3
      <2>2. QED
            BY <1>6, <2>1
            DEF Patching, RefuseApply, RegisterApplied, RegisterAppliedFails, CreatePatch,
                Ends, EndsWithout, EndsAtOnce
<1>7. CASE ContribPatch
      <2>1. ASSUME NEW p \in Packages, NEW declarationOnly \in BOOLEAN, BeginContribPatch(p, declarationOnly)
            PROVE  FALSE
            <3>1. Command("contrib-patch", Nil, p) \in Commands
                  BY <1>0, CommandFields DEF CommandNames
            <3>2. ASSUME NEW step \in ContribSteps, Begins(Command("contrib-patch", Nil, p), step)
                  PROVE  FALSE
                  BY <3>1, <3>2, BeginsDoes
            <3>3. QED BY <2>1, <3>2 DEF BeginContribPatch, EndsAtOnce
      <2>2. CASE WidenDeclaration \/ RunRector \/ WritePatch
            <3>1. call # Nil /\ \E step \in {"rector", "diff", "register"} : Goes(step)
                  BY <2>2 DEF WidenDeclaration, RunRector, WritePatch, At
            <3>2. call'.at \in {"rector", "diff", "register"}
                  BY <1>0, <3>1, GoesDoes
            <3>3. QED BY <3>2
      <2>3. CASE RegisterContribPatch
            <3>1. PICK p \in Packages : p = call.package
                  BY <1>0, <2>3 DEF RegisterContribPatch, At, CallInPlace, Named
            <3>2. <<"compatibility", p>> \in Refs /\ "compatibility" \in Keys
                  BY DEF Refs, LocalRefs, Keys
            <3>3. composer \in ComposerFile
                  BY <1>0, <2>3 DEF RegisterContribPatch, ProjectTyped
            <3>4. QED BY <2>3, <3>1, <3>2, <3>3, RegisteredFields DEF RegisterContribPatch
      <2>4. QED
            BY <1>7, <2>1, <2>2, <2>3
            DEF ContribPatch, RectorFails, NoDifference, ContribStepFails, Ends
<1>8. QED
      BY <1>2, <1>4, <1>5, <1>6, <1>7 DEF Next, Crash, Commit, Discard, Install, vars

(* The type invariant with the places of commands is inductive. *)
LEMMA TypedNext == Typed /\ [Next]_vars => Typed'
BY ProjectStays, CallStays, ParsedStays, BegunStays DEF Typed

(***************************************************************************)
(* Whose step it is                                                        *)
(***************************************************************************)

(* A step of the upgrade leaves a core command running or ended, *)
LEMMA UpgradeNames ==
  ASSUME Typed, Upgrade
  PROVE  /\ call' # Nil => call'.name = "upgrade-core"
         /\ last' # Nil => last'.name \in {"upgrade-core", "core_upgrade_apply"}
<1> USE DEF UpgradeSteps, Endings, Places
<1>0. ProjectTyped /\ CallInPlace
      BY DEF Typed
<1>1. ASSUME NEW t \in Majors
      PROVE  /\ Command("upgrade-core", t, Nil) \in Commands
             /\ Command("upgrade-core", t, Nil).name = "upgrade-core"
             /\ Command("core_upgrade_apply", t, Nil) \in Commands
             /\ Command("core_upgrade_apply", t, Nil).name = "core_upgrade_apply"
      BY <1>0, CommandFields DEF CommandNames
<1>2. ASSUME NEW t \in Majors, NEW dirty \in BOOLEAN, RefuseUpgrade(t, dirty)
      PROVE  call' = Nil /\ last'.name = "upgrade-core"
      BY <1>1, <1>2, EndsAtOnceDoes DEF RefuseUpgrade
<1>3. ASSUME NEW t \in Majors, NEW dirty \in BOOLEAN, BeginUpgrade(t, dirty)
      PROVE  call'.name = "upgrade-core" /\ last' = Nil
      BY <1>1, <1>3, BeginsDoes DEF BeginUpgrade
<1>4. ASSUME NEW t \in Majors, ApplyCoreStep(t)
      PROVE  call' = Nil /\ last'.name = "core_upgrade_apply"
      BY <1>1, <1>4, EndsAtOnceDoes DEF ApplyCoreStep
<1>8. ASSUME NEW name \in {"upgrade-core", "core_upgrade_apply"}, NEW t \in Majors, NEW dirty \in BOOLEAN,
             ApplyStepFails(name, t, dirty)
      PROVE  call' = Nil /\ last'.name = name
      <2>1. EndsAtOnce(Lost(name, t), "not written")
            BY <1>8 DEF ApplyStepFails, Lost
      <2>2. Lost(name, t) \in Commands /\ Lost(name, t).name = name
            BY <1>0, LostFields DEF CommandNames
      <2>3. QED BY <2>1, <2>2, EndsAtOnceDoes
<1>9. CASE WriteBackup
      <2>1. /\ call # Nil /\ call.name = "upgrade-core"
            /\ Goes("policy") \/ GoesWithout("backup", "policy")
            BY <1>9 DEF WriteBackup, At
      <2>2. QED BY <1>0, <2>1, GoesDoes, GoesWithoutDoes DEF Writes
<1>5. CASE SetPolicy \/ RequireCore \/ RequireCoreDev \/ Update \/ UpdateDatabase
      <2>1. call # Nil /\ call.name = "upgrade-core" /\ \E step \in UpgradeSteps : Goes(step)
            BY <1>5 DEF SetPolicy, RequireCore, RequireCoreDev, Update, UpdateDatabase, At
      <2>2. QED BY <1>0, <2>1, GoesDoes
<1>6. CASE UpdateFails \/ VerifyUpgrade \/ UpgradeStepFails
      <2>1. /\ call # Nil /\ call.name = "upgrade-core"
            /\ (\E step \in Endings : Ends(step)) \/ EndsWithout("restore", "update failed")
            BY <1>6 DEF UpdateFails, restoreComposerJSON, VerifyUpgrade, UpgradeStepFails, At
      <2>2. QED BY <1>0, <2>1, EndsDoes, EndsWithoutDoes DEF Writes
<1>7. QED BY <1>2, <1>3, <1>4, <1>5, <1>6, <1>8, <1>9 DEF Upgrade

(* a step of the lenient pass one of the two that make such a pass, *)
LEMMA LenientNames ==
  ASSUME Typed, Lenient
  PROVE  /\ call' # Nil => call'.name \in {"allow-lenient", "contrib-patch"}
         /\ last' # Nil => last'.name \in {"allow-lenient", "contrib-patch"}
<1> USE DEF LenientSteps, Endings, Places
<1>0. ProjectTyped /\ CallInPlace
      BY DEF Typed
<1>1. ASSUME NEW p \in Packages, BeginLenient(p)
      PROVE  call'.name = "allow-lenient" /\ last' = Nil
      <2>1. /\ Command("allow-lenient", Nil, p) \in Commands
            /\ Command("allow-lenient", Nil, p).name = "allow-lenient"
            BY <1>0, CommandFields DEF CommandNames
      <2>2. QED BY <1>1, <2>1, BeginsDoes DEF BeginLenient, NeedsPlugin
<1>2. CASE TrustPlugin \/ RequirePlugin \/ CheckPlugin \/ ListPackage \/ LenientStepFails
      <2>1. call # Nil /\ call.name \in {"allow-lenient", "contrib-patch"}
            BY <1>2 DEF TrustPlugin, RequirePlugin, CheckPlugin, ListPackage, LenientStepFails, AtLenient
      <2>2. (\E step \in LenientSteps : Goes(step)) \/ (\E step \in Endings : Ends(step))
            BY <1>2 DEF TrustPlugin, RequirePlugin, CheckPlugin, ListPackage, LenientStepFails
      <2>3. QED BY <1>0, <2>1, <2>2, GoesDoes, EndsDoes
<1>3. QED BY <1>1, <1>2 DEF Lenient

(* a step of a patch tool one that applies or creates a patch, *)
LEMMA PatchingNames ==
  ASSUME Typed, Patching
  PROVE  /\ call' # Nil => call'.name = "apply-patch"
         /\ last' # Nil => last'.name \in {"apply-patch", "create_patch"}
<1> USE DEF ContribSteps, Endings, Places
<1>0. ProjectTyped /\ CallInPlace
      BY DEF Typed
<1>1. ASSUME NEW p \in Packages, NEW ref \in Refs, RefuseApply(p, ref)
      PROVE  call' = Nil /\ last'.name = "apply-patch"
      <2>1. EndsAtOnce(Refused(p, ref), "not applied")
            BY <1>1 DEF RefuseApply, Refused
      <2>2. Refused(p, ref) \in Commands /\ Refused(p, ref).name = "apply-patch"
            BY <1>0, ApplyFields
      <2>3. QED BY <2>1, <2>2, EndsAtOnceDoes
<1>2. ASSUME NEW p \in Packages, NEW ref \in Refs, BeginApply(p, ref)
      PROVE  call'.name = "apply-patch" /\ last' = Nil
      <2>1. Begins(Applied(p, ref), "register")
            BY <1>2 DEF BeginApply, Applied
      <2>2. Applied(p, ref) \in Commands /\ Applied(p, ref).name = "apply-patch"
            BY <1>0, ApplyFields
      <2>3. QED BY <2>1, <2>2, BeginsDoes
<1>3. CASE RegisterApplied \/ RegisterAppliedFails
      <2>1. /\ call # Nil /\ call.name = "apply-patch"
            /\ (\E step \in Endings : Ends(step)) \/ EndsWithout("revert", "not applied")
            BY <1>3 DEF RegisterApplied, RegisterAppliedFails, At
      <2>2. QED BY <1>0, <2>1, EndsDoes, EndsWithoutDoes DEF Writes
<1>4. ASSUME NEW p \in Packages, CreatePatch(p)
      PROVE  call' = Nil /\ last'.name = "create_patch"
      <2>1. /\ Command("create_patch", Nil, p) \in Commands
            /\ Command("create_patch", Nil, p).name = "create_patch"
            BY <1>0, CommandFields DEF CommandNames
      <2>2. \E step \in Endings : EndsAtOnce(Command("create_patch", Nil, p), step)
            BY <1>4 DEF CreatePatch
      <2>3. QED BY <2>1, <2>2, EndsAtOnceDoes
<1>5. QED BY <1>1, <1>2, <1>3, <1>4 DEF Patching

(* and a step of contrib-patch proper a contrib-patch, which does not      *)
(* succeed before it comes to the list.                                    *)
LEMMA ContribNames ==
  ASSUME Typed, ContribPatch
  PROVE  /\ call' # Nil => call'.name = "contrib-patch"
         /\ last' # Nil => last'.name = "contrib-patch" /\ last'.at \in {"failed", "no patch needed"}
<1> USE DEF LenientSteps, ContribSteps, Endings, Places
<1>0. ProjectTyped /\ CallInPlace
      BY DEF Typed
<1>1. ASSUME NEW p \in Packages, NEW declarationOnly \in BOOLEAN, BeginContribPatch(p, declarationOnly)
      PROVE  /\ call' # Nil => call'.name = "contrib-patch"
             /\ last' # Nil => last'.name = "contrib-patch" /\ last'.at = "no patch needed"
      <2>1. /\ Command("contrib-patch", Nil, p) \in Commands
            /\ Command("contrib-patch", Nil, p).name = "contrib-patch"
            BY <1>0, CommandFields DEF CommandNames
      <2>2. \/ EndsAtOnce(Command("contrib-patch", Nil, p), "no patch needed")
            \/ \E step \in ContribSteps : Begins(Command("contrib-patch", Nil, p), step)
            BY <1>1 DEF BeginContribPatch
      <2>3. QED BY <2>1, <2>2, EndsAtOnceDoes, BeginsDoes
<1>2. CASE WidenDeclaration \/ RunRector \/ WritePatch \/ RegisterContribPatch
      <2>1. call # Nil /\ call.name = "contrib-patch" /\ \E step \in Places : Goes(step)
            BY <1>2 DEF WidenDeclaration, RunRector, WritePatch, RegisterContribPatch, NeedsPlugin, At
      <2>2. QED BY <1>0, <2>1, GoesDoes
<1>3. CASE RectorFails \/ NoDifference \/ ContribStepFails
      <2>1. call # Nil /\ call.name = "contrib-patch" /\ Ends("failed")
            BY <1>3 DEF RectorFails, NoDifference, ContribStepFails, At
      <2>2. QED BY <1>0, <2>1, EndsDoes
<1>4. QED BY <1>1, <1>2, <1>3 DEF ContribPatch

(* After a crash, and when people act, nothing runs and nothing ended. *)
LEMMA NobodysStep ==
  ASSUME Crash \/ Commit \/ Discard \/ Install
  PROVE  call' = Nil /\ last' = Nil
BY DEF Crash, Commit, Discard, Install

(***************************************************************************)
(* The core upgrade                                                        *)
(***************************************************************************)

(* What is proved of upgrades. *)
UpgradeHolds ==
  UpgradeInPlace /\ UpgradeIsComplete /\ FailedUpgradeIsRecoverable

(* When no upgrade runs after a step and none ended with it, nothing is    *)
(* said of one.                                                            *)
LEMMA UpgradeIdle ==
  ASSUME call' # Nil => call'.name # "upgrade-core",
         last' # Nil => last'.name # "upgrade-core"
  PROVE  UpgradeHolds'
BY DEF UpgradeHolds, UpgradeInPlace, UpgradeIsComplete, FailedUpgradeIsRecoverable, LastIs

(* One major, as long as every move of the core is completed: a command    *)
(* that moves it is unfinished until its end, and discarding tells.        *)
LEMMA CoreStays == Typed /\ UpgradeInPlace /\ CoreInPlace /\ [Next]_vars => CoreInPlace'
<1> SUFFICES ASSUME Typed, UpgradeInPlace, CoreInPlace, [Next]_vars PROVE CoreInPlace'
    OBVIOUS
<1> USE DEF UpgradeSteps, LenientSteps
<1>0. ProjectTyped /\ CallInPlace /\ ParsedInPlace
      BY DEF Typed
<1>1. CASE UNCHANGED <<composer, lock, code, db, unfinished>>
      BY <1>1 DEF CoreInPlace
<1>2. CASE unfinished'
      BY <1>2 DEF CoreInPlace
<1>3. ASSUME UNCHANGED <<lock, code, db, unfinished>>,
             composer' \in Broken(composer) \/ (composer # Torn /\ composer'.core = composer.core)
      PROVE  CoreInPlace'
      BY <1>3 DEF CoreInPlace, Broken
<1>4. ASSUME call # Nil, call.at \in UpgradeSteps \cup LenientSteps
      PROVE  composer \in ComposerFile /\ composer # Torn
      BY <1>0, <1>4, TornIsNoFile DEF ParsedInPlace
<1>5. CASE Upgrade
      <2>1. ASSUME NEW t \in Majors, NEW dirty \in BOOLEAN, RefuseUpgrade(t, dirty)
            PROVE  CoreInPlace'
            BY <1>1, <2>1 DEF RefuseUpgrade, project
      <2>2. ASSUME NEW name \in {"upgrade-core", "core_upgrade_apply"}, NEW t \in Majors, NEW dirty \in BOOLEAN,
                   ApplyStepFails(name, t, dirty)
            PROVE  CoreInPlace'
            BY <1>3, <2>2 DEF ApplyStepFails, SameInstallation
      <2>3. ASSUME call # Nil, call.name = "upgrade-core"
            PROVE  unfinished
            BY <2>3 DEF UpgradeInPlace
      <2>4. CASE WriteBackup \/ SetPolicy \/ RequireCore \/ RequireCoreDev \/ Update \/ UpdateFails
                 \/ UpdateDatabase \/ UpgradeStepFails
            BY <1>2, <2>3, <2>4
            DEF WriteBackup, SetPolicy, RequireCore, RequireCoreDev, Update, UpdateFails, UpdateDatabase,
                UpgradeStepFails, At
      <2>5. CASE VerifyUpgrade
            BY <2>5 DEF VerifyUpgrade, At, SameInstallation, UpgradeInPlace, CoreInPlace
      <2>6. QED
            BY <1>2, <1>5, <2>1, <2>2, <2>4, <2>5 DEF Upgrade, BeginUpgrade, ApplyCoreStep
<1>6. CASE Lenient
      <2>1. CASE (\E p \in Packages : BeginLenient(p)) \/ CheckPlugin
            BY <1>1, <2>1 DEF BeginLenient, CheckPlugin, project
      <2>2. CASE TrustPlugin \/ RequirePlugin
            <3>1. composer \in ComposerFile /\ composer # Torn
                  BY <1>4, <2>2 DEF TrustPlugin, RequirePlugin, AtLenient
            <3>2. UNCHANGED <<lock, code, db, unfinished>>
                  BY <2>2 DEF TrustPlugin, RequirePlugin, OnlyComposerChanges
            <3>3. CASE TrustPlugin
                  BY <1>3, <3>1, <3>2, <3>3, FlagFields DEF TrustPlugin
            <3>4. CASE RequirePlugin
                  BY <1>3, <3>1, <3>2, <3>4, FlagFields DEF RequirePlugin
            <3>5. QED BY <2>2, <3>3, <3>4
      <2>3. CASE ListPackage
            <3>1. composer \in ComposerFile /\ composer # Torn /\ call.package \in Packages
                  BY <1>0, <1>4, <2>3 DEF ListPackage, AtLenient, CallInPlace, Named
            <3>2. composer'.core = composer.core /\ UNCHANGED <<lock, code, db, unfinished>>
                  BY <2>3, <3>1, ListFields DEF ListPackage, OnlyComposerChanges
            <3>3. QED BY <1>3, <3>1, <3>2
      <2>4. CASE LenientStepFails
            <3>1. composer \in ComposerFile /\ composer # Torn
                  BY <1>4, <2>4 DEF LenientStepFails, AtLenient
            <3>2. UNCHANGED <<lock, code, db, unfinished>>
                  BY <2>4 DEF LenientStepFails, OnlyComposerChanges
            <3>3. composer' \in Broken(composer) \/ composer'.core = composer.core
                  BY <2>4, <3>1, StepFailsLeaves, FlagFields
            <3>4. QED BY <1>3, <3>1, <3>2, <3>3
      <2>5. QED BY <1>6, <2>1, <2>2, <2>3, <2>4 DEF Lenient
<1>7. CASE Patching
      <2>1. CASE RegisterApplied
            <3>1. call.package \in Packages /\ call.key \in Keys /\ call.ref \in Refs
                  BY <1>0, <2>1 DEF RegisterApplied, At, CallInPlace, Named, Keys
            <3>2. composer \in ComposerFile /\ composer # Torn
                  BY <1>0, <2>1 DEF RegisterApplied, ProjectTyped
            <3>3. composer'.core = composer.core
                  BY <2>1, <3>1, <3>2, RegisteredFields DEF RegisterApplied
            <3>4. QED BY <1>3, <2>1, <3>2, <3>3 DEF RegisterApplied, OnlyComposerChanges
      <2>2. CASE RegisterAppliedFails
            BY <1>3, <2>2 DEF RegisterAppliedFails
      <2>3. ASSUME NEW p \in Packages, NEW ref \in Refs, RefuseApply(p, ref) \/ BeginApply(p, ref)
            PROVE  CoreInPlace'
            BY <1>1, <2>3 DEF RefuseApply, BeginApply, OnlyTreeChanges, project
      <2>4. ASSUME NEW p \in Packages, CreatePatch(p)
            PROVE  CoreInPlace'
            BY <1>1, <2>4 DEF CreatePatch
      <2>5. QED BY <1>7, <2>1, <2>2, <2>3, <2>4 DEF Patching
<1>8. CASE ContribPatch
      <2>1. CASE RegisterContribPatch
            <3>1. call.package \in Packages
                  BY <1>0, <2>1 DEF RegisterContribPatch, At, CallInPlace, Named
            <3>2. <<"compatibility", call.package>> \in Refs /\ "compatibility" \in Keys
                  BY <3>1 DEF Refs, LocalRefs, Keys
            <3>3. composer \in ComposerFile /\ composer # Torn
                  BY <1>0, <2>1 DEF RegisterContribPatch, ProjectTyped
            <3>4. composer'.core = composer.core
                  BY <2>1, <3>1, <3>2, <3>3, RegisteredFields DEF RegisterContribPatch
            <3>5. QED BY <1>3, <2>1, <3>3, <3>4 DEF RegisterContribPatch, OnlyComposerChanges
      <2>2. CASE ContribStepFails
            <3>1. composer' \in Broken(composer)
                  BY <2>2 DEF ContribStepFails, Broken
            <3>2. QED BY <1>3, <2>2, <3>1 DEF ContribStepFails, OnlyComposerChanges
      <2>3. QED
            BY <1>1, <1>8, <2>1, <2>2
            DEF ContribPatch, BeginContribPatch, WidenDeclaration, RunRector, RectorFails, NoDifference,
                WritePatch, OnlyTreeChanges, project
<1>9. CASE Discard
      <2>1. ASSUME ~unfinished'
            PROVE  /\ ~unfinished /\ lock' = lock /\ composer' # Torn /\ composer'.core = lock
                   /\ UNCHANGED <<code, db>>
            BY <1>9, <2>1 DEF Discard
      <2>2. QED BY <2>1 DEF CoreInPlace
<1>10. CASE Install
      BY <1>10 DEF Install, CoreInPlace
<1>11. QED
      BY <1>1, <1>5, <1>6, <1>7, <1>8, <1>9, <1>10 DEF Next, Crash, Commit, vars, project

(* Upgrades: one case for each step, by what it brings to the target, or   *)
(* by what it ends with.                                                   *)
LEMMA UpgradeStays == Typed /\ UpgradeHolds /\ CoreInPlace /\ [Next]_vars => UpgradeHolds'
<1> SUFFICES ASSUME Typed, UpgradeHolds, CoreInPlace, [Next]_vars PROVE UpgradeHolds'
    OBVIOUS
<1> USE DEF UpgradeSteps, Endings, Places
<1>0. ProjectTyped /\ CallInPlace /\ ParsedInPlace /\ UpgradeInPlace
      BY DEF Typed, UpgradeHolds
<1>1. CASE UNCHANGED vars
      BY <1>1 DEF vars, UpgradeHolds, UpgradeInPlace, UpgradeIsComplete, FailedUpgradeIsRecoverable, LastIs
<1>2. CASE Lenient \/ Patching \/ ContribPatch \/ Crash \/ Commit \/ Discard \/ Install
      BY <1>2, UpgradeIdle, LenientNames, PatchingNames, ContribNames, NobodysStep
<1>3. CASE Upgrade
      (* An upgrade goes on: nothing ended.                                *)
      <2>1. ASSUME last' = Nil, UpgradeInPlace'
            PROVE  UpgradeHolds'
            BY <2>1 DEF UpgradeHolds, UpgradeIsComplete, FailedUpgradeIsRecoverable, LastIs
      (* It ends: nothing runs.                                            *)
      <2>2. ASSUME call' = Nil, UpgradeIsComplete', FailedUpgradeIsRecoverable'
            PROVE  UpgradeHolds'
            BY <2>2 DEF UpgradeHolds, UpgradeInPlace
      <2>3. ASSUME NEW step \in UpgradeSteps, call # Nil, call.name = "upgrade-core", Goes(step)
            PROVE  /\ last' = Nil /\ call'.at = step
                   /\ call'.target = call.target /\ call'.composer = call.composer
                   /\ call'.clean = call.clean /\ call'.lost = call.lost
            BY <1>0, <2>3, GoesDoes
      <2>4. ASSUME call # Nil, call.name = "upgrade-core"
            PROVE  call.target \in Majors /\ call.composer # Nil /\ composer \in ComposerFile
            BY <1>0, <2>4, NilIsNothing DEF CallInPlace, Named, Commands, ParsedInPlace
      <2>5. ASSUME NEW t \in Majors, NEW dirty \in BOOLEAN, RefuseUpgrade(t, dirty)
            PROVE  UpgradeHolds'
            <3>1. /\ Command("upgrade-core", t, Nil) \in Commands
                  /\ Command("upgrade-core", t, Nil).target = t
                  BY <1>0, CommandFields DEF CommandNames
            <3>2. /\ call' = Nil /\ last'.at \in {"no-op", "refused"} /\ last'.target = t
                  /\ UNCHANGED <<composer, lock, code, db, unfinished>>
                  BY <2>5, <3>1, EndsAtOnceDoes DEF RefuseUpgrade, project
            <3>3. last'.at = "no-op" => composer # Torn /\ composer.core = t
                  BY <2>5, <3>1, EndsAtOnceDoes DEF RefuseUpgrade, AlreadyAtTarget
            <3>4. UpgradeIsComplete'
                  BY <3>2, <3>3 DEF UpgradeIsComplete, LastIs, CoreInPlace
            <3>5. QED BY <2>2, <3>2, <3>4 DEF FailedUpgradeIsRecoverable, LastIs
      <2>6. ASSUME NEW t \in Majors, NEW dirty \in BOOLEAN, BeginUpgrade(t, dirty)
            PROVE  UpgradeHolds'
            <3>1. /\ Command("upgrade-core", t, Nil) \in Commands
                  /\ Command("upgrade-core", t, Nil).target = t
                  /\ Command("upgrade-core", t, Nil).composer = composer
                  /\ Command("upgrade-core", t, Nil).clean = IsClean
                  BY <1>0, CommandFields DEF CommandNames
            <3>2. /\ last' = Nil /\ call'.at = "backup"
                  /\ call'.target = t /\ call'.composer = composer /\ call'.clean = IsClean
                  BY <2>6, <3>1, BeginsDoes DEF BeginUpgrade
            <3>3. composer \in ComposerFile
                  BY <1>0, <2>6 DEF BeginUpgrade, MayStep, ProjectTyped
            <3>6. composer'.core = t /\ composer'.dev = composer.dev
                  BY <2>6, <3>3, FileFields DEF BeginUpgrade, CoreAt
            <3>7. IsClean => head'.composer = composer
                  BY <2>6 DEF BeginUpgrade, SameInstallation, IsClean
            <3>4. UpgradeInPlace'
                  BY <2>6, <3>2, <3>6, <3>7 DEF UpgradeInPlace, BeginUpgrade
            <3>5. QED BY <2>1, <3>2, <3>4
      <2>7. CASE WriteBackup
            <3>1. /\ call # Nil /\ call.name = "upgrade-core" /\ call.at = "backup"
                  /\ UNCHANGED <<composer, head, unfinished>>
                  BY <2>7 DEF WriteBackup, At, SameInstallation
            <3>2. /\ last' = Nil /\ call'.at = "policy"
                  /\ call'.target = call.target /\ call'.composer = call.composer
                  /\ call'.clean = call.clean
                  /\ backup' = call.composer \/ call'.lost # {}
                  BY <1>0, <2>7, <3>1, GoesDoes, GoesWithoutDoes DEF WriteBackup, BackedUp, Writes
            <3>3. UpgradeInPlace'
                  BY <1>0, <3>1, <3>2 DEF UpgradeInPlace
            <3>4. QED BY <2>1, <3>2, <3>3
      <2>8. CASE SetPolicy
            <3>1. composer'.core = composer.core /\ composer'.dev = composer.dev
                  BY <2>4, <2>8, FlagFields DEF SetPolicy, At, PolicySet
            <3>2. UpgradeInPlace'
                  BY <1>0, <2>3, <2>8, <3>1 DEF SetPolicy, At, SameInstallation, UpgradeInPlace
            <3>3. QED BY <2>1, <2>3, <2>8, <3>2 DEF SetPolicy, At
      <2>9. CASE RequireCore
            <3>1. composer'.core = call.target /\ composer'.dev = composer.dev
                  BY <2>4, <2>9, FileFields DEF RequireCore, At, CoreAt
            <3>2. UpgradeInPlace'
                  BY <1>0, <2>3, <2>9, <3>1 DEF RequireCore, At, SameInstallation, UpgradeInPlace
            <3>3. QED BY <2>1, <2>3, <2>9, <3>2 DEF RequireCore, At
      <2>10. CASE RequireCoreDev
            <3>1. composer'.core = composer.core /\ composer'.dev = call.target
                  BY <2>4, <2>10, FileFields DEF RequireCoreDev, At
            <3>2. UpgradeInPlace'
                  BY <1>0, <2>3, <2>10, <3>1 DEF RequireCoreDev, At, SameInstallation, UpgradeInPlace
            <3>3. QED BY <2>1, <2>3, <2>10, <3>2 DEF RequireCoreDev, At
      <2>11. CASE Update
            <3>1. UpgradeInPlace'
                  BY <1>0, <2>3, <2>11 DEF Update, At, UpgradeInPlace
            <3>2. QED BY <2>1, <2>3, <2>11, <3>1 DEF Update, At
      <2>12. CASE UpdateDatabase
            <3>1. UpgradeInPlace'
                  BY <1>0, <2>3, <2>12 DEF UpdateDatabase, At, UpgradeInPlace
            <3>2. QED BY <2>1, <2>3, <2>12, <3>1 DEF UpdateDatabase, At
      <2>13. CASE UpdateFails
            <3>1. /\ call # Nil /\ call.name = "upgrade-core" /\ call.at = "update"
                  /\ UNCHANGED <<backup, head>>
                  BY <2>13 DEF UpdateFails, At
            <3>2. CASE EndsWithout("restore", "update failed")
                  <4>1. /\ call' = Nil /\ last'.at = "update failed" /\ last'.lost # {}
                        /\ last'.composer = call.composer /\ last'.clean = call.clean
                        BY <1>0, <3>1, <3>2, EndsWithoutDoes DEF Writes
                  <4>2. FailedUpgradeIsRecoverable'
                        BY <1>0, <3>1, <4>1 DEF UpgradeInPlace, FailedUpgradeIsRecoverable
                  <4>3. QED BY <2>2, <4>1, <4>2 DEF UpgradeIsComplete, LastIs
            <3>3. CASE Ends("update failed") /\ composer' = (IF backup = Nil THEN composer ELSE backup)
                  <4>1. /\ call' = Nil /\ last'.at = "update failed" /\ last'.lost = call.lost
                        /\ last'.composer = call.composer /\ last'.clean = call.clean
                        BY <1>0, <3>1, <3>3, EndsDoes
                  <4>2. call.lost = {} => backup = call.composer /\ call.composer # Nil
                        BY <1>0, <2>4, <3>1 DEF UpgradeInPlace
                  <4>3. FailedUpgradeIsRecoverable'
                        BY <1>0, <3>1, <3>3, <4>1, <4>2 DEF UpgradeInPlace, FailedUpgradeIsRecoverable
                  <4>4. QED BY <2>2, <4>1, <4>3 DEF UpgradeIsComplete, LastIs
            <3>4. QED BY <2>13, <3>2, <3>3 DEF UpdateFails, restoreComposerJSON
      <2>14. CASE VerifyUpgrade
            <3>1. call # Nil /\ call.name = "upgrade-core" /\ call.at = "status"
                  BY <2>14 DEF VerifyUpgrade, At
            <3>2. call' = Nil /\ last'.at = "ok" /\ last'.target = call.target
                  BY <1>0, <2>14, <3>1, EndsDoes DEF VerifyUpgrade
            <3>3. /\ lock = call.target /\ code = call.target /\ db = call.target
                  /\ composer.core = call.target /\ composer.dev \in {Nil, call.target}
                  BY <1>0, <3>1 DEF UpgradeInPlace
            <3>4. UpgradeIsComplete'
                  BY <2>14, <3>2, <3>3 DEF VerifyUpgrade, SameInstallation, UpgradeIsComplete, LastIs
            <3>5. QED BY <2>2, <3>2, <3>4 DEF FailedUpgradeIsRecoverable, LastIs
      <2>15. CASE UpgradeStepFails
            <3>1. /\ call # Nil /\ call.name = "upgrade-core" /\ call.at # "backup"
                  /\ UNCHANGED <<backup, head>>
                  BY <2>15 DEF UpgradeStepFails, FailingSteps
            <3>2. /\ call' = Nil /\ last'.at = "step failed" /\ last'.lost = call.lost
                  /\ last'.composer = call.composer /\ last'.clean = call.clean
                  BY <1>0, <2>15, <3>1, EndsDoes DEF UpgradeStepFails
            <3>3. FailedUpgradeIsRecoverable'
                  BY <1>0, <3>1, <3>2 DEF UpgradeInPlace, FailedUpgradeIsRecoverable, LastIs
            <3>4. QED
                  BY <2>2, <3>2, <3>3 DEF UpgradeIsComplete, LastIs
      <2>16. ASSUME NEW t \in Majors, ApplyCoreStep(t)
            PROVE  UpgradeHolds'
            <3>1. /\ Command("core_upgrade_apply", t, Nil) \in Commands
                  /\ Command("core_upgrade_apply", t, Nil).name = "core_upgrade_apply"
                  BY <1>0, CommandFields DEF CommandNames
            <3>2. call' = Nil /\ last'.name = "core_upgrade_apply"
                  BY <2>16, <3>1, EndsAtOnceDoes DEF ApplyCoreStep
            <3>3. QED BY <3>2, UpgradeIdle
      <2>18. ASSUME NEW t \in Majors, NEW dirty \in BOOLEAN, ApplyStepFails("upgrade-core", t, dirty)
            PROVE  UpgradeHolds'
            <3>1. EndsAtOnce(Lost("upgrade-core", t), "not written")
                  BY <2>18 DEF ApplyStepFails, Lost
            <3>2. /\ Lost("upgrade-core", t) \in Commands
                  /\ Lost("upgrade-core", t).composer = composer
                  /\ Lost("upgrade-core", t).clean = IsClean
                  /\ Lost("upgrade-core", t).lost = {"composer.json"}
                  BY <1>0, LostFields DEF CommandNames
            <3>3. /\ call' = Nil /\ last'.at = "not written" /\ last'.lost = {"composer.json"}
                  /\ last'.composer = composer /\ last'.clean = IsClean
                  BY <3>1, <3>2, EndsAtOnceDoes
            <3>4. IsClean => head'.composer = composer
                  BY <2>18 DEF ApplyStepFails, SameInstallation, IsClean
            <3>5. FailedUpgradeIsRecoverable'
                  BY <3>3, <3>4 DEF FailedUpgradeIsRecoverable
            <3>6. QED BY <2>2, <3>3, <3>5 DEF UpgradeIsComplete, LastIs
      <2>19. ASSUME NEW t \in Majors, NEW dirty \in BOOLEAN, ApplyStepFails("core_upgrade_apply", t, dirty)
            PROVE  UpgradeHolds'
            <3>1. EndsAtOnce(Lost("core_upgrade_apply", t), "not written")
                  BY <2>19 DEF ApplyStepFails, Lost
            <3>2. /\ Lost("core_upgrade_apply", t) \in Commands
                  /\ Lost("core_upgrade_apply", t).name = "core_upgrade_apply"
                  BY <1>0, LostFields DEF CommandNames
            <3>3. call' = Nil /\ last'.name = "core_upgrade_apply"
                  BY <3>1, <3>2, EndsAtOnceDoes
            <3>4. QED BY <3>3, UpgradeIdle
      <2>17. QED
            BY <1>3, <2>18, <2>19, <2>5, <2>6, <2>7, <2>8, <2>9, <2>10, <2>11, <2>12, <2>13, <2>14, <2>15, <2>16 DEF Upgrade
<1>4. QED BY <1>1, <1>2, <1>3 DEF Next

(***************************************************************************)
(* The lenient list                                                        *)
(***************************************************************************)

(* The commands that make a lenient pass. *)
LenientCommands == {"allow-lenient", "contrib-patch"}

(* What is proved of lenient passes. *)
LenientHolds == LenientInPlace /\ LenientHasEffect

(* When no such command runs after a step and none ended, nothing is said  *)
(* of one.                                                                 *)
LEMMA LenientIdle ==
  ASSUME call' # Nil => call'.name \notin LenientCommands,
         last' # Nil => last'.name \notin LenientCommands
  PROVE  LenientHolds'
BY DEF LenientHolds, LenientInPlace, LenientHasEffect, LastIs, LenientCommands

(* Lenient passes: the list is entered with the plugin installed, and      *)
(* listing takes neither it nor the package away.                          *)
LEMMA LenientStays == Typed /\ LenientHolds /\ [Next]_vars => LenientHolds'
<1> SUFFICES ASSUME Typed, LenientHolds, [Next]_vars PROVE LenientHolds'
    OBVIOUS
<1> USE DEF LenientSteps, ContribSteps, Endings, Places
<1>0. ProjectTyped /\ CallInPlace /\ ParsedInPlace /\ LenientInPlace
      BY DEF Typed, LenientHolds
<1>1. CASE UNCHANGED vars
      BY <1>1 DEF vars, LenientHolds, LenientInPlace, LenientHasEffect, LastIs
<1>2. CASE Upgrade \/ Patching \/ Crash \/ Commit \/ Discard \/ Install
      BY <1>2, LenientIdle, UpgradeNames, PatchingNames, NobodysStep DEF LenientCommands
<1>3. ASSUME last' = Nil, call'.at = "list" => plugin'
      PROVE  LenientHolds'
      BY <1>3 DEF LenientHolds, LenientInPlace, LenientHasEffect, LastIs
<1>4. ASSUME call' = Nil, last' # Nil => last'.at # "ok"
      PROVE  LenientHolds'
      BY <1>4 DEF LenientHolds, LenientInPlace, LenientHasEffect, LastIs
<1>5. ASSUME call # Nil, NEW step \in Places, Goes(step), step = "list" => plugin'
      PROVE  LenientHolds'
      BY <1>0, <1>3, <1>5, GoesDoes
<1>6. ASSUME call # Nil, Ends("failed")
      PROVE  LenientHolds'
      BY <1>0, <1>4, <1>6, EndsDoes
<1>7. CASE Lenient
      <2>1. ASSUME NEW p \in Packages, BeginLenient(p)
            PROVE  LenientHolds'
            <3>1. Command("allow-lenient", Nil, p) \in Commands
                  BY <1>0, CommandFields DEF CommandNames
            <3>2. last' = Nil /\ call'.at = NeedsPlugin
                  BY <2>1, <3>1, BeginsDoes DEF BeginLenient, NeedsPlugin
            <3>3. call'.at = "list" => plugin'
                  BY <2>1, <3>2 DEF BeginLenient, NeedsPlugin, project
            <3>4. QED BY <1>3, <3>2, <3>3
      <2>2. CASE TrustPlugin \/ RequirePlugin
            BY <1>5, <2>2 DEF TrustPlugin, RequirePlugin, AtLenient
      <2>3. CASE CheckPlugin
            BY <1>5, <1>6, <2>3 DEF CheckPlugin, AtLenient, PluginInstalled, project
      <2>4. CASE ListPackage
            <3>1. call # Nil /\ plugin /\ call.package \in Packages /\ composer \in ComposerFile
                  BY <1>0, <2>4 DEF ListPackage, AtLenient, LenientInPlace, CallInPlace, Named, ParsedInPlace
            <3>2. call' = Nil /\ last'.package = call.package
                  BY <1>0, <2>4, <3>1, EndsDoes DEF ListPackage
            <3>3. plugin' /\ call.package \in composer'.lenient
                  BY <2>4, <3>1, ListFields DEF ListPackage, OnlyComposerChanges
            <3>4. QED BY <3>2, <3>3 DEF LenientHolds, LenientInPlace, LenientHasEffect
      <2>5. CASE LenientStepFails
            BY <1>6, <2>5 DEF LenientStepFails, AtLenient
      <2>6. QED BY <1>7, <2>1, <2>2, <2>3, <2>4, <2>5 DEF Lenient
<1>8. CASE ContribPatch
      <2>1. ASSUME NEW p \in Packages, NEW declarationOnly \in BOOLEAN, BeginContribPatch(p, declarationOnly)
            PROVE  LenientHolds'
            <3>1. Command("contrib-patch", Nil, p) \in Commands
                  BY <1>0, CommandFields DEF CommandNames
            <3>2. CASE EndsAtOnce(Command("contrib-patch", Nil, p), "no patch needed")
                  BY <1>4, <3>1, <3>2, EndsAtOnceDoes
            <3>3. ASSUME NEW step \in ContribSteps, Begins(Command("contrib-patch", Nil, p), step)
                  PROVE  LenientHolds'
                  BY <1>3, <3>1, <3>3, BeginsDoes
            <3>4. QED BY <2>1, <3>2, <3>3 DEF BeginContribPatch
      <2>2. CASE WidenDeclaration \/ RunRector \/ WritePatch
            BY <1>5, <2>2 DEF WidenDeclaration, RunRector, WritePatch, At
      <2>3. CASE RegisterContribPatch
            BY <1>5, <2>3 DEF RegisterContribPatch, NeedsPlugin, At, OnlyComposerChanges
      <2>4. CASE RectorFails \/ NoDifference \/ ContribStepFails
            BY <1>6, <2>4 DEF RectorFails, NoDifference, ContribStepFails, At
      <2>5. QED BY <1>8, <2>1, <2>2, <2>3, <2>4 DEF ContribPatch
<1>9. QED BY <1>1, <1>2, <1>7, <1>8 DEF Next

(***************************************************************************)
(* Applied patches                                                         *)
(***************************************************************************)

(* What is proved of patches that are applied. *)
ApplyHolds == ApplyInPlace /\ ApplyIsAtomic

(* What is recorded depends on the registrations and the patch files       *)
(* only.                                                                   *)
LEMMA RecordedSame ==
  ASSUME composer'.patches = composer.patches, patches' = patches, NEW p
  PROVE  Recorded(p)' = Recorded(p)
BY DEF Recorded, Content

(* When no patch is being applied after a step and none was, nothing is    *)
(* said of one.                                                            *)
LEMMA ApplyIdle ==
  ASSUME call' # Nil => call'.name # "apply-patch",
         last' # Nil => last'.name # "apply-patch"
  PROVE  ApplyHolds'
BY DEF ApplyHolds, ApplyInPlace, ApplyIsAtomic, LastIs

(* Applied patches: the changes and the registration are made or unmade    *)
(* together.                                                               *)
LEMMA ApplyStays == Typed /\ ApplyHolds /\ [Next]_vars => ApplyHolds'
<1> SUFFICES ASSUME Typed, ApplyHolds, [Next]_vars PROVE ApplyHolds'
    OBVIOUS
<1> USE DEF ContribSteps, Endings, Places
<1>0. ProjectTyped /\ CallInPlace /\ ApplyInPlace
      BY DEF Typed, ApplyHolds
<1>1. CASE UNCHANGED vars
      <2>1. UNCHANGED <<composer, tree, patches, call, last>>
            BY <1>1 DEF vars
      <2>2. Content(call.ref)' = Content(call.ref) /\ Content(last.ref)' = Content(last.ref)
            BY <2>1 DEF Content
      <2>3. Recorded(last.package)' = Recorded(last.package)
            BY <2>1, RecordedSame DEF Recorded
      <2>4. QED BY <2>1, <2>2, <2>3 DEF ApplyHolds, ApplyInPlace, ApplyIsAtomic, LastIs
<1>2. CASE Upgrade \/ Lenient \/ ContribPatch \/ Crash \/ Commit \/ Discard \/ Install
      BY <1>2, ApplyIdle, UpgradeNames, LenientNames, ContribNames, NobodysStep
<1>3. CASE Patching
      <2>1. ASSUME NEW p \in Packages, NEW ref \in Refs, RefuseApply(p, ref)
            PROVE  ApplyHolds'
            <3>1. EndsAtOnce(Refused(p, ref), "not applied")
                  BY <2>1 DEF RefuseApply, Refused
            <3>2. /\ Refused(p, ref) \in Commands /\ Refused(p, ref).package = p
                  /\ Refused(p, ref).composer = composer /\ Refused(p, ref).code = tree[p]
                  /\ Refused(p, ref).lost = {}
                  BY <1>0, ApplyFields
            <3>5. last'.lost = {}
                  BY <3>1, <3>2, EndsAtOnceDoes
            <3>3. /\ call' = Nil /\ last'.at = "not applied" /\ last'.package = p
                  /\ last'.composer = composer /\ last'.code = tree[p]
                  BY <3>1, <3>2, EndsAtOnceDoes
            <3>4. QED
                  BY <2>1, <3>3, <3>5 DEF RefuseApply, project, ApplyHolds, ApplyInPlace, ApplyIsAtomic, LastIs, Broken
      <2>2. ASSUME NEW p \in Packages, NEW ref \in Refs, BeginApply(p, ref)
            PROVE  ApplyHolds'
            <3>1. Begins(Applied(p, ref), "register")
                  BY <2>2 DEF BeginApply, Applied
            <3>2. /\ Applied(p, ref) \in Commands
                  /\ Applied(p, ref).package = p /\ Applied(p, ref).ref = ref
                  /\ Applied(p, ref).composer = composer /\ Applied(p, ref).code = tree[p]
                  /\ Applied(p, ref).lost = {}
                  BY <1>0, ApplyFields
            <3>3. /\ last' = Nil /\ call'.package = p /\ call'.ref = ref
                  /\ call'.composer = composer /\ call'.code = tree[p] /\ call'.lost = {}
                  BY <3>1, <3>2, BeginsDoes
            <3>4. Content(ref)' = Content(ref)
                  BY <2>2 DEF BeginApply, OnlyTreeChanges, Content
            <3>5. /\ Content(ref) # Nil /\ Content(ref) \cap tree[p] = {}
                  /\ tree'[p] = tree[p] \cup Content(ref) /\ composer' = composer
                  BY <1>0, <2>2 DEF BeginApply, OnlyTreeChanges, Applies, ProjectTyped
            <3>6. Content(call.ref)' = Content(ref)
                  BY <3>3, <3>4 DEF Content
            <3>7. ApplyInPlace'
                  BY <3>3, <3>5, <3>6 DEF ApplyInPlace
            <3>8. QED BY <3>3, <3>7 DEF ApplyHolds, ApplyIsAtomic, LastIs
      <2>3. CASE RegisterApplied
            <3>1. call # Nil /\ call.name = "apply-patch"
                  BY <2>3 DEF RegisterApplied, At
            <3>2. /\ call.package \in Packages /\ call.key = "described" /\ call.key \in Keys
                  /\ call.ref \in Refs
                  BY <1>0, <3>1 DEF CallInPlace, Named, Keys
            <3>3. PICK p \in Packages, ref \in Refs : p = call.package /\ ref = call.ref
                  BY <3>2
            <3>4. /\ call' = Nil /\ last'.at = "ok" /\ last'.package = p /\ last'.ref = ref
                  BY <1>0, <2>3, <3>1, <3>3, EndsDoes DEF RegisterApplied
            <3>5. /\ Content(ref) # Nil /\ Content(ref) \subseteq tree[p]
                  BY <1>0, <3>1, <3>3 DEF ApplyInPlace
            <3>6. composer'.patches[p]["described"] = ref
                  BY <1>0, <2>3, <3>2, <3>3, RegisteredFields DEF RegisterApplied, ProjectTyped
            <3>7. tree' = tree /\ Content(ref)' = Content(ref)
                  BY <2>3 DEF RegisterApplied, OnlyComposerChanges, Content
            <3>8. Content(ref)' \subseteq Recorded(p)'
                  BY <3>2, <3>5, <3>6, <3>7, NilIsNothing DEF Recorded, Content
            <3>9. Content(last.ref)' = Content(ref)
                  BY <3>4, <3>7 DEF Content
            <3>10. Recorded(last.package)' = Recorded(p)'
                  BY <3>4 DEF Recorded
            <3>11. ApplyIsAtomic'
                  BY <3>4, <3>5, <3>7, <3>8, <3>9, <3>10 DEF ApplyIsAtomic, LastIs
            <3>12. QED BY <3>4, <3>11 DEF ApplyHolds, ApplyInPlace
      <2>4. CASE RegisterAppliedFails
            <3>1. call # Nil /\ call.name = "apply-patch"
                  BY <2>4 DEF RegisterAppliedFails, At
            <3>2. PICK p \in Packages : p = call.package
                  BY <1>0, <3>1 DEF CallInPlace, Named
            <3>3. /\ composer = call.composer /\ tree[p] = call.code \cup Content(call.ref)
                  /\ Content(call.ref) \cap call.code = {}
                  BY <1>0, <3>1, <3>2 DEF ApplyInPlace
            <3>4. composer' \in Broken(call.composer)
                  BY <2>4, <3>3 DEF RegisterAppliedFails
            <3>7. CASE tree' = Reverted(call.package, call.ref) /\ Ends("not applied")
                  <4>1. /\ call' = Nil /\ last'.at = "not applied" /\ last'.package = p
                        /\ last'.composer = call.composer /\ last'.code = call.code
                        /\ last'.lost = call.lost
                        BY <1>0, <3>1, <3>2, <3>7, EndsDoes
                  <4>2. "revert" \notin call.lost
                        BY <1>0, <3>1 DEF ApplyInPlace
                  <4>3. tree'[p] = tree[p] \ Content(call.ref)
                        BY <1>0, <3>2, <3>7 DEF Reverted, ProjectTyped
                  <4>4. tree'[p] = call.code
                        BY <3>3, <4>3
                  <4>5. QED BY <3>4, <4>1, <4>2, <4>4 DEF ApplyHolds, ApplyInPlace, ApplyIsAtomic, LastIs, Broken
            <3>8. CASE UNCHANGED tree /\ EndsWithout("revert", "not applied")
                  <4>1. /\ call' = Nil /\ last'.at = "not applied" /\ last'.package = p
                        /\ last'.composer = call.composer /\ last'.code = call.code
                        /\ last'.ref = call.ref /\ "revert" \in last'.lost
                        BY <1>0, <3>1, <3>2, <3>8, EndsWithoutDoes DEF Writes
                  <4>2. Content(last.ref)' = Content(call.ref)
                        BY <2>4, <4>1 DEF RegisterAppliedFails, Content
                  <4>3. tree'[p] = call.code \cup Content(last.ref)'
                        BY <3>3, <3>8, <4>2
                  <4>4. QED BY <3>4, <4>1, <4>3 DEF ApplyHolds, ApplyInPlace, ApplyIsAtomic, LastIs, Broken
            <3>9. QED BY <2>4, <3>7, <3>8 DEF RegisterAppliedFails
      <2>5. ASSUME NEW p \in Packages, CreatePatch(p)
            PROVE  ApplyHolds'
            <3>1. /\ Command("create_patch", Nil, p) \in Commands
                  /\ Command("create_patch", Nil, p).name = "create_patch"
                  BY <1>0, CommandFields DEF CommandNames
            <3>2. \E step \in Endings : EndsAtOnce(Command("create_patch", Nil, p), step)
                  BY <2>5 DEF CreatePatch
            <3>3. QED BY <3>1, <3>2, EndsAtOnceDoes, ApplyIdle
      <2>6. QED BY <1>3, <2>1, <2>2, <2>3, <2>4, <2>5 DEF Patching
<1>4. QED BY <1>1, <1>2, <1>3 DEF Next

(***************************************************************************)
(* Compatibility patches                                                   *)
(***************************************************************************)

(* What is proved of compatibility patches. *)
PatchHolds == PatchInPlace /\ PatchOfPublishedCodeIsWhole

(* When no contrib-patch runs after a step and none ended, nothing is      *)
(* said of one.                                                            *)
LEMMA PatchIdle ==
  ASSUME call' # Nil => call'.name # "contrib-patch",
         last' # Nil => last'.name # "contrib-patch"
  PROVE  PatchHolds'
BY DEF PatchHolds, PatchInPlace, PatchOfPublishedCodeIsWhole, LastIs

(* Compatibility patches: from the copy of published code to the patch,    *)
(* from the patch to its registration, and through the lenient pass.       *)
LEMMA PatchStays == Typed /\ PatchHolds /\ [Next]_vars => PatchHolds'
<1> SUFFICES ASSUME Typed, PatchHolds, [Next]_vars PROVE PatchHolds'
    OBVIOUS
<1> USE DEF LenientSteps, ContribSteps, Endings, Places
<1>0. ProjectTyped /\ CallInPlace /\ ParsedInPlace /\ PatchInPlace
      BY DEF Typed, PatchHolds
<1>1. CASE UNCHANGED vars
      <2>1. UNCHANGED <<composer, tree, patches, call, last>>
            BY <1>1 DEF vars
      <2>2. /\ Recorded(call.package)' = Recorded(call.package)
            /\ Recorded(last.package)' = Recorded(last.package)
            BY <2>1, RecordedSame DEF Recorded
      <2>3. QED BY <2>1, <2>2 DEF PatchHolds, PatchInPlace, PatchOfPublishedCodeIsWhole, LastIs
<1>2. CASE Upgrade \/ Patching \/ Crash \/ Commit \/ Discard \/ Install
      BY <1>2, PatchIdle, UpgradeNames, PatchingNames, NobodysStep
<1>3. ASSUME call' = Nil, last' # Nil => last'.at # "ok"
      PROVE  PatchHolds'
      BY <1>3 DEF PatchHolds, PatchInPlace, PatchOfPublishedCodeIsWhole, LastIs
<1>4. ASSUME call # Nil, Ends("failed")
      PROVE  PatchHolds'
      BY <1>0, <1>3, <1>4, EndsDoes
<1>5. ASSUME last' = Nil, call'.at \in {"declare", "declare only", "rector", "diff"}
      PROVE  PatchHolds'
      BY <1>5 DEF PatchHolds, PatchInPlace, PatchOfPublishedCodeIsWhole, LastIs
(* The list is entered or gone through with the whole patch recorded.      *)
<1>6. ASSUME NEW step \in LenientSteps, Goes(step), call # Nil,
             NEW p \in Packages, p = call.package,
             call.name = "contrib-patch" /\ call.code = {} => tree'[p] \subseteq Recorded(p)'
      PROVE  PatchHolds'
      <2>1. /\ last' = Nil /\ call'.at = step /\ call'.name = call.name
            /\ call'.code = call.code /\ call'.package = p
            BY <1>0, <1>6, GoesDoes
      <2>2. Recorded(call.package)' = Recorded(p)'
            BY <2>1 DEF Recorded
      <2>3. QED BY <1>6, <2>1, <2>2 DEF PatchHolds, PatchInPlace, PatchOfPublishedCodeIsWhole, LastIs
<1>7. CASE Lenient
      <2>1. ASSUME NEW p \in Packages, BeginLenient(p)
            PROVE  PatchHolds'
            <3>1. /\ Command("allow-lenient", Nil, p) \in Commands
                  /\ Command("allow-lenient", Nil, p).name = "allow-lenient"
                  BY <1>0, CommandFields DEF CommandNames
            <3>2. last' = Nil /\ call'.name = "allow-lenient"
                  BY <2>1, <3>1, BeginsDoes DEF BeginLenient, NeedsPlugin
            <3>3. QED BY <3>2, PatchIdle
      <2>2. ASSUME call # Nil, call.name \in {"allow-lenient", "contrib-patch"}, call.at \in LenientSteps
            PROVE  /\ call.package \in Packages /\ composer \in ComposerFile
                   /\ call.name = "contrib-patch" /\ call.code = {} =>
                        tree[call.package] \subseteq Recorded(call.package)
            BY <1>0, <2>2 DEF CallInPlace, Named, PatchInPlace, ParsedInPlace
      <2>3. CASE TrustPlugin
            <3>1. composer'.patches = composer.patches /\ patches' = patches /\ tree' = tree
                  BY <2>2, <2>3, FlagFields DEF TrustPlugin, OnlyComposerChanges, AtLenient
            <3>2. ASSUME NEW p
                  PROVE  Recorded(p)' = Recorded(p)
                  BY <3>1, RecordedSame
            <3>3. PICK p \in Packages : p = call.package
                  BY <2>2, <2>3 DEF TrustPlugin, AtLenient
            <3>4. call.name = "contrib-patch" /\ call.code = {} => tree'[p] \subseteq Recorded(p)'
                  BY <2>2, <2>3, <3>1, <3>2, <3>3 DEF TrustPlugin, AtLenient
            <3>5. QED BY <1>6, <2>3, <3>3, <3>4 DEF TrustPlugin, AtLenient
      <2>4. CASE RequirePlugin
            <3>1. composer'.patches = composer.patches /\ patches' = patches
                  BY <2>2, <2>4, FlagFields DEF RequirePlugin, AtLenient
            <3>2. ASSUME NEW p
                  PROVE  Recorded(p)' = Recorded(p)
                  BY <3>1, RecordedSame
            <3>3. PICK p \in Packages : p = call.package
                  BY <2>2, <2>4 DEF RequirePlugin, AtLenient
            <3>4. tree'[p] \in {tree[p], Recorded(p)}
                  BY <2>4 DEF RequirePlugin, Reinstalled
            <3>5. call.name = "contrib-patch" /\ call.code = {} => tree'[p] \subseteq Recorded(p)'
                  BY <2>2, <2>4, <3>2, <3>3, <3>4 DEF RequirePlugin, AtLenient
            <3>6. QED BY <1>6, <2>4, <3>3, <3>5 DEF RequirePlugin, AtLenient
      <2>5. CASE CheckPlugin
            <3>1. /\ call # Nil /\ call.package \in Packages
                  /\ composer'.patches = composer.patches /\ patches' = patches /\ tree' = tree
                  BY <2>2, <2>5 DEF CheckPlugin, AtLenient, project
            <3>2. ASSUME NEW p
                  PROVE  Recorded(p)' = Recorded(p)
                  BY <3>1, RecordedSame
            <3>3. PICK p \in Packages : p = call.package
                  BY <3>1
            <3>4. call.name = "contrib-patch" /\ call.code = {} => tree'[p] \subseteq Recorded(p)'
                  BY <2>2, <2>5, <3>1, <3>2, <3>3 DEF CheckPlugin, AtLenient
            <3>5. Goes("list") \/ Ends("failed")
                  BY <2>5 DEF CheckPlugin
            <3>6. QED BY <1>4, <1>6, <3>1, <3>3, <3>4, <3>5
      <2>6. CASE ListPackage
            <3>1. /\ call # Nil /\ call.package \in Packages
                  /\ call.name = "contrib-patch" /\ call.code = {} =>
                       tree[call.package] \subseteq Recorded(call.package)
                  BY <2>2, <2>6 DEF ListPackage, AtLenient
            <3>2. composer'.patches = composer.patches /\ patches' = patches /\ tree' = tree
                  BY <2>2, <2>6, <3>1, ListFields DEF ListPackage, AtLenient, OnlyComposerChanges
            <3>3. PICK p \in Packages : p = call.package
                  BY <3>1
            <3>4. /\ call' = Nil /\ last'.package = p
                  /\ last'.name = call.name /\ last'.code = call.code
                  BY <1>0, <2>6, <3>1, <3>3, EndsDoes DEF ListPackage
            <3>5. Recorded(p)' = Recorded(p)
                  BY <3>2, RecordedSame
            <3>6. Recorded(last.package)' = Recorded(p)'
                  BY <3>4 DEF Recorded
            <3>7. PatchOfPublishedCodeIsWhole'
                  BY <3>1, <3>2, <3>3, <3>4, <3>5, <3>6 DEF PatchOfPublishedCodeIsWhole, LastIs
            <3>8. QED BY <3>4, <3>7 DEF PatchHolds, PatchInPlace
      <2>7. CASE LenientStepFails
            BY <1>4, <2>7 DEF LenientStepFails, AtLenient
      <2>8. QED BY <1>7, <2>1, <2>3, <2>4, <2>5, <2>6, <2>7 DEF Lenient
<1>8. CASE ContribPatch
      <2>1. ASSUME NEW p \in Packages, NEW declarationOnly \in BOOLEAN, BeginContribPatch(p, declarationOnly)
            PROVE  PatchHolds'
            <3>1. Command("contrib-patch", Nil, p) \in Commands
                  BY <1>0, CommandFields DEF CommandNames
            <3>2. CASE EndsAtOnce(Command("contrib-patch", Nil, p), "no patch needed")
                  BY <1>3, <3>1, <3>2, EndsAtOnceDoes
            <3>3. ASSUME NEW step \in {"declare", "declare only", "rector"},
                         Begins(Command("contrib-patch", Nil, p), step)
                  PROVE  PatchHolds'
                  BY <1>5, <3>1, <3>3, BeginsDoes
            <3>4. QED BY <2>1, <3>2, <3>3 DEF BeginContribPatch
      <2>2. CASE WidenDeclaration \/ RunRector
            <3>1. call # Nil /\ (Goes("rector") \/ Goes("diff"))
                  BY <2>2 DEF WidenDeclaration, RunRector, At
            <3>2. QED BY <1>0, <1>5, <3>1, GoesDoes
      <2>3. CASE WritePatch
            <3>1. call # Nil /\ call.name = "contrib-patch"
                  BY <2>3 DEF WritePatch, At
            <3>2. PICK p \in Packages : p = call.package
                  BY <1>0, <3>1 DEF CallInPlace, Named
            <3>3. /\ last' = Nil /\ call'.at = "register" /\ call'.package = p
                  /\ call'.code = call.code
                  BY <1>0, <2>3, <3>1, <3>2, GoesDoes DEF WritePatch
            <3>4. patches'[<<"compatibility", p>>] = tree[p] \ call.code /\ tree' = tree
                  BY <1>0, <2>3, <3>2 DEF WritePatch, Difference, ProjectTyped, PatchSet, LocalRefs
            <3>5. PatchInPlace'
                  BY <3>3, <3>4 DEF PatchInPlace
            <3>6. QED BY <3>3, <3>5 DEF PatchHolds, PatchOfPublishedCodeIsWhole, LastIs
      <2>4. CASE RegisterContribPatch
            <3>1. call # Nil /\ call.name = "contrib-patch" /\ call.at = "register"
                  BY <2>4 DEF RegisterContribPatch, At
            <3>2. PICK p \in Packages : p = call.package
                  BY <1>0, <3>1 DEF CallInPlace, Named
            <3>3. PICK ref \in LocalRefs : ref = <<"compatibility", p>>
                  BY DEF LocalRefs
            <3>4. composer'.patches[p]["compatibility"] = ref
                  BY <1>0, <2>4, <3>2, <3>3, RegisteredFields
                  DEF RegisterContribPatch, ProjectTyped, Keys, Refs
            <3>5. patches' = patches /\ tree' = tree
                  BY <2>4 DEF RegisterContribPatch, OnlyComposerChanges
            <3>6. call.code = {} => patches[ref] = tree[p] /\ tree[p] # Nil
                  BY <1>0, <3>1, <3>2, <3>3, NilIsNothing DEF PatchInPlace, ProjectTyped
            <3>7. call.code = {} => tree'[p] \subseteq Recorded(p)'
                  <4>1. ref # Nil
                        BY <3>3, NilIsNothing DEF Refs
                  <4>2. "compatibility" \in Keys
                        BY DEF Keys
                  <4>3. QED BY <3>3, <3>4, <3>5, <3>6, <4>1, <4>2 DEF Recorded, Content
            <3>8. QED BY <1>6, <2>4, <3>1, <3>2, <3>7 DEF RegisterContribPatch, NeedsPlugin
      <2>5. CASE RectorFails \/ NoDifference \/ ContribStepFails
            BY <1>4, <2>5 DEF RectorFails, NoDifference, ContribStepFails, At
      <2>6. QED BY <1>8, <2>1, <2>2, <2>3, <2>4, <2>5 DEF ContribPatch
<1>9. QED BY <1>1, <1>2, <1>7, <1>8 DEF Next

(***************************************************************************)
(* The theorems                                                            *)
(***************************************************************************)

(* The inductive invariant. *)
Inv == Typed /\ UpgradeHolds /\ CoreInPlace /\ LenientHolds /\ ApplyHolds /\ PatchHolds

(* It holds at first, and each part is kept with the help of the types. *)
LEMMA Invariance == Spec => []Inv
<1>1. ASSUME Init
      PROVE  Inv
      <2>1. call = Nil /\ last = Nil
            BY <1>1 DEF Init
      <2>2. UpgradeHolds /\ LenientHolds /\ ApplyHolds /\ PatchHolds
            BY <2>1 DEF UpgradeHolds, UpgradeInPlace, UpgradeIsComplete, FailedUpgradeIsRecoverable,
               LenientHolds, LenientInPlace, LenientHasEffect, ApplyHolds, ApplyInPlace, ApplyIsAtomic,
               PatchHolds, PatchInPlace, PatchOfPublishedCodeIsWhole, LastIs
      <2>3. CoreInPlace
            <3>1. composer.core = Installed
                  BY <1>1 DEF Init
            <3>2. QED BY <1>1, <3>1 DEF Init, CoreInPlace
      <2>4. QED BY <1>1, <2>2, <2>3, TypedInit DEF Inv
<1>2. Inv /\ [Next]_vars => Inv'
      BY TypedNext, UpgradeStays, CoreStays, LenientStays, ApplyStays, PatchStays DEF Inv, UpgradeHolds
<1>3. QED BY <1>1, <1>2, PTL DEF Spec

(* TypeOK. The project and the commands stay well formed; an update runs   *)
(* with the requirements at the target, and the database is updated when   *)
(* lock and code are there (app/commands.go, RunUpgradeCore).              *)
THEOREM TypeCorrect == Spec => []TypeOK
<1>1. Inv => TypeOK
      BY DEF Inv, Typed, ProjectTyped, PatchSet, UpgradeHolds, UpgradeInPlace, TypeOK, At
<1>2. QED BY <1>1, Invariance, PTL

(* UpgradeIsComplete. An upgrade that ran to its end has requirements,     *)
(* lock, code and database at its target, whatever failed before and was   *)
(* tried again; and so has the project where an upgrade answers "already   *)
(* at target", if every move of the core before it belonged to a complete  *)
(* upgrade.                                                                *)
THEOREM UpgradesComplete == Spec => []UpgradeIsComplete
<1>1. Inv => UpgradeIsComplete
      BY DEF Inv, UpgradeHolds
<1>2. QED BY <1>1, Invariance, PTL

(* FailedUpgradeIsRecoverable. Of a failed upgrade the composer.json it    *)
(* began with can be had again: from git when the tree was clean, whatever *)
(* writes failed; and on any tree, when none of its own did, from          *)
(* composer.json.bak, after a failed update from composer.json itself.     *)
THEOREM FailedUpgradesRecover == Spec => []FailedUpgradeIsRecoverable
<1>1. Inv => FailedUpgradeIsRecoverable
      BY DEF Inv, UpgradeHolds
<1>2. QED BY <1>1, Invariance, PTL

(* LenientHasEffect. A lenient pass that reports success has listed its    *)
(* package, and the plugin that reads the list is installed                *)
(* (app/lenient.go).                                                       *)
THEOREM LenientTakesEffect == Spec => []LenientHasEffect
<1>1. Inv => LenientHasEffect
      BY DEF Inv, LenientHolds
<1>2. QED BY <1>1, Invariance, PTL

(* ApplyIsAtomic. A patch that is reported as applied is in the code and   *)
(* in composer.json; one that is not is in neither, unless git apply -R,   *)
(* whose result is ignored, failed too, and composer.json is as it was or  *)
(* torn by its own write (patch.Apply).                                    *)
THEOREM ApplyAllOrNothing == Spec => []ApplyIsAtomic
<1>1. Inv => ApplyIsAtomic
      BY DEF Inv, ApplyHolds
<1>2. QED BY <1>1, Invariance, PTL

(* PatchOfPublishedCodeIsWhole. A contrib-patch of published code that     *)
(* succeeds has recorded every change in the code of the module, also      *)
(* when composer installed the module again meanwhile.                     *)
THEOREM PatchesRecordChanges == Spec => []PatchOfPublishedCodeIsWhole
<1>1. Inv => PatchOfPublishedCodeIsWhole
      BY DEF Inv, PatchHolds
<1>2. QED BY <1>1, Invariance, PTL

=============================================================================
