------------------------------ MODULE Delivery ------------------------------
(***************************************************************************)
(* How drup is delivered to a user's home: the commands install, sync,     *)
(* upgrade and uninstall of internal/app/commands.go over                  *)
(* internal/installer, internal/update and internal/state.                 *)
(*                                                                         *)
(* One command runs at a time; it may fail at every write, or die between  *)
(* any two.  An agent (Claude Code, OpenCode, Codex) has three files here: *)
(* its skill, which stands for what drup has in the skills directory; its  *)
(* role, for the roles and commands drup writes elsewhere; and its         *)
(* configuration, which is the user's and in which drup keeps one entry.   *)
(* The agent and the user edit them whenever they like.  A file is what    *)
(* the user last wrote into it and the version of drup it carries; the     *)
(* texts, and the JSON and TOML of the configurations, are left out.       *)
(***************************************************************************)
EXTENDS Naturals, SequencesExt

CONSTANTS
  Agents,       \* the agents drup knows
  TomlAgents,   \* those whose configuration is edited as text (Codex)
  Versions,     \* releases and builds
  MaxBackups,   \* backups kept of a kind (maxBackups)
  MaxEdits,     \* edits a user makes
  MaxFaults,    \* operations that fail, and commands that die
  Torn,         \* a file that a write has truncated, an archive cut short
  Nil           \* no file, no version

ASSUME TomlAgentsAreAgents == TomlAgents \subseteq Agents
ASSUME BoundsAreNumbers == MaxBackups \in Nat \ {0} /\ {MaxEdits, MaxFaults} \subseteq Nat

VARIABLES
  bin,          \* what is installed as drup
  fresh,        \* the file <drup>.new next to it
  spare,        \* ~/.drup/backups/drup.bak
  state,        \* ~/.config/drup/state.json, or Nil
  detected,     \* agents that have a directory in the user's home
  files,        \* the files of each agent
  dirBackups,   \* archives of skills directories, of all agents together
  fileBackups,  \* copies of the configuration of each agent
  edits,        \* edits made so far
  cmd,          \* the command that runs
  faults,       \* operations that failed, and commands that died, so far
  late,         \* files edited since the command last copied them (observation)
  cut,          \* agents an install or a removal left half done   (observation)
  unnoted       \* versions installed since the one on record      (observation)

disk == <<bin, fresh, spare>>
backups == <<dirBackups, fileBackups>>
observed == <<late, cut, unnoted>>
vars == <<disk, state, detected, files, backups, edits, cmd, faults, observed>>

FileNames == {"skill", "role", "config"}

(* What a copy is taken of before it is overwritten.                       *)
Archived == {"skill", "config"}

Content == [user : 0..MaxEdits, drup : Versions \cup {Nil}]
Contents == Content \cup {Nil, Torn}

ASSUME NilAndTornAreNoContent ==
  Nil \notin Content \cup Versions \cup {Torn} /\ Torn \notin Content \cup Versions

State == [agents : SUBSET Agents, version : Versions \cup {Nil}, pending : BOOLEAN]

(* Load: a missing state file is an empty state. *)
Loaded == IF state = Nil THEN [agents |-> {}, version |-> Nil, pending |-> FALSE] ELSE state

Idle ==
  [pc |-> "idle", op |-> Nil, force |-> FALSE, version |-> Nil, loaded |-> Nil,
   todo |-> {}, ok |-> {}, failed |-> {}, agent |-> Nil, plan |-> Nil,
   changed |-> {}, archive |-> Nil]

Init ==
  /\ bin \in Versions
  /\ fresh = Nil /\ spare = Nil
  /\ state = Nil
  /\ detected = {}
  /\ files = [a \in Agents |-> [f \in FileNames |-> Nil]]
  /\ dirBackups = << >>
  /\ fileBackups = [a \in Agents |-> << >>]
  /\ edits = 0
  /\ cmd = Idle
  /\ faults = 0
  /\ late = {}
  /\ cut = {} /\ unnoted = {}

At(pc) == cmd.pc = pc
Fault == faults < MaxFaults /\ faults' = faults + 1
-----------------------------------------------------------------------------
(***************************************************************************)
(* The user and the agents                                                 *)
(***************************************************************************)

AgentAppears(a) ==
  /\ a \notin detected
  /\ detected' = detected \cup {a}
  /\ UNCHANGED <<disk, state, files, backups, edits, cmd, observed, faults>>

(* The files of which the command has already taken the copy it will keep, *)
(* or of which it takes none.                                              *)
PastCopy ==
  CASE At("backupFile") -> {<<cmd.agent, "skill">>}
    [] At("write") -> {cmd.agent} \X Archived
    [] At("removeConfig") -> {<<cmd.agent, "config">>}
    [] OTHER -> {}

UserEdits(a, f) ==
  /\ a \in detected
  /\ edits < MaxEdits
  /\ edits' = edits + 1
  /\ files[a][f] # Torn
  /\ files' = [files EXCEPT ![a][f] =
       [user |-> edits', drup |-> IF @ = Nil THEN Nil ELSE @.drup]]
  /\ late' = late \cup ({<<a, f>>} \cap PastCopy)
  /\ UNCHANGED <<disk, state, detected, backups, cmd, cut, unnoted, faults>>
-----------------------------------------------------------------------------
(***************************************************************************)
(* install and sync: agent by agent, look at its files, back them up if    *)
(* any will change, write those that change, and record the outcome        *)
(***************************************************************************)

(* The version a command writes: its own, or the one it upgrades to. *)
Begin(op, version, command) ==
  /\ At("idle") /\ bin # Nil
  /\ cmd' = [command EXCEPT !.op = op, !.version = version, !.loaded = Loaded]
  /\ late' = {}
  /\ UNCHANGED <<disk, state, detected, files, backups, edits, cut, unnoted, faults>>

StartInstall ==
  /\ detected # {}
  /\ Begin("install", bin, [Idle EXCEPT !.pc = "next", !.todo = detected])

(* Whatever agents are recorded, those detected now are synced. *)
StartSync ==
  /\ Loaded.agents # {}
  /\ Begin("sync", bin, [Idle EXCEPT !.pc = "next", !.todo = detected])

(* RenderMCPConfig refuses a JSON file it cannot parse; TOML is edited as  *)
(* text, whatever it is.                                                   *)
CanRender(a) == files[a]["config"] # Torn \/ a \in TomlAgents

UserPart(content) == IF content \in {Nil, Torn} THEN 0 ELSE content.user

(* A skill or a role is replaced; the configuration keeps what the user    *)
(* has in it.                                                              *)
Intended(a) ==
  [f \in FileNames |->
    [user |-> IF f = "config" THEN UserPart(files[a][f]) ELSE 0, drup |-> cmd.version]]

NextAgent(outcome) ==
  [cmd EXCEPT !.pc = "next", !.todo = @ \ {cmd.agent}, !.agent = Nil,
   !.plan = Nil, !.changed = {},
   !.ok = IF outcome = "ok" THEN @ \cup {cmd.agent} ELSE @,
   !.failed = IF outcome = "failed" THEN @ \cup {cmd.agent} ELSE @]

(* Phase 1 of Install. *)
Look(a) ==
  /\ At("next") /\ cmd.op \in {"install", "sync"} /\ a \in cmd.todo
  /\ CanRender(a)
  /\ cmd' = [cmd EXCEPT !.pc = "backupDir", !.agent = a, !.plan = Intended(a),
       !.changed = {f \in FileNames : files[a][f] # Intended(a)[f]}]
  /\ late' = {}
  /\ UNCHANGED <<disk, state, detected, files, backups, edits, cut, unnoted, faults>>

LookFails(a) ==
  /\ At("next") /\ cmd.op \in {"install", "sync"} /\ a \in cmd.todo
  /\ ~CanRender(a)
  /\ cmd' = [cmd EXCEPT !.todo = @ \ {a}, !.failed = @ \cup {a}]
  /\ UNCHANGED <<disk, state, detected, files, backups, edits, observed, faults>>

NothingChanges ==
  /\ At("backupDir") /\ cmd.changed = {}
  /\ cmd' = NextAgent("ok")
  /\ cut' = cut \ {cmd.agent}
  /\ UNCHANGED <<disk, state, detected, files, backups, edits, late, unnoted, faults>>

(* Mutant of Pruned: the newest are removed. *)
PrunedNewest(log) == SubSeq(log, 1, IF Len(log) < MaxBackups THEN Len(log) ELSE MaxBackups)

Pruned(log) ==
  SubSeq(log, IF Len(log) > MaxBackups THEN Len(log) - MaxBackups + 1 ELSE 1, Len(log))

(* BackupConfig and BackupFile take nothing of what is not there, and      *)
(* nothing twice in a row.                                                 *)
WithBackup(log, content) ==
  IF content = Nil \/ (log # << >> /\ Last(log) = content) THEN log
  ELSE Pruned(Append(log, content))

BackupDir ==
  /\ At("backupDir") /\ cmd.changed # {}
  /\ dirBackups' = WithBackup(dirBackups, files[cmd.agent]["skill"])
  /\ cmd' = [cmd EXCEPT !.pc = "backupFile"]
  /\ UNCHANGED <<disk, state, detected, files, fileBackups, edits, observed, faults>>

BackupFile ==
  /\ At("backupFile")
  /\ fileBackups' = [fileBackups EXCEPT ![cmd.agent] =
       WithBackup(@, files[cmd.agent]["config"])]
  /\ cmd' = [cmd EXCEPT !.pc = "write"]
  /\ UNCHANGED <<disk, state, detected, files, dirBackups, edits, observed, faults>>

BackupFails ==
  /\ Fault
  /\ At("backupDir") \/ At("backupFile")
  /\ cmd.changed # {}
  /\ cmd' = NextAgent("failed")
  /\ UNCHANGED <<disk, state, detected, files, backups, edits, observed>>

(* Phase 3 of Install: os.WriteFile, in the order of a Go map. *)
Write(f) ==
  /\ At("write") /\ f \in cmd.changed
  /\ files' = [files EXCEPT ![cmd.agent][f] = cmd.plan[f]]
  /\ IF cmd.changed = {f}
     THEN cmd' = NextAgent("ok") /\ cut' = cut \ {cmd.agent}
     ELSE cmd' = [cmd EXCEPT !.changed = @ \ {f}] /\ UNCHANGED cut
  /\ UNCHANGED <<disk, state, detected, backups, edits, late, unnoted, faults>>

WriteFails(f) ==
  /\ Fault
  /\ At("write") /\ f \in cmd.changed
  /\ \E left \in {files[cmd.agent][f], Torn} :
       files' = [files EXCEPT ![cmd.agent][f] = left]
  /\ cmd' = NextAgent("failed")
  /\ cut' = cut \cup {cmd.agent}
  /\ UNCHANGED <<disk, state, detected, backups, edits, late, unnoted>>

(* Mutant of StateAfter: a sync settles what an upgrade left pending even  *)
(* if it failed for an agent.                                              *)
StateAfterAnySync ==
  IF cmd.op = "install"
  THEN [cmd.loaded EXCEPT !.agents = cmd.ok, !.version = cmd.version]
  ELSE [cmd.loaded EXCEPT !.pending = FALSE]

(* install records the agents that succeeded now, and only them; sync      *)
(* records no agent, and neither of them both version and pending.         *)
StateAfter ==
  IF cmd.op = "install"
  THEN [cmd.loaded EXCEPT !.agents = cmd.ok, !.version = cmd.version]
  ELSE [cmd.loaded EXCEPT !.pending = cmd.failed # {}]

(* The save that ends a command is atomic, and may fail. *)
EndInstall ==
  /\ At("next") /\ cmd.op \in {"install", "sync"} /\ cmd.todo = {}
  /\ IF cmd.ok = {} THEN UNCHANGED <<state, unnoted, faults>>
     ELSE \/ /\ state' = StateAfter
             /\ unnoted' = IF cmd.op = "install" THEN {} ELSE unnoted
             /\ UNCHANGED faults
          \/ Fault /\ UNCHANGED <<state, unnoted>>
  /\ cmd' = Idle
  /\ UNCHANGED <<disk, detected, files, backups, edits, late, cut>>
-----------------------------------------------------------------------------
(***************************************************************************)
(* upgrade: download and verify, extract beside the binary, copy the       *)
(* binary, rename over it, and note that the agents are to be synced       *)
(***************************************************************************)

(* The server names the latest release, which may be an older one than     *)
(* before, or than a build of the user's: only an equal one is refused.    *)
StartUpgrade(latest) ==
  /\ bin # latest
  /\ Begin("upgrade", latest, [Idle EXCEPT !.pc = "download"])

(* Mutant of Verified: a release without a checksum is taken. *)
AlwaysVerified(archive) == TRUE

Verified(archive) == archive # "foreign"

(* The release server answers with the release, or something else. *)
Download(archive) ==
  /\ At("download")
  /\ cmd' = IF Verified(archive)
            THEN [cmd EXCEPT !.pc = "extract", !.archive = archive]
            ELSE Idle
  /\ UNCHANGED <<disk, state, detected, files, backups, edits, observed, faults>>

Extract ==
  /\ At("extract")
  /\ fresh' = IF cmd.archive = "release" THEN cmd.version ELSE Torn
  /\ cmd' = [cmd EXCEPT !.pc = "spare"]
  /\ UNCHANGED <<bin, spare, state, detected, files, backups, edits, observed, faults>>

BackupBinary ==
  /\ At("spare")
  /\ spare' = bin
  /\ cmd' = [cmd EXCEPT !.pc = "replace"]
  /\ UNCHANGED <<bin, fresh, state, detected, files, backups, edits, observed, faults>>

(* The copy truncates the backup of the upgrade before. *)
BackupBinaryFails ==
  /\ Fault
  /\ At("spare")
  /\ spare' \in {spare, Torn}
  /\ cmd' = Idle
  /\ UNCHANGED <<bin, fresh, state, detected, files, backups, edits, observed>>

DownloadFails ==
  /\ At("download")
  /\ cmd' = Idle
  /\ UNCHANGED <<disk, state, detected, files, backups, edits, observed, faults>>

ExtractFails ==
  /\ Fault
  /\ At("extract")
  /\ fresh' \in {fresh, Torn}
  /\ cmd' = Idle
  /\ UNCHANGED <<bin, spare, state, detected, files, backups, edits, observed>>

ReplaceBinary ==
  /\ At("replace")
  /\ bin' = fresh /\ fresh' = Nil
  /\ cmd' = [cmd EXCEPT !.pc = "pending"]
  /\ unnoted' = unnoted \cup {fresh}
  /\ UNCHANGED <<spare, state, detected, files, backups, edits, late, cut, faults>>

(* The rename fails: the backup is renamed into place, or that fails too. *)
RestoreBinary ==
  /\ Fault
  /\ At("replace")
  /\ bin' \in {bin, spare}
  /\ cmd' = Idle
  /\ UNCHANGED <<fresh, spare, state, detected, files, backups, edits, observed>>

MarkPending ==
  /\ At("pending")
  /\ \/ /\ state' = [Loaded EXCEPT !.pending = TRUE, !.version = cmd.version]
        /\ unnoted' = {}
        /\ UNCHANGED faults
     \/ Fault /\ UNCHANGED <<state, unnoted>>
  /\ cmd' = Idle
  /\ UNCHANGED <<disk, detected, files, backups, edits, late, cut>>
-----------------------------------------------------------------------------
(***************************************************************************)
(* uninstall: agent by agent, remove the skill, the role, then drup's      *)
(* entry of the configuration; then the state directory, then the binary   *)
(***************************************************************************)

StartUninstall(force) ==
  /\ Loaded.agents # {} \/ force
  /\ Begin("uninstall", bin,
       [Idle EXCEPT !.pc = "next", !.force = force, !.todo = Loaded.agents])

RemoveSkill(a) ==
  /\ At("next") /\ cmd.op = "uninstall" /\ a \in cmd.todo
  /\ files' = [files EXCEPT ![a]["skill"] = Nil]
  /\ cmd' = [cmd EXCEPT !.pc = "removeRole", !.agent = a]
  /\ cut' = cut \cup {a}
  /\ UNCHANGED <<disk, state, detected, backups, edits, late, unnoted, faults>>

RemoveRole ==
  /\ At("removeRole")
  /\ files' = [files EXCEPT ![cmd.agent]["role"] = Nil]
  /\ cmd' = [cmd EXCEPT !.pc = "readConfig"]
  /\ UNCHANGED <<disk, state, detected, backups, edits, observed, faults>>

(* A configuration that cannot be parsed, or a file that cannot be         *)
(* removed, ends the command.                                              *)
RemoveFails ==
  /\ Fault
  /\ cmd.op = "uninstall"
  /\ \/ cmd.pc \in {"removeRole", "readConfig", "removeConfig"}
     \/ At("next") /\ cmd.todo # {}
  /\ cmd' = Idle
  /\ UNCHANGED <<disk, state, detected, files, backups, edits, observed>>

(* RemoveMCPConfig reads, and later renames a file over what it has read,  *)
(* if there is an entry of drup's in it; JSON that has a table of servers  *)
(* without one is written again too.                                       *)
ReadConfig ==
  LET config == files[cmd.agent]["config"]
      mine == config \in Content /\ config.drup # Nil IN
  /\ At("readConfig")
  /\ CanRender(cmd.agent)
  /\ late' = {}
  /\ \/ /\ mine \/ (config \in Content /\ cmd.agent \notin TomlAgents)
        /\ cmd' = [cmd EXCEPT !.pc = "removeConfig", !.plan = config]
     \/ ~mine /\ cmd' = NextAgent("ok")
  /\ UNCHANGED <<disk, state, detected, files, backups, edits, cut, unnoted, faults>>

(* A file that holds nothing else is removed, but OpenCode's.              *)
RemoveConfig ==
  /\ At("removeConfig")
  /\ \E left \in {[user |-> cmd.plan.user, drup |-> Nil]} \cup
                (IF cmd.plan.user = 0 THEN {Nil} ELSE {}) :
       files' = [files EXCEPT ![cmd.agent]["config"] = left]
  /\ cmd' = NextAgent("ok")
  /\ UNCHANGED <<disk, state, detected, backups, edits, observed, faults>>

(* The state directory holds the backups too; if it cannot be removed the  *)
(* command only warns.                                                     *)
RemoveState ==
  /\ At("next") /\ cmd.op = "uninstall" /\ cmd.todo = {}
  /\ \/ /\ state' = Nil
        /\ dirBackups' = << >>
        /\ fileBackups' = [a \in Agents |-> << >>]
        /\ UNCHANGED faults
     \/ Fault /\ UNCHANGED <<state, backups>>
  /\ cmd' = [cmd EXCEPT !.pc = "removeBinary"]
  /\ UNCHANGED <<disk, detected, files, edits, observed>>

RemoveBinary ==
  /\ At("removeBinary")
  /\ \/ bin' = Nil /\ UNCHANGED faults
     \/ Fault /\ UNCHANGED bin
  /\ cmd' = [Idle EXCEPT !.op = "uninstall", !.force = cmd.force]
  /\ UNCHANGED <<fresh, spare, state, detected, files, backups, edits, observed>>
-----------------------------------------------------------------------------
(***************************************************************************)
(* The command dies: a write that is not atomic may leave half a file      *)
(***************************************************************************)

Crash ==
  /\ Fault
  /\ ~At("idle")
  /\ cmd' = Idle
  /\ UNCHANGED <<bin, state, detected, fileBackups, edits, late, unnoted>>

CrashBetweenWrites ==
  /\ Crash
  /\ cut' = cut \cup (IF At("write") THEN {cmd.agent} ELSE {})
  /\ UNCHANGED <<fresh, spare, files, dirBackups>>

CrashInWrite(f) ==
  /\ At("write") /\ f \in cmd.changed
  /\ Crash
  /\ files' = [files EXCEPT ![cmd.agent][f] = Torn]
  /\ cut' = cut \cup {cmd.agent}
  /\ UNCHANGED <<fresh, spare, dirBackups>>

CrashInArchive ==
  /\ At("backupDir") /\ cmd.changed # {}
  /\ files[cmd.agent]["skill"] # Nil
  /\ Crash
  /\ dirBackups' = Append(dirBackups, Torn)
  /\ UNCHANGED <<fresh, spare, files, cut>>

CrashInUpgrade ==
  /\ \/ At("extract") /\ fresh' = Torn /\ UNCHANGED spare
     \/ At("spare") /\ spare' = Torn /\ UNCHANGED fresh
  /\ Crash
  /\ UNCHANGED <<files, dirBackups, cut>>
-----------------------------------------------------------------------------
EnvNext ==
  \E a \in Agents : AgentAppears(a) \/ \E f \in FileNames : UserEdits(a, f)

InstallNext ==
  \/ StartInstall \/ StartSync
  \/ \E a \in Agents : Look(a) \/ LookFails(a)
  \/ NothingChanges \/ BackupDir \/ BackupFile \/ BackupFails
  \/ \E f \in FileNames : Write(f) \/ WriteFails(f)
  \/ EndInstall

UpgradeNext ==
  \/ \E latest \in Versions : StartUpgrade(latest)
  \/ \E archive \in {"release", "foreign"} : Download(archive)
  \/ DownloadFails \/ Extract \/ ExtractFails
  \/ BackupBinary \/ BackupBinaryFails
  \/ ReplaceBinary \/ RestoreBinary \/ MarkPending

UninstallNext ==
  \/ \E force \in BOOLEAN : StartUninstall(force)
  \/ \E a \in Agents : RemoveSkill(a)
  \/ RemoveRole \/ RemoveFails \/ ReadConfig \/ RemoveConfig \/ RemoveState \/ RemoveBinary

CrashNext ==
  \/ CrashBetweenWrites \/ CrashInArchive \/ CrashInUpgrade
  \/ \E f \in FileNames : CrashInWrite(f)

Next == EnvNext \/ InstallNext \/ UpgradeNext \/ UninstallNext \/ CrashNext

Spec == Init /\ [][Next]_vars
-----------------------------------------------------------------------------
(***************************************************************************)
(* Properties                                                              *)
(***************************************************************************)

Commands ==
  [pc : {"idle", "next", "backupDir", "backupFile", "write", "download",
         "extract", "spare", "replace", "pending", "removeRole",
         "readConfig", "removeConfig", "removeBinary"},
   op : {"install", "sync", "upgrade", "uninstall", Nil}, force : BOOLEAN,
   version : Versions \cup {Nil}, loaded : State \cup {Nil},
   todo : SUBSET Agents, ok : SUBSET Agents, failed : SUBSET Agents,
   agent : Agents \cup {Nil},
   plan : [FileNames -> Content] \cup Content \cup {Nil},
   changed : SUBSET FileNames, archive : {"release", "foreign", Nil}]

TypeOK ==
  /\ bin \in Versions \cup {Nil}
  /\ {fresh, spare} \subseteq Versions \cup {Nil, Torn}
  /\ state \in State \cup {Nil}
  /\ detected \subseteq Agents
  /\ files \in [Agents -> [FileNames -> Contents]]
  /\ dirBackups \in Seq(Contents)
  /\ fileBackups \in [Agents -> Seq(Contents)]
  /\ edits \in 0..MaxEdits
  /\ faults \in 0..MaxFaults
  /\ cmd \in Commands

Kept(a, f) == ToSet(IF f = "skill" THEN dirBackups ELSE fileBackups[a])

(* What drup overwrites of a user's in the skills directory or in the      *)
(* configuration it has kept: when an install, a sync, the removal of      *)
(* drup's entry or a crash in one of them changes what the user had        *)
(* written in such a file, the file as it was is among the backups, unless *)
(* it was edited after the command had copied it.                          *)
OverwrittenIsKept ==
  [][\A a \in Agents, f \in Archived :
       LET old == files[a][f] IN
       /\ edits' = edits
       /\ cmd.op = "uninstall" => f = "config"
       /\ UserPart(old) # 0
       /\ UserPart(files[a][f]') # UserPart(old)
       => <<a, f>> \in late \/ old \in Kept(a, f)']_vars

(* The binary changes only into the whole and verified release that was    *)
(* the latest when the running upgrade asked, or is removed by an          *)
(* uninstall: whatever fails or dies in an upgrade, the backup of an       *)
(* earlier one included.                                                   *)
BinaryReplacedWhole ==
  [][bin' # bin =>
       \/ cmd.op = "upgrade" /\ bin' = cmd.version
       \/ cmd.op = "uninstall" /\ bin' = Nil]_vars

(* Between commands, every file of every agent on record carries the       *)
(* version on record, or one that an upgrade has installed since and could *)
(* not record, or the state says that a sync is pending; but for an agent  *)
(* of which an install or a removal was cut short.                         *)
StaleAgentsArePending ==
  At("idle") /\ state # Nil /\ ~state.pending =>
    \A a \in state.agents \ cut : \A f \in FileNames :
      /\ files[a][f] \in Content
      /\ files[a][f].drup \in {state.version} \cup unnoted
=============================================================================
