--------------------------- MODULE DeliveryProofs ---------------------------
(* Theorems about Delivery, for any constants.                             *)
EXTENDS Delivery, SequenceTheorems, TLAPS

(***************************************************************************)
(* Where a command is, and what it then holds                              *)
(***************************************************************************)

InstallPlaces == {"backupDir", "backupFile", "write"}
UpgradePlaces == {"download", "extract", "spare", "replace", "pending"}
RemovalPlaces == {"removeRole", "readConfig", "removeConfig"}

CommandInPlace ==
  /\ ~At("idle") => bin \in Versions /\ cmd.loaded \in State
  /\ At("next") => cmd.op \in {"install", "sync", "uninstall"}
  /\ cmd.pc \in InstallPlaces =>
       /\ cmd.op \in {"install", "sync"}
       /\ cmd.agent \in Agents
       /\ cmd.plan \in [FileNames -> Content]
  /\ cmd.pc \in UpgradePlaces => cmd.op = "upgrade" /\ cmd.version \in Versions
  /\ cmd.pc \in RemovalPlaces => cmd.op = "uninstall" /\ cmd.agent \in Agents
  /\ At("removeConfig") => cmd.plan \in Content
  /\ At("removeBinary") => cmd.op = "uninstall"

(* What an upgrade has on disk at each of its steps. *)
UpgradeSound ==
  /\ At("extract") => cmd.archive = "release"
  /\ cmd.pc \in {"spare", "replace"} => fresh = cmd.version
  /\ At("replace") => spare = bin
  /\ At("pending") => bin = cmd.version

Typed == TypeOK /\ CommandInPlace /\ UpgradeSound

LEMMA IdleIsACommand == Idle \in Commands /\ Idle.pc = "idle"
BY DEF Idle, Commands

LEMMA LoadedIsAState ==
  ASSUME TypeOK
  PROVE  Loaded \in State
BY DEF TypeOK, Loaded, State

LEMMA UserPartIsAnEdit ==
  ASSUME NEW content \in Contents
  PROVE  UserPart(content) \in 0..MaxEdits
BY BoundsAreNumbers DEF Contents, Content, UserPart

LEMMA IntendedIsContent ==
  ASSUME TypeOK, cmd.version \in Versions \cup {Nil}, NEW a \in Agents
  PROVE  Intended(a) \in [FileNames -> Content]
<1>1. \A f \in FileNames : UserPart(files[a][f]) \in 0..MaxEdits
  BY UserPartIsAnEdit DEF TypeOK
<1> QED
  BY <1>1, BoundsAreNumbers DEF Intended, Content

LEMMA PrunedIsALog ==
  ASSUME NEW log \in Seq(Contents)
  PROVE  /\ Pruned(log) \in Seq(Contents)
         /\ log # << >> => Pruned(log) # << >> /\ Pruned(log)[Len(Pruned(log))] = log[Len(log)]
<1> DEFINE m == IF Len(log) > MaxBackups THEN Len(log) - MaxBackups + 1 ELSE 1
<1>1. m \in 1..(Len(log) + 1) /\ m \in Int /\ Len(log) \in Nat /\ (log # << >> => m <= Len(log))
  BY BoundsAreNumbers
<1>2. \A i \in m..Len(log) : log[i] \in Contents
  BY <1>1
<1>3. Pruned(log) = SubSeq(log, m, Len(log))
  BY DEF Pruned
<1> HIDE DEF m
<1>4. /\ SubSeq(log, m, Len(log)) \in Seq(Contents)
      /\ Len(SubSeq(log, m, Len(log))) = IF m <= Len(log) THEN Len(log) - m + 1 ELSE 0
      /\ \A i \in 1 .. Len(log) - m + 1 : SubSeq(log, m, Len(log))[i] = log[m + i - 1]
  BY <1>1, <1>2, SubSeqProperties
<1>5. ASSUME log # << >>
      PROVE  /\ SubSeq(log, m, Len(log)) # << >>
             /\ SubSeq(log, m, Len(log))[Len(SubSeq(log, m, Len(log)))] = log[Len(log)]
  <2>1. Len(log) - m + 1 \in 1 .. Len(log) - m + 1
    BY <1>1, <1>5
  <2>2. Len(SubSeq(log, m, Len(log))) = Len(log) - m + 1
    BY <1>1, <1>4, <1>5
  <2>3. SubSeq(log, m, Len(log))[Len(log) - m + 1] = log[m + (Len(log) - m + 1) - 1]
    BY <1>4, <2>1
  <2>4. m + (Len(log) - m + 1) - 1 = Len(log)
    BY <1>1
  <2>5. SubSeq(log, m, Len(log)) # << >>
    <3>1. Len(log) - m + 1 # 0
      BY <1>1, <1>5
    <3> QED
      BY <2>2, <3>1
  <2> QED
    BY <2>2, <2>3, <2>4, <2>5, Zenon
<1> QED
  BY <1>3, <1>4, <1>5

(* What a backup leaves is a log that ends with the copied content.        *)
LEMMA BackupIsKept ==
  ASSUME NEW log \in Seq(Contents), NEW content \in Contents
  PROVE  /\ WithBackup(log, content) \in Seq(Contents)
         /\ content # Nil => content \in ToSet(WithBackup(log, content))
<1>1. CASE content = Nil
  BY <1>1 DEF WithBackup
<1>2. CASE content # Nil /\ log # << >> /\ Last(log) = content
  <2>1. WithBackup(log, content) = log
    BY <1>2 DEF WithBackup
  <2>2. Len(log) \in DOMAIN log /\ log[Len(log)] = content
    BY <1>2 DEF Last
  <2> QED
    BY <2>1, <2>2 DEF ToSet
<1>3. CASE content # Nil /\ ~(log # << >> /\ Last(log) = content)
  <2> DEFINE longer == Append(log, content)
             kept == Pruned(longer)
  <2>1. WithBackup(log, content) = kept
    BY <1>3 DEF WithBackup
  <2>2. /\ longer \in Seq(Contents) /\ longer # << >>
        /\ longer[Len(longer)] = content
    BY AppendProperties
  <2> HIDE DEF longer
  <2>3. kept \in Seq(Contents) /\ kept # << >> /\ kept[Len(kept)] = content
    BY <2>2, PrunedIsALog
  <2> HIDE DEF kept
  <2>4. Len(kept) \in DOMAIN kept
    BY <2>3
  <2> QED
    BY <2>1, <2>3, <2>4 DEF ToSet
<1> QED
  BY <1>1, <1>2, <1>3

(***************************************************************************)
(* Every step keeps the types and the command in its place                 *)
(***************************************************************************)

LEMMA InitTyped == Init => Typed
<1> SUFFICES ASSUME Init PROVE Typed
  OBVIOUS
<1>1. TypeOK
  BY IdleIsACommand, BoundsAreNumbers DEF Init, TypeOK, Contents
<1> QED
  BY <1>1, IdleIsACommand
  DEF Init, Typed, CommandInPlace, UpgradeSound, At, InstallPlaces, UpgradePlaces, RemovalPlaces

LEMMA StutterTyped == Typed /\ UNCHANGED vars => Typed'
BY DEF Typed, TypeOK, CommandInPlace, UpgradeSound, At, InstallPlaces, UpgradePlaces,
       RemovalPlaces, vars, disk, backups, observed

LEMMA EnvironmentTyped ==
  ASSUME Typed, EnvNext
  PROVE  Typed'
<1> USE DEF Typed, CommandInPlace, UpgradeSound, At, InstallPlaces, UpgradePlaces,
            RemovalPlaces, disk, backups, observed
<1>1. ASSUME NEW a \in Agents, AgentAppears(a) PROVE Typed'
  BY <1>1 DEF AgentAppears, TypeOK
<1>2. ASSUME NEW a \in Agents, NEW f \in FileNames, UserEdits(a, f) PROVE Typed'
  <2> DEFINE edited == [user |-> edits', drup |-> IF files[a][f] = Nil THEN Nil ELSE files[a][f].drup]
  <2>1. edits' \in 0..MaxEdits
    BY <1>2, BoundsAreNumbers DEF UserEdits, TypeOK
  <2>2. edited \in Content
    BY <1>2, <2>1 DEF UserEdits, TypeOK, Contents, Content
  <2>3. files' = [files EXCEPT ![a] = [@ EXCEPT ![f] = edited]]
    BY <1>2 DEF UserEdits, TypeOK
  <2> HIDE DEF edited
  <2>4. files' \in [Agents -> [FileNames -> Contents]]
    BY <2>2, <2>3 DEF TypeOK, Contents
  <2>5. TypeOK'
    BY <1>2, <2>1, <2>4 DEF UserEdits, TypeOK
  <2> QED
    BY <1>2, <2>5 DEF UserEdits
<1> QED
  BY <1>1, <1>2 DEF EnvNext

LEMMA NextAgentIsACommand ==
  ASSUME TypeOK, cmd.agent \in Agents, NEW outcome
  PROVE  /\ NextAgent(outcome) \in Commands
         /\ NextAgent(outcome).pc = "next"
         /\ NextAgent(outcome).op = cmd.op
         /\ NextAgent(outcome).loaded = cmd.loaded
BY DEF TypeOK, NextAgent, Commands

(* The commands that begin.                                                *)
LEMMA BeginningsTyped ==
  ASSUME Typed,
         \/ StartInstall \/ StartSync
         \/ \E latest \in Versions : StartUpgrade(latest)
         \/ \E force \in BOOLEAN : StartUninstall(force)
  PROVE  Typed'
<1> USE DEF Typed, CommandInPlace, UpgradeSound, At, InstallPlaces, UpgradePlaces,
            RemovalPlaces, disk, backups, observed, Begin
<1>1. Loaded \in State /\ Loaded.agents \subseteq Agents
  BY LoadedIsAState DEF State
<1>2. CASE StartInstall
  <2>1. /\ cmd' \in Commands /\ cmd'.pc = "next" /\ cmd'.op = "install"
        /\ cmd'.loaded \in State
    BY <1>1, <1>2 DEF StartInstall, TypeOK, Idle, Commands
  <2>2. TypeOK'
    BY <1>2, <2>1 DEF StartInstall, TypeOK
  <2> QED
    BY <1>2, <2>1, <2>2 DEF StartInstall, TypeOK
<1>3. CASE StartSync
  <2>1. /\ cmd' \in Commands /\ cmd'.pc = "next" /\ cmd'.op = "sync"
        /\ cmd'.loaded \in State
    BY <1>1, <1>3 DEF StartSync, TypeOK, Idle, Commands
  <2>2. TypeOK'
    BY <1>3, <2>1 DEF StartSync, TypeOK
  <2> QED
    BY <1>3, <2>1, <2>2 DEF StartSync, TypeOK
<1>4. ASSUME NEW latest \in Versions, StartUpgrade(latest)
      PROVE  Typed'
  <2>1. /\ cmd' \in Commands /\ cmd'.pc = "download" /\ cmd'.op = "upgrade"
        /\ cmd'.version = latest /\ cmd'.loaded \in State
    BY <1>1, <1>4 DEF StartUpgrade, TypeOK, Idle, Commands
  <2>2. TypeOK'
    BY <1>4, <2>1 DEF StartUpgrade, TypeOK
  <2>3. bin \in Versions
    BY <1>4 DEF StartUpgrade, TypeOK
  <2> QED
    BY <1>4, <2>1, <2>2, <2>3 DEF StartUpgrade, TypeOK
<1>5. ASSUME NEW force \in BOOLEAN, StartUninstall(force)
      PROVE  Typed'
  <2> DEFINE blank == [Idle EXCEPT !.pc = "next", !.force = force, !.todo = Loaded.agents]
  <2>0. blank \in Commands /\ blank.pc = "next"
    BY <1>1 DEF Idle, Commands
  <2>a. cmd' = [blank EXCEPT !.op = "uninstall", !.version = bin, !.loaded = Loaded]
    BY <1>5 DEF StartUninstall
  <2> HIDE DEF blank
  <2>1. /\ cmd' \in Commands /\ cmd'.pc = "next" /\ cmd'.op = "uninstall"
        /\ cmd'.loaded \in State
    BY <1>1, <2>0, <2>a DEF TypeOK, Commands
  <2>2. TypeOK'
    BY <1>5, <2>1 DEF StartUninstall, TypeOK
  <2> QED
    BY <1>5, <2>1, <2>2 DEF StartUninstall, TypeOK
<1> QED
  BY <1>2, <1>3, <1>4, <1>5

(* A step that leaves the binary alone, and either leaves the command idle *)
(* or within an install, a sync or an uninstall, keeps what an upgrade     *)
(* needs.                                                                  *)
LEMMA OutsideUpgrades ==
  ASSUME Typed, UNCHANGED bin, cmd'.pc \notin UpgradePlaces
  PROVE  UpgradeSound'
BY DEF Typed, UpgradeSound, At, UpgradePlaces

(* A command that has ended is in its place.                               *)
LEMMA IdleInPlace ==
  ASSUME cmd'.pc = "idle"
  PROVE  CommandInPlace' /\ cmd'.pc \notin UpgradePlaces
BY DEF CommandInPlace, At, InstallPlaces, UpgradePlaces, RemovalPlaces

LEMMA LookTyped ==
  ASSUME Typed, NEW a \in Agents, Look(a) \/ LookFails(a)
  PROVE  Typed'
<1>1. CASE Look(a)
  <2>1. cmd.version \in Versions \cup {Nil}
    BY DEF Typed, TypeOK, Commands
  <2>2. Intended(a) \in [FileNames -> Content]
    BY <2>1, IntendedIsContent DEF Typed
  <2>3. {f \in FileNames : files[a][f] # Intended(a)[f]} \subseteq FileNames
    OBVIOUS
  <2>4. /\ cmd' \in Commands /\ cmd'.pc = "backupDir" /\ cmd'.op = cmd.op
        /\ cmd'.plan = Intended(a) /\ cmd'.agent = a /\ cmd'.loaded = cmd.loaded
    BY <1>1, <2>2, <2>3 DEF Look, Typed, TypeOK, Commands
  <2>5. TypeOK'
    BY <1>1, <2>4 DEF Look, Typed, TypeOK, disk, backups
  <2>6. CommandInPlace' /\ cmd'.pc \notin UpgradePlaces
    BY <1>1, <2>2, <2>4
    DEF Look, Typed, CommandInPlace, At, disk, InstallPlaces, UpgradePlaces, RemovalPlaces
  <2> QED
    BY <1>1, <2>5, <2>6, OutsideUpgrades DEF Look, Typed, disk
<1>2. CASE LookFails(a)
  <2>1. /\ cmd' \in Commands /\ cmd'.pc = "next" /\ cmd'.op = cmd.op
        /\ cmd'.loaded = cmd.loaded
    BY <1>2 DEF LookFails, Typed, TypeOK, Commands, At
  <2>2. TypeOK'
    BY <1>2, <2>1 DEF LookFails, Typed, TypeOK, disk, backups
  <2>3. CommandInPlace' /\ cmd'.pc \notin UpgradePlaces
    BY <1>2, <2>1
    DEF LookFails, Typed, CommandInPlace, At, disk, InstallPlaces, UpgradePlaces, RemovalPlaces
  <2> QED
    BY <1>2, <2>2, <2>3, OutsideUpgrades DEF LookFails, Typed, disk
<1> QED
  BY <1>1, <1>2

(* A step of an install or a sync that goes on to the next agent.          *)
LEMMA NextAgentInPlace ==
  ASSUME Typed, cmd.pc \in InstallPlaces \cup RemovalPlaces,
         NEW outcome, cmd' = NextAgent(outcome), bin' = bin
  PROVE  cmd' \in Commands /\ CommandInPlace' /\ cmd'.pc \notin UpgradePlaces
<1>1. /\ cmd' \in Commands /\ cmd'.pc = "next" /\ cmd'.op = cmd.op
      /\ cmd'.loaded = cmd.loaded
  BY NextAgentIsACommand DEF Typed, CommandInPlace, InstallPlaces, RemovalPlaces
<1> QED
  BY <1>1 DEF Typed, CommandInPlace, At, InstallPlaces, UpgradePlaces, RemovalPlaces

LEMMA InstallTyped ==
  ASSUME Typed,
         \/ NothingChanges \/ BackupDir \/ BackupFile \/ BackupFails
         \/ \E f \in FileNames : Write(f) \/ WriteFails(f)
         \/ EndInstall
  PROVE  Typed'
<1> USE DEF At, disk, backups, observed
<1>1. CASE NothingChanges
  <2>1. cmd' \in Commands /\ CommandInPlace' /\ cmd'.pc \notin UpgradePlaces
    BY <1>1, NextAgentInPlace DEF NothingChanges, InstallPlaces
  <2> QED
    BY <1>1, <2>1, OutsideUpgrades DEF NothingChanges, Typed, TypeOK
<1>2. CASE BackupDir
  <2>1. /\ cmd' \in Commands /\ cmd'.pc = "backupFile" /\ cmd'.op = cmd.op
        /\ cmd'.agent = cmd.agent /\ cmd'.plan = cmd.plan /\ cmd'.loaded = cmd.loaded
    BY <1>2 DEF BackupDir, Typed, TypeOK, Commands
  <2>2. CommandInPlace' /\ cmd'.pc \notin UpgradePlaces
    BY <1>2, <2>1
    DEF BackupDir, Typed, CommandInPlace, InstallPlaces, UpgradePlaces, RemovalPlaces
  <2>3. files[cmd.agent]["skill"] \in Contents
    BY <1>2 DEF BackupDir, Typed, TypeOK, CommandInPlace, InstallPlaces, FileNames
  <2>4. dirBackups' \in Seq(Contents)
    BY <1>2, <2>3, BackupIsKept DEF BackupDir, Typed, TypeOK
  <2> QED
    BY <1>2, <2>1, <2>2, <2>4, OutsideUpgrades DEF BackupDir, Typed, TypeOK
<1>3. CASE BackupFile
  <2>1. /\ cmd' \in Commands /\ cmd'.pc = "write" /\ cmd'.op = cmd.op
        /\ cmd'.agent = cmd.agent /\ cmd'.plan = cmd.plan /\ cmd'.loaded = cmd.loaded
    BY <1>3 DEF BackupFile, Typed, TypeOK, Commands
  <2>2. CommandInPlace' /\ cmd'.pc \notin UpgradePlaces
    BY <1>3, <2>1
    DEF BackupFile, Typed, CommandInPlace, InstallPlaces, UpgradePlaces, RemovalPlaces
  <2>3. cmd.agent \in Agents
    BY <1>3 DEF BackupFile, Typed, CommandInPlace, InstallPlaces
  <2>4. files[cmd.agent]["config"] \in Contents /\ fileBackups[cmd.agent] \in Seq(Contents)
    BY <2>3 DEF Typed, TypeOK, FileNames
  <2>5. WithBackup(fileBackups[cmd.agent], files[cmd.agent]["config"]) \in Seq(Contents)
    BY <2>4, BackupIsKept
  <2>6. fileBackups' \in [Agents -> Seq(Contents)]
    BY <1>3, <2>3, <2>5 DEF BackupFile, Typed, TypeOK
  <2> QED
    BY <1>3, <2>1, <2>2, <2>6, OutsideUpgrades DEF BackupFile, Typed, TypeOK
<1>4. CASE BackupFails
  <2>1. cmd' \in Commands /\ CommandInPlace' /\ cmd'.pc \notin UpgradePlaces
    BY <1>4, NextAgentInPlace DEF BackupFails, InstallPlaces
  <2>2. faults' \in 0..MaxFaults
    BY <1>4, BoundsAreNumbers DEF BackupFails, Fault, Typed, TypeOK
  <2> QED
    BY <1>4, <2>1, <2>2, OutsideUpgrades DEF BackupFails, Typed, TypeOK
<1>5. ASSUME NEW f \in FileNames, Write(f)
      PROVE  Typed'
  <2>1. cmd.agent \in Agents /\ cmd.plan[f] \in Contents
    BY <1>5 DEF Write, Typed, CommandInPlace, InstallPlaces, Contents
  <2>2. files' \in [Agents -> [FileNames -> Contents]]
    BY <1>5, <2>1 DEF Write, Typed, TypeOK
  <2>3. cmd' \in Commands /\ CommandInPlace' /\ cmd'.pc \notin UpgradePlaces
    <3>1. CASE cmd.changed = {f}
      BY <1>5, <3>1, NextAgentInPlace DEF Write, InstallPlaces
    <3>2. CASE cmd.changed # {f}
      <4>1. /\ cmd' \in Commands /\ cmd'.pc = "write" /\ cmd'.op = cmd.op
            /\ cmd'.agent = cmd.agent /\ cmd'.plan = cmd.plan /\ cmd'.loaded = cmd.loaded
        <5>1. cmd' = [cmd EXCEPT !.changed = @ \ {f}] /\ cmd.changed \ {f} \subseteq FileNames
          BY <1>5, <3>2 DEF Write, Typed, TypeOK, Commands
        <5> QED
          BY <1>5, <5>1 DEF Write, Typed, TypeOK, Commands
      <4> QED
        BY <1>5, <4>1
        DEF Write, Typed, CommandInPlace, InstallPlaces, UpgradePlaces, RemovalPlaces
    <3> QED
      BY <3>1, <3>2
  <2> QED
    BY <1>5, <2>2, <2>3, OutsideUpgrades DEF Write, Typed, TypeOK
<1>6. ASSUME NEW f \in FileNames, WriteFails(f)
      PROVE  Typed'
  <2>1. cmd.agent \in Agents /\ files[cmd.agent][f] \in Contents /\ Torn \in Contents
    BY <1>6 DEF WriteFails, Typed, TypeOK, CommandInPlace, InstallPlaces, Contents
  <2>2. files' \in [Agents -> [FileNames -> Contents]]
    BY <1>6, <2>1 DEF WriteFails, Typed, TypeOK
  <2>3. cmd' \in Commands /\ CommandInPlace' /\ cmd'.pc \notin UpgradePlaces
    BY <1>6, NextAgentInPlace DEF WriteFails, InstallPlaces
  <2>4. faults' \in 0..MaxFaults
    BY <1>6, BoundsAreNumbers DEF WriteFails, Fault, Typed, TypeOK
  <2> QED
    BY <1>6, <2>2, <2>3, <2>4, OutsideUpgrades DEF WriteFails, Typed, TypeOK
<1>7. CASE EndInstall
  <2>1. StateAfter \in State
    BY <1>7 DEF EndInstall, StateAfter, State, Typed, TypeOK, CommandInPlace, Commands
  <2>2. state' \in State \cup {Nil} /\ faults' \in 0..MaxFaults
    BY <1>7, <2>1, BoundsAreNumbers DEF EndInstall, Fault, Typed, TypeOK
  <2>3. cmd' \in Commands /\ CommandInPlace' /\ cmd'.pc \notin UpgradePlaces
    BY <1>7, IdleIsACommand, IdleInPlace DEF EndInstall
  <2> QED
    BY <1>7, <2>2, <2>3, OutsideUpgrades DEF EndInstall, Typed, TypeOK
<1> QED
  BY <1>1, <1>2, <1>3, <1>4, <1>5, <1>6, <1>7

LEMMA UninstallTyped ==
  ASSUME Typed,
         \/ \E a \in Agents : RemoveSkill(a)
         \/ RemoveRole \/ RemoveFails \/ ReadConfig \/ RemoveConfig
         \/ RemoveState \/ RemoveBinary
  PROVE  Typed'
<1> USE DEF At, disk, backups, observed
<1>1. ASSUME NEW a \in Agents, RemoveSkill(a)
      PROVE  Typed'
  <2>1. /\ cmd' \in Commands /\ cmd'.pc = "removeRole" /\ cmd'.op = "uninstall"
        /\ cmd'.agent = a /\ cmd'.loaded = cmd.loaded
    BY <1>1 DEF RemoveSkill, Typed, TypeOK, Commands
  <2>2. CommandInPlace' /\ cmd'.pc \notin UpgradePlaces
    BY <1>1, <2>1
    DEF RemoveSkill, Typed, CommandInPlace, InstallPlaces, UpgradePlaces, RemovalPlaces
  <2>3. files' \in [Agents -> [FileNames -> Contents]]
    BY <1>1 DEF RemoveSkill, Typed, TypeOK, Contents
  <2> QED
    BY <1>1, <2>1, <2>2, <2>3, OutsideUpgrades DEF RemoveSkill, Typed, TypeOK
<1>2. CASE RemoveFails
  <2>1. faults' \in 0..MaxFaults
    BY <1>2, BoundsAreNumbers DEF RemoveFails, Fault, Typed, TypeOK
  <2>2. cmd' \in Commands /\ CommandInPlace' /\ cmd'.pc \notin UpgradePlaces
    BY <1>2, IdleIsACommand, IdleInPlace DEF RemoveFails
  <2> QED
    BY <1>2, <2>1, <2>2, OutsideUpgrades DEF RemoveFails, Typed, TypeOK
<1>3. CASE ReadConfig
  <2>1. cmd' \in Commands /\ CommandInPlace' /\ cmd'.pc \notin UpgradePlaces
    <3>1. CASE cmd' = NextAgent("ok")
      BY <1>3, <3>1, NextAgentInPlace DEF ReadConfig, RemovalPlaces
    <3>2. CASE cmd' # NextAgent("ok")
      <4>1. /\ files[cmd.agent]["config"] \in Content
            /\ cmd' = [cmd EXCEPT !.pc = "removeConfig", !.plan = files[cmd.agent]["config"]]
        BY <1>3, <3>2 DEF ReadConfig
      <4>2. /\ cmd' \in Commands /\ cmd'.pc = "removeConfig" /\ cmd'.op = cmd.op
            /\ cmd'.agent = cmd.agent /\ cmd'.loaded = cmd.loaded /\ cmd'.plan \in Content
        BY <4>1 DEF Typed, TypeOK, Commands
      <4> QED
        BY <1>3, <4>2
        DEF ReadConfig, Typed, CommandInPlace, InstallPlaces, UpgradePlaces, RemovalPlaces
    <3> QED
      BY <3>1, <3>2
  <2> QED
    BY <1>3, <2>1, OutsideUpgrades DEF ReadConfig, Typed, TypeOK
<1>4. CASE RemoveConfig
  <2>1. cmd' \in Commands /\ CommandInPlace' /\ cmd'.pc \notin UpgradePlaces
    BY <1>4, NextAgentInPlace DEF RemoveConfig, RemovalPlaces
  <2>2. /\ cmd.agent \in Agents
        /\ [user |-> cmd.plan.user, drup |-> Nil] \in Content
    BY <1>4 DEF RemoveConfig, Typed, CommandInPlace, RemovalPlaces, Content
  <2>3. files' \in [Agents -> [FileNames -> Contents]]
    <3>1. PICK left \in Contents : files' = [files EXCEPT ![cmd.agent]["config"] = left]
      BY <1>4, <2>2 DEF RemoveConfig, Contents
    <3> QED
      BY <2>2, <3>1 DEF Typed, TypeOK
  <2> QED
    BY <1>4, <2>1, <2>3, OutsideUpgrades DEF RemoveConfig, Typed, TypeOK
<1>5. CASE RemoveState
  <2>1. /\ cmd' \in Commands /\ cmd'.pc = "removeBinary" /\ cmd'.op = "uninstall"
        /\ cmd'.loaded = cmd.loaded
    BY <1>5 DEF RemoveState, Typed, TypeOK, Commands
  <2>2. CommandInPlace' /\ cmd'.pc \notin UpgradePlaces
    BY <1>5, <2>1
    DEF RemoveState, Typed, CommandInPlace, InstallPlaces, UpgradePlaces, RemovalPlaces
  <2>3. /\ state' \in State \cup {Nil} /\ faults' \in 0..MaxFaults
        /\ dirBackups' \in Seq(Contents) /\ fileBackups' \in [Agents -> Seq(Contents)]
    <3>1. state' \in State \cup {Nil}
      BY <1>5 DEF RemoveState, Typed, TypeOK
    <3>2. faults' \in 0..MaxFaults
      BY <1>5, BoundsAreNumbers DEF RemoveState, Fault, Typed, TypeOK
    <3>3. << >> \in Seq(Contents)
      OBVIOUS
    <3>4. dirBackups' \in Seq(Contents)
      BY <1>5, <3>3 DEF RemoveState, Typed, TypeOK
    <3>5. fileBackups' \in [Agents -> Seq(Contents)]
      BY <1>5, <3>3 DEF RemoveState, Typed, TypeOK
    <3> QED
      BY <3>1, <3>2, <3>4, <3>5
  <2> QED
    BY <1>5, <2>1, <2>2, <2>3, OutsideUpgrades DEF RemoveState, Typed, TypeOK
<1>6. CASE RemoveBinary
  <2>1. cmd' \in Commands /\ cmd'.pc = "idle"
    <3>1. cmd' = [Idle EXCEPT !.op = "uninstall", !.force = cmd.force] /\ cmd.force \in BOOLEAN
      BY <1>6 DEF RemoveBinary, Typed, TypeOK, Commands
    <3> QED
      BY <3>1, IdleIsACommand DEF Idle, Commands
  <2>2. CommandInPlace' /\ cmd'.pc \notin UpgradePlaces
    BY <2>1, IdleInPlace
  <2>3. bin' \in {bin, Nil} /\ faults' \in 0..MaxFaults
    BY <1>6, BoundsAreNumbers DEF RemoveBinary, Fault, Typed, TypeOK
  <2>4. TypeOK'
    BY <1>6, <2>1, <2>3 DEF RemoveBinary, Typed, TypeOK
  <2>5. UpgradeSound'
    BY <1>6, <2>1, <2>3, NilAndTornAreNoContent
    DEF RemoveBinary, Typed, TypeOK, UpgradeSound, UpgradePlaces
  <2> QED
    BY <2>2, <2>4, <2>5 DEF Typed
<1>7. CASE RemoveRole
  <2>1. /\ cmd' \in Commands /\ cmd'.pc = "readConfig" /\ cmd'.op = cmd.op
        /\ cmd'.agent = cmd.agent /\ cmd'.loaded = cmd.loaded
    BY <1>7 DEF RemoveRole, Typed, TypeOK, Commands
  <2>2. CommandInPlace' /\ cmd'.pc \notin UpgradePlaces
    BY <1>7, <2>1
    DEF RemoveRole, Typed, CommandInPlace, InstallPlaces, UpgradePlaces, RemovalPlaces
  <2>3. files' \in [Agents -> [FileNames -> Contents]]
    BY <1>7 DEF RemoveRole, Typed, TypeOK, Contents
  <2> QED
    BY <1>7, <2>1, <2>2, <2>3, OutsideUpgrades DEF RemoveRole, Typed, TypeOK
<1> QED
  BY <1>1, <1>2, <1>3, <1>4, <1>5, <1>6, <1>7

LEMMA UpgradeTyped ==
  ASSUME Typed,
         \/ \E archive \in {"release", "foreign"} : Download(archive)
         \/ DownloadFails \/ Extract \/ ExtractFails
         \/ BackupBinary \/ BackupBinaryFails
         \/ ReplaceBinary \/ RestoreBinary \/ MarkPending
  PROVE  Typed'
<1> USE DEF At, disk, backups, observed
<1>1. ASSUME NEW archive \in {"release", "foreign"}, Download(archive)
      PROVE  Typed'
  <2>1. CASE cmd' = Idle
    BY <1>1, <2>1, IdleIsACommand, IdleInPlace, OutsideUpgrades DEF Download, Typed, TypeOK
  <2>2. CASE cmd' # Idle
    <3>1. /\ cmd' = [cmd EXCEPT !.pc = "extract", !.archive = archive]
          /\ archive = "release"
      BY <1>1, <2>2 DEF Download, Verified
    <3>2. /\ cmd' \in Commands /\ cmd'.pc = "extract" /\ cmd'.op = cmd.op
          /\ cmd'.version = cmd.version /\ cmd'.loaded = cmd.loaded
          /\ cmd'.archive = "release"
      BY <3>1 DEF Typed, TypeOK, Commands
    <3> QED
      BY <1>1, <3>2
      DEF Download, Typed, TypeOK, CommandInPlace, UpgradeSound, InstallPlaces,
          UpgradePlaces, RemovalPlaces
  <2> QED
    BY <2>1, <2>2
<1>2. CASE DownloadFails
  BY <1>2, IdleIsACommand, IdleInPlace, OutsideUpgrades DEF DownloadFails, Typed, TypeOK
<1>3. CASE Extract
  <2>1. /\ cmd' \in Commands /\ cmd'.pc = "spare" /\ cmd'.op = cmd.op
        /\ cmd'.version = cmd.version /\ cmd'.loaded = cmd.loaded
    BY <1>3 DEF Extract, Typed, TypeOK, Commands
  <2>2. cmd.version \in Versions /\ fresh' = cmd.version
    BY <1>3 DEF Extract, Typed, CommandInPlace, UpgradeSound, UpgradePlaces
  <2> QED
    BY <1>3, <2>1, <2>2
    DEF Extract, Typed, TypeOK, CommandInPlace, UpgradeSound, InstallPlaces,
        UpgradePlaces, RemovalPlaces
<1>4. CASE ExtractFails
  <2>1. faults' \in 0..MaxFaults
    BY <1>4, BoundsAreNumbers DEF ExtractFails, Fault, Typed, TypeOK
  <2> QED
    BY <1>4, <2>1, IdleIsACommand, IdleInPlace, OutsideUpgrades
    DEF ExtractFails, Typed, TypeOK
<1>5. CASE BackupBinary
  <2>1. /\ cmd' \in Commands /\ cmd'.pc = "replace" /\ cmd'.op = cmd.op
        /\ cmd'.version = cmd.version /\ cmd'.loaded = cmd.loaded
    BY <1>5 DEF BackupBinary, Typed, TypeOK, Commands
  <2> QED
    BY <1>5, <2>1
    DEF BackupBinary, Typed, TypeOK, CommandInPlace, UpgradeSound, InstallPlaces,
        UpgradePlaces, RemovalPlaces
<1>6. CASE BackupBinaryFails
  <2>1. faults' \in 0..MaxFaults
    BY <1>6, BoundsAreNumbers DEF BackupBinaryFails, Fault, Typed, TypeOK
  <2> QED
    BY <1>6, <2>1, IdleIsACommand, IdleInPlace, OutsideUpgrades
    DEF BackupBinaryFails, Typed, TypeOK
<1>7. CASE ReplaceBinary
  <2>1. /\ cmd' \in Commands /\ cmd'.pc = "pending" /\ cmd'.op = cmd.op
        /\ cmd'.version = cmd.version /\ cmd'.loaded = cmd.loaded
    BY <1>7 DEF ReplaceBinary, Typed, TypeOK, Commands
  <2>2. bin' = cmd.version /\ cmd.version \in Versions
    BY <1>7 DEF ReplaceBinary, Typed, CommandInPlace, UpgradeSound, UpgradePlaces
  <2> QED
    BY <1>7, <2>1, <2>2
    DEF ReplaceBinary, Typed, TypeOK, CommandInPlace, UpgradeSound, InstallPlaces,
        UpgradePlaces, RemovalPlaces
<1>8. CASE RestoreBinary
  <2>1. faults' \in 0..MaxFaults
    BY <1>8, BoundsAreNumbers DEF RestoreBinary, Fault, Typed, TypeOK
  <2>2. bin' = bin
    BY <1>8 DEF RestoreBinary, Typed, UpgradeSound
  <2> QED
    BY <1>8, <2>1, <2>2, IdleIsACommand, IdleInPlace, OutsideUpgrades
    DEF RestoreBinary, Typed, TypeOK
<1>9. CASE MarkPending
  <2>1. faults' \in 0..MaxFaults
    BY <1>9, BoundsAreNumbers DEF MarkPending, Fault, Typed, TypeOK
  <2>2. cmd.version \in Versions
    BY <1>9 DEF MarkPending, Typed, CommandInPlace, UpgradePlaces
  <2>3. [Loaded EXCEPT !.pending = TRUE, !.version = cmd.version] \in State
    BY <2>2, LoadedIsAState DEF Typed, State
  <2>4. state' \in State \cup {Nil}
    BY <1>9, <2>3 DEF MarkPending, Typed, TypeOK
  <2> QED
    BY <1>9, <2>1, <2>4, IdleIsACommand, IdleInPlace, OutsideUpgrades
    DEF MarkPending, Typed, TypeOK
<1> QED
  BY <1>1, <1>2, <1>3, <1>4, <1>5, <1>6, <1>7, <1>8, <1>9

LEMMA CrashTyped ==
  ASSUME Typed, CrashNext
  PROVE  Typed'
<1> USE DEF At, disk, backups, observed
<1>1. Crash
  BY DEF CrashNext, CrashBetweenWrites, CrashInArchive, CrashInUpgrade, CrashInWrite
<1>2. faults' \in 0..MaxFaults
  BY <1>1, BoundsAreNumbers DEF Crash, Fault, Typed, TypeOK
<1>3. cmd' \in Commands /\ CommandInPlace' /\ UpgradeSound'
  BY <1>1, IdleIsACommand, IdleInPlace, OutsideUpgrades DEF Crash
<1>4. Torn \in Contents
  BY DEF Contents
<1>5. /\ {fresh', spare'} \subseteq Versions \cup {Nil, Torn}
      /\ files' \in [Agents -> [FileNames -> Contents]]
      /\ dirBackups' \in Seq(Contents)
  <2>1. CASE CrashBetweenWrites
    BY <2>1 DEF CrashBetweenWrites, Typed, TypeOK
  <2>2. CASE CrashInArchive
    <3>1. Append(dirBackups, Torn) \in Seq(Contents)
      BY <1>4 DEF Typed, TypeOK
    <3> QED
      BY <2>2, <3>1 DEF CrashInArchive, Typed, TypeOK
  <2>3. CASE CrashInUpgrade
    BY <2>3 DEF CrashInUpgrade, Typed, TypeOK
  <2>4. ASSUME NEW f \in FileNames, CrashInWrite(f)
        PROVE  /\ {fresh', spare'} \subseteq Versions \cup {Nil, Torn}
               /\ files' \in [Agents -> [FileNames -> Contents]]
               /\ dirBackups' \in Seq(Contents)
    <3>1. cmd.agent \in Agents
      BY <2>4 DEF CrashInWrite, Typed, CommandInPlace, InstallPlaces
    <3> QED
      BY <1>4, <2>4, <3>1 DEF CrashInWrite, Typed, TypeOK
  <2> QED
    BY <2>1, <2>2, <2>3, <2>4 DEF CrashNext
<1> QED
  BY <1>1, <1>2, <1>3, <1>5 DEF Crash, Typed, TypeOK

LEMMA NextTyped == Typed /\ [Next]_vars => Typed'
<1> SUFFICES ASSUME Typed, [Next]_vars PROVE Typed'
  OBVIOUS
<1>1. CASE UNCHANGED vars
  BY <1>1, StutterTyped
<1>2. CASE EnvNext
  BY <1>2, EnvironmentTyped
<1>3. CASE InstallNext
  BY <1>3, BeginningsTyped, LookTyped, InstallTyped DEF InstallNext
<1>4. CASE UpgradeNext
  BY <1>4, BeginningsTyped, UpgradeTyped DEF UpgradeNext
<1>5. CASE UninstallNext
  BY <1>5, BeginningsTyped, UninstallTyped DEF UninstallNext
<1>6. CASE CrashNext
  BY <1>6, CrashTyped
<1> QED
  BY <1>1, <1>2, <1>3, <1>4, <1>5, <1>6 DEF Next

(* Every state is one of the program's, the command is in its place, and   *)
(* an upgrade has on disk what its next step needs.                        *)
THEOREM DeliveryTyped == Spec => []Typed
<1>1. Init => Typed
  BY InitTyped
<1>2. Typed /\ [Next]_vars => Typed'
  BY NextTyped
<1> QED
  BY <1>1, <1>2, PTL DEF Spec

(***************************************************************************)
(* The binary                                                              *)
(***************************************************************************)

BinaryStep ==
  bin' # bin =>
    \/ cmd.op = "upgrade" /\ bin' = cmd.version
    \/ cmd.op = "uninstall" /\ bin' = Nil

LEMMA BinaryChangesBy ==
  ASSUME [Next]_vars, bin' # bin
  PROVE  ReplaceBinary \/ RestoreBinary \/ RemoveBinary
BY DEF Next, EnvNext, InstallNext, UpgradeNext, UninstallNext, CrashNext, vars, disk,
       AgentAppears, UserEdits, Begin, StartInstall, StartSync, StartUpgrade,
       StartUninstall, Look, LookFails, NothingChanges, BackupDir, BackupFile,
       BackupFails, Write, WriteFails, EndInstall, Download, DownloadFails, Extract,
       ExtractFails, BackupBinary, BackupBinaryFails, MarkPending, RemoveSkill,
       RemoveRole, RemoveFails, ReadConfig, RemoveConfig, RemoveState, CrashBetweenWrites,
       CrashInArchive, CrashInUpgrade, CrashInWrite, Crash

LEMMA BinarySteps == Typed /\ [Next]_vars => BinaryStep
<1> SUFFICES ASSUME Typed, [Next]_vars, bin' # bin
             PROVE  \/ cmd.op = "upgrade" /\ bin' = cmd.version
                    \/ cmd.op = "uninstall" /\ bin' = Nil
  BY DEF BinaryStep
<1>1. ReplaceBinary \/ RestoreBinary \/ RemoveBinary
  BY BinaryChangesBy
<1>2. CASE ReplaceBinary
  BY <1>2
  DEF ReplaceBinary, At, Typed, CommandInPlace, UpgradeSound, UpgradePlaces
<1>3. CASE RestoreBinary
  BY <1>3 DEF RestoreBinary, At, Typed, UpgradeSound
<1>4. CASE RemoveBinary
  BY <1>4 DEF RemoveBinary, At, Typed, CommandInPlace
<1> QED
  BY <1>1, <1>2, <1>3, <1>4

(* The binary changes only into the whole and verified release the running *)
(* upgrade asked for, or is removed by an uninstall, whatever fails or     *)
(* dies in an upgrade (internal/update).                                   *)
THEOREM BinaryIsReplacedWhole == Spec => BinaryReplacedWhole
<1>1. Typed /\ [Next]_vars => [BinaryStep]_vars
  BY BinarySteps
<1> QED
  BY <1>1, DeliveryTyped, PTL DEF Spec, BinaryReplacedWhole, BinaryStep

(***************************************************************************)
(* The record of agents and versions                                       *)
(***************************************************************************)

Carries(a, versions) ==
  \A f \in FileNames : files[a][f] \in Content /\ files[a][f].drup \in versions

(* The version on record, and those installed since.                       *)
Noted == {state.version} \cup unnoted

Installing == cmd.pc \in {"next"} \cup InstallPlaces /\ cmd.op \in {"install", "sync"}

(* Of the agents recorded or detected when it began an install or a sync   *)
(* loses none, and those it has done carry its version.                    *)
InstallSound ==
  Installing =>
    /\ cmd.version = bin /\ cmd.loaded = Loaded
    /\ cmd.op = "sync" => state # Nil
    /\ cmd.todo \cup cmd.ok \subseteq detected
    /\ Loaded.agents \subseteq cmd.todo \cup cmd.ok \cup cmd.failed
    /\ \A a \in cmd.ok \ cut : Carries(a, {bin})

(* The files it is not to write carry its version already.                 *)
WriteSound ==
  cmd.pc \in InstallPlaces =>
    /\ cmd.agent \in cmd.todo
    /\ \A f \in FileNames : cmd.plan[f].drup = cmd.version
    /\ \A f \in FileNames \ cmd.changed :
         files[cmd.agent][f] \in Content /\ files[cmd.agent][f].drup = cmd.version

RemovalSound == cmd.pc \in RemovalPlaces => cmd.agent \in cut

RecordSound ==
  state # Nil =>
    /\ state.version \in Versions
    /\ state.agents \subseteq detected
    /\ bin \in Versions => bin \in Noted
    /\ ~state.pending => \A a \in state.agents \ cut : Carries(a, Noted)

DeliverySound == InstallSound /\ WriteSound /\ RemovalSound /\ RecordSound

SoundlyTyped == Typed /\ DeliverySound

(* The places of a command that installs nothing.                          *)
LEMMA NotInstalling ==
  ASSUME cmd'.pc \in {"idle", "removeBinary"} \cup UpgradePlaces \/ cmd'.op = "uninstall",
         cmd'.pc \notin InstallPlaces
  PROVE  InstallSound' /\ WriteSound'
BY DEF InstallSound, WriteSound, Installing, InstallPlaces, UpgradePlaces

LEMMA NoInstallIsLeft ==
  ASSUME Typed,
         \/ \E latest \in Versions : StartUpgrade(latest)
         \/ \E force \in BOOLEAN : StartUninstall(force)
         \/ \E archive \in {"release", "foreign"} : Download(archive)
         \/ DownloadFails \/ Extract \/ ExtractFails
         \/ BackupBinary \/ BackupBinaryFails
         \/ ReplaceBinary \/ RestoreBinary \/ MarkPending
         \/ \E a \in Agents : RemoveSkill(a)
         \/ RemoveRole \/ RemoveFails \/ ReadConfig \/ RemoveConfig
         \/ RemoveState \/ RemoveBinary \/ CrashNext \/ EndInstall
  PROVE  /\ cmd'.pc \notin InstallPlaces
         /\ cmd'.pc \in {"idle", "removeBinary"} \cup UpgradePlaces \/ cmd'.op = "uninstall"
<1> USE IdleIsACommand DEF InstallPlaces, UpgradePlaces, RemovalPlaces
<1>1. CASE \E latest \in Versions : StartUpgrade(latest)
  BY <1>1 DEF StartUpgrade, Begin, Idle
<1>2. CASE \E force \in BOOLEAN : StartUninstall(force)
  BY <1>2 DEF StartUninstall, Begin, Idle
<1>3. CASE \E archive \in {"release", "foreign"} : Download(archive)
  BY <1>3 DEF Download, Typed, TypeOK, Commands
<1>4. CASE \/ DownloadFails \/ ExtractFails \/ BackupBinaryFails
           \/ RestoreBinary \/ MarkPending \/ RemoveFails \/ EndInstall
  BY <1>4 DEF DownloadFails, ExtractFails, BackupBinaryFails, RestoreBinary,
              MarkPending, RemoveFails, EndInstall
<1>5. CASE Extract \/ BackupBinary \/ ReplaceBinary
  BY <1>5 DEF Extract, BackupBinary, ReplaceBinary, Typed, TypeOK, Commands
<1>6. CASE RemoveRole \/ \E a \in Agents : RemoveSkill(a)
  BY <1>6 DEF RemoveRole, RemoveSkill, Typed, TypeOK, CommandInPlace, RemovalPlaces,
              Commands, At
<1>7. CASE ReadConfig \/ RemoveConfig
  <2>1. cmd.op = "uninstall" /\ cmd.agent \in Agents
    BY <1>7 DEF ReadConfig, RemoveConfig, At, Typed, CommandInPlace
  <2>2. NextAgent("ok").pc = "next" /\ NextAgent("ok").op = "uninstall"
    BY <2>1, NextAgentIsACommand DEF Typed
  <2>3. CASE cmd' = NextAgent("ok")
    BY <2>2, <2>3
  <2>4. CASE cmd' # NextAgent("ok")
    <3>1. cmd' = [cmd EXCEPT !.pc = "removeConfig", !.plan = files[cmd.agent]["config"]]
      BY <1>7, <2>4 DEF ReadConfig, RemoveConfig
    <3> QED
      BY <2>1, <3>1 DEF Typed, TypeOK, Commands
  <2> QED
    BY <2>3, <2>4
<1>8. CASE RemoveState
  BY <1>8 DEF RemoveState, Typed, TypeOK, Commands
<1>9. CASE RemoveBinary
  BY <1>9 DEF RemoveBinary, Idle
<1>10. CASE CrashNext
  BY <1>10 DEF CrashNext, CrashBetweenWrites, CrashInArchive, CrashInUpgrade, CrashInWrite,
               Crash
<1> QED
  BY <1>1, <1>2, <1>3, <1>4, <1>5, <1>6, <1>7, <1>8, <1>9, <1>10

(* What a step leaves of the files of an agent: it loses them only when it *)
(* is then cut short.                                                      *)
LEMMA FilesChangeBy ==
  ASSUME [Next]_vars
  PROVE  \/ UNCHANGED files
         \/ \E a \in Agents, f \in FileNames : UserEdits(a, f)
         \/ \E f \in FileNames : Write(f) \/ WriteFails(f) \/ CrashInWrite(f)
         \/ \E a \in Agents : RemoveSkill(a)
         \/ RemoveRole \/ RemoveConfig
BY DEF Next, EnvNext, InstallNext, UpgradeNext, UninstallNext, CrashNext, vars,
       AgentAppears, Begin, StartInstall, StartSync, StartUpgrade,
       StartUninstall, Look, LookFails, NothingChanges, BackupDir, BackupFile,
       BackupFails, EndInstall, Download, DownloadFails, Extract,
       ExtractFails, BackupBinary, BackupBinaryFails, ReplaceBinary, RestoreBinary,
       MarkPending, RemoveFails, ReadConfig, RemoveState, RemoveBinary,
       CrashBetweenWrites, CrashInArchive, CrashInUpgrade, Crash

(* The agents of which less is cut short after a step.                     *)
LEMMA CutShrinksBy ==
  ASSUME [Next]_vars
  PROVE  \/ cut \subseteq cut'
         \/ NothingChanges
         \/ \E f \in FileNames : Write(f) /\ cmd.changed = {f}
BY DEF Next, EnvNext, InstallNext, UpgradeNext, UninstallNext, CrashNext, vars, observed,
       AgentAppears, UserEdits, Begin, StartInstall, StartSync, StartUpgrade,
       StartUninstall, Look, LookFails, BackupDir, BackupFile, WriteFails, Write,
       BackupFails, EndInstall, Download, DownloadFails, Extract,
       ExtractFails, BackupBinary, BackupBinaryFails, ReplaceBinary, RestoreBinary,
       MarkPending, RemoveSkill, RemoveRole, RemoveFails, ReadConfig, RemoveConfig, RemoveState,
       RemoveBinary, CrashBetweenWrites, CrashInArchive, CrashInUpgrade, CrashInWrite, Crash

(* An agent that carries a version keeps it, or is cut short.              *)
LEMMA CarriesKept ==
  ASSUME SoundlyTyped, [Next]_vars,
         NEW a \in Agents, NEW versions, bin \in Versions => bin \in versions,
         Carries(a, versions), a \notin cut, a \notin cut'
  PROVE  Carries(a, versions)'
<1> USE DEF SoundlyTyped, Typed
<1>1. CASE UNCHANGED files
  BY <1>1 DEF Carries
<1>2. ASSUME NEW b \in Agents, NEW g \in FileNames, UserEdits(b, g)
      PROVE  Carries(a, versions)'
  <2>1. edits' \in 0..MaxEdits
    BY <1>2, BoundsAreNumbers DEF UserEdits, TypeOK
  <2> SUFFICES ASSUME NEW f \in FileNames
               PROVE  files'[a][f] \in Content /\ files'[a][f].drup \in versions
    BY DEF Carries
  <2>2. files[a][f] \in Content /\ files[a][f].drup \in versions
    BY DEF Carries
  <2>3. CASE a = b /\ f = g
    <3>1. files'[a][f] = [user |-> edits', drup |-> files[a][f].drup]
      BY <1>2, <2>2, <2>3, NilAndTornAreNoContent DEF UserEdits, TypeOK
    <3> QED
      BY <2>1, <2>2, <3>1 DEF Content
  <2>4. CASE ~(a = b /\ f = g)
    BY <1>2, <2>2, <2>4 DEF UserEdits, TypeOK
  <2> QED
    BY <2>3, <2>4
<1>3. ASSUME NEW g \in FileNames, Write(g)
      PROVE  Carries(a, versions)'
  <2>1. /\ cmd.pc \in InstallPlaces /\ cmd.agent \in Agents
        /\ cmd.plan \in [FileNames -> Content]
        /\ cmd.version = bin /\ bin \in Versions
    BY <1>3
    DEF Write, At, CommandInPlace, InstallPlaces, DeliverySound, InstallSound, Installing
  <2>2. cmd.plan[g] \in Content /\ cmd.plan[g].drup = bin
    BY <2>1 DEF DeliverySound, WriteSound
  <2>3. bin \in versions
    BY <2>1
  <2> SUFFICES ASSUME NEW f \in FileNames
               PROVE  files'[a][f] \in Content /\ files'[a][f].drup \in versions
    BY DEF Carries
  <2>4. CASE a = cmd.agent /\ f = g
    BY <1>3, <2>1, <2>2, <2>3, <2>4 DEF Write, TypeOK
  <2>5. CASE ~(a = cmd.agent /\ f = g)
    BY <1>3, <2>1, <2>5 DEF Write, TypeOK, Carries
  <2> QED
    BY <2>4, <2>5
<1>4. ASSUME NEW g \in FileNames, WriteFails(g) \/ CrashInWrite(g)
      PROVE  Carries(a, versions)'
  <2>1. cmd.agent \in cut' /\ cmd.agent \in Agents
    BY <1>4
    DEF WriteFails, CrashInWrite, At, CommandInPlace, InstallPlaces
  <2>2. a # cmd.agent
    BY <2>1
  <2>3. files'[a] = files[a]
    BY <1>4, <2>1, <2>2 DEF WriteFails, CrashInWrite, TypeOK
  <2> QED
    BY <2>3 DEF Carries
<1>5. ASSUME NEW b \in Agents, RemoveSkill(b)
      PROVE  Carries(a, versions)'
  <2>1. a # b
    BY <1>5 DEF RemoveSkill
  <2>2. files'[a] = files[a]
    BY <1>5, <2>1 DEF RemoveSkill, TypeOK
  <2> QED
    BY <2>2 DEF Carries
<1>6. CASE RemoveRole \/ RemoveConfig
  <2>1. cmd.agent \in cut /\ cmd.agent \in Agents
    BY <1>6
    DEF RemoveRole, RemoveConfig, At, CommandInPlace, RemovalPlaces, DeliverySound, RemovalSound
  <2>2. a # cmd.agent
    BY <2>1
  <2>3. files'[a] = files[a]
    BY <1>6, <2>1, <2>2 DEF RemoveRole, RemoveConfig, TypeOK
  <2> QED
    BY <2>3 DEF Carries
<1> QED
  BY <1>1, <1>2, <1>3, <1>4, <1>5, <1>6, FilesChangeBy

(* An agent that is done carries the version of the command.               *)
LEMMA FinishedCarries ==
  ASSUME SoundlyTyped,
         NothingChanges \/ \E f \in FileNames : Write(f) /\ cmd.changed = {f}
  PROVE  /\ cmd.agent \in Agents /\ cmd.version = bin /\ bin \in Versions
         /\ \A f \in FileNames :
              files'[cmd.agent][f] \in Content /\ files'[cmd.agent][f].drup = bin
<1> USE DEF SoundlyTyped, Typed
<1>1. /\ cmd.pc \in InstallPlaces /\ cmd.agent \in Agents
      /\ cmd.plan \in [FileNames -> Content]
      /\ cmd.version = bin /\ bin \in Versions
  BY DEF NothingChanges, Write, At, CommandInPlace, InstallPlaces, DeliverySound,
         InstallSound, Installing
<1>2. /\ \A f \in FileNames : cmd.plan[f].drup = bin
      /\ \A f \in FileNames \ cmd.changed :
           files[cmd.agent][f] \in Content /\ files[cmd.agent][f].drup = bin
  BY <1>1 DEF DeliverySound, WriteSound
<1>3. CASE NothingChanges
  BY <1>1, <1>2, <1>3 DEF NothingChanges
<1>4. ASSUME NEW g \in FileNames, Write(g), cmd.changed = {g}
      PROVE  \A f \in FileNames :
               files'[cmd.agent][f] \in Content /\ files'[cmd.agent][f].drup = bin
  <2> SUFFICES ASSUME NEW f \in FileNames
               PROVE  files'[cmd.agent][f] \in Content /\ files'[cmd.agent][f].drup = bin
    OBVIOUS
  <2>1. CASE f = g
    BY <1>1, <1>2, <1>4, <2>1 DEF Write, TypeOK
  <2>2. CASE f # g
    BY <1>1, <1>2, <1>4, <2>2 DEF Write, TypeOK
  <2> QED
    BY <2>1, <2>2
<1> QED
  BY <1>1, <1>3, <1>4

LEMMA NotCutCarries ==
  ASSUME SoundlyTyped, [Next]_vars,
         NEW a \in Agents, NEW versions, bin \in Versions => bin \in versions,
         a \notin cut => Carries(a, versions), a \notin cut'
  PROVE  Carries(a, versions)'
<1>1. CASE a \notin cut
  BY <1>1, CarriesKept
<1>2. CASE a \in cut
  <2>1. \/ NothingChanges
        \/ \E f \in FileNames : Write(f) /\ cmd.changed = {f}
    BY <1>2, CutShrinksBy
  <2>2. a = cmd.agent
    BY <1>2, <2>1 DEF NothingChanges, Write
  <2>3. /\ bin \in Versions
        /\ \A f \in FileNames : files'[a][f] \in Content /\ files'[a][f].drup = bin
    BY <2>1, <2>2, FinishedCarries
  <2> QED
    BY <2>3 DEF Carries
<1> QED
  BY <1>1, <1>2

LEMMA RemovalKept ==
  ASSUME SoundlyTyped, [Next]_vars
  PROVE  RemovalSound'
<1> SUFFICES ASSUME cmd'.pc \in RemovalPlaces PROVE cmd'.agent \in cut'
  BY DEF RemovalSound
<1> USE DEF SoundlyTyped, RemovalPlaces
<1>1. CASE cmd' = cmd /\ cut' = cut
  BY <1>1 DEF DeliverySound, RemovalSound
<1>2. ASSUME NEW a \in Agents, RemoveSkill(a)
      PROVE  cmd'.agent \in cut'
  BY <1>2 DEF RemoveSkill, Typed, TypeOK, Commands
<1>3. CASE ReadConfig
  <2>1. cmd.agent \in cut /\ cut' = cut
    BY <1>3 DEF ReadConfig, At, DeliverySound, RemovalSound
  <2>2. cmd'.agent = cmd.agent
    <3>1. CASE cmd' = NextAgent("ok")
      <4>1. cmd'.pc = "next"
        BY <1>3, <3>1, NextAgentIsACommand DEF ReadConfig, At, Typed, CommandInPlace
      <4> QED
        BY <4>1
    <3>2. CASE cmd' # NextAgent("ok")
      BY <1>3, <3>2 DEF ReadConfig, Typed, TypeOK, Commands
    <3> QED
      BY <3>1, <3>2
  <2> QED
    BY <2>1, <2>2
<1>4. CASE EnvNext \/ UNCHANGED vars
  BY <1>1, <1>4 DEF EnvNext, AgentAppears, UserEdits, vars, observed
<1>5. CASE InstallNext
  <2>1. CASE StartInstall \/ StartSync
    BY <2>1 DEF StartInstall, StartSync, Begin, Idle
  <2>2. CASE EndInstall
    BY <2>2, IdleIsACommand DEF EndInstall
  <2>3. CASE NothingChanges \/ BackupFails \/ \E f \in FileNames : WriteFails(f)
    <3>1. cmd.agent \in Agents /\ \E outcome \in {"ok", "failed"} : cmd' = NextAgent(outcome)
      BY <2>3 DEF NothingChanges, BackupFails, WriteFails, At, Typed, CommandInPlace, InstallPlaces
    <3> QED
      BY <3>1, NextAgentIsACommand DEF Typed
  <2>4. CASE BackupDir \/ BackupFile
    BY <2>4 DEF BackupDir, BackupFile, Typed, TypeOK, Commands
  <2>5. ASSUME NEW a \in Agents, Look(a) \/ LookFails(a)
        PROVE  cmd'.agent \in cut'
    BY <2>5 DEF Look, LookFails, At, Typed, TypeOK, Commands
  <2>6. ASSUME NEW f \in FileNames, Write(f)
        PROVE  cmd'.agent \in cut'
    <3>1. CASE cmd' = NextAgent("ok")
      <4>1. cmd.agent \in Agents
        BY <2>6 DEF Write, At, Typed, CommandInPlace, InstallPlaces
      <4> QED
        BY <3>1, <4>1, NextAgentIsACommand DEF Typed
    <3>2. CASE cmd' # NextAgent("ok")
      BY <2>6, <3>2 DEF Write, At, Typed, TypeOK, Commands
    <3> QED
      BY <3>1, <3>2
  <2> QED
    BY <1>5, <2>1, <2>2, <2>3, <2>4, <2>5, <2>6 DEF InstallNext
<1>6. CASE UpgradeNext
  <2>1. CASE cmd' = Idle
    BY <2>1, IdleIsACommand
  <2>2. ASSUME NEW latest \in Versions, StartUpgrade(latest)
        PROVE  cmd'.agent \in cut'
    BY <2>2 DEF StartUpgrade, Begin, Idle
  <2>3. ASSUME cmd' # Idle, NEW archive \in {"release", "foreign"}, Download(archive)
        PROVE  cmd'.agent \in cut'
    BY <2>3 DEF Download, Typed, TypeOK, Commands
  <2>4. CASE Extract \/ BackupBinary \/ ReplaceBinary
    BY <2>4 DEF Extract, BackupBinary, ReplaceBinary, Typed, TypeOK, Commands
  <2>5. CASE \/ DownloadFails \/ ExtractFails \/ BackupBinaryFails
             \/ RestoreBinary \/ MarkPending
    BY <2>1, <2>5
    DEF DownloadFails, ExtractFails, BackupBinaryFails, RestoreBinary, MarkPending
  <2> QED
    BY <1>6, <2>1, <2>2, <2>3, <2>4, <2>5 DEF UpgradeNext
<1>7. CASE UninstallNext
  <2>1. CASE \E force \in BOOLEAN : StartUninstall(force)
    BY <2>1 DEF StartUninstall, Begin, Idle
  <2>2. CASE RemoveFails
    BY <2>2, IdleIsACommand DEF RemoveFails
  <2>3. CASE RemoveConfig
    <3>1. cmd.agent \in Agents /\ cmd' = NextAgent("ok")
      BY <2>3 DEF RemoveConfig, At, Typed, CommandInPlace
    <3> QED
      BY <3>1, NextAgentIsACommand DEF Typed
  <2>4. CASE RemoveState
    BY <2>4 DEF RemoveState, Typed, TypeOK, Commands
  <2>5. CASE RemoveBinary
    BY <2>5 DEF RemoveBinary, Idle
  <2>6. CASE RemoveRole
    BY <2>6 DEF RemoveRole, At, Typed, TypeOK, Commands, DeliverySound, RemovalSound, observed
  <2> QED
    BY <1>2, <1>3, <1>7, <2>1, <2>2, <2>3, <2>4, <2>5, <2>6 DEF UninstallNext
<1>8. CASE CrashNext
  BY <1>8, IdleIsACommand
  DEF CrashNext, CrashBetweenWrites, CrashInArchive, CrashInUpgrade, CrashInWrite, Crash
<1> QED
  BY <1>4, <1>5, <1>6, <1>7, <1>8 DEF Next

(* Who writes the state file, and so notes what is installed.              *)
LEMMA StateChangesBy ==
  ASSUME [Next]_vars
  PROVE  \/ UNCHANGED state /\ unnoted \subseteq unnoted'
         \/ EndInstall /\ state' = StateAfter
         \/ MarkPending /\ state' = [Loaded EXCEPT !.pending = TRUE, !.version = cmd.version]
         \/ RemoveState /\ state' = Nil
BY DEF Next, EnvNext, InstallNext, UpgradeNext, UninstallNext, CrashNext, vars, observed,
       AgentAppears, UserEdits, Begin, StartInstall, StartSync, StartUpgrade,
       StartUninstall, Look, LookFails, NothingChanges, BackupDir, BackupFile,
       BackupFails, Write, WriteFails, EndInstall, Download, DownloadFails, Extract,
       ExtractFails, BackupBinary, BackupBinaryFails, ReplaceBinary, RestoreBinary,
       MarkPending, RemoveState, RemoveSkill, RemoveRole, RemoveFails, ReadConfig, RemoveConfig, RemoveBinary,
       CrashBetweenWrites, CrashInArchive, CrashInUpgrade, CrashInWrite, Crash

LEMMA DetectedGrows ==
  ASSUME [Next]_vars
  PROVE  detected \subseteq detected'
BY DEF Next, EnvNext, InstallNext, UpgradeNext, UninstallNext, CrashNext, vars,
       AgentAppears, UserEdits, Begin, StartInstall, StartSync, StartUpgrade,
       StartUninstall, Look, LookFails, NothingChanges, BackupDir, BackupFile,
       BackupFails, Write, WriteFails, EndInstall, Download, DownloadFails, Extract,
       ExtractFails, BackupBinary, BackupBinaryFails, ReplaceBinary, RestoreBinary,
       MarkPending, RemoveSkill, RemoveRole, RemoveFails, ReadConfig, RemoveConfig, RemoveState,
       RemoveBinary, CrashBetweenWrites, CrashInArchive, CrashInUpgrade, CrashInWrite, Crash

LEMMA RecordKept ==
  ASSUME SoundlyTyped, [Next]_vars
  PROVE  RecordSound'
<1> USE DEF SoundlyTyped
<1>1. Typed' /\ TypeOK'
  BY NextTyped DEF Typed
<1>2. CASE UNCHANGED state /\ unnoted \subseteq unnoted'
  <2> SUFFICES ASSUME state # Nil
               PROVE  /\ state.version \in Versions
                      /\ state.agents \subseteq detected'
                      /\ bin' \in Versions => bin' \in Noted'
                      /\ ~state.pending =>
                           \A a \in state.agents \ cut' : Carries(a, Noted)'
    BY <1>2 DEF RecordSound
  <2>1. /\ state.version \in Versions /\ state.agents \subseteq detected
        /\ bin \in Versions => bin \in Noted
        /\ ~state.pending => \A a \in state.agents \ cut : Carries(a, Noted)
    BY DEF DeliverySound, RecordSound
  <2>2. Noted \subseteq Noted'
    BY <1>2 DEF Noted
  <2>3. ASSUME bin' \in Versions PROVE bin' \in Noted'
    <3>1. CASE bin' = bin
      BY <2>1, <2>2, <2>3, <3>1
    <3>2. CASE ReplaceBinary
      BY <3>2 DEF ReplaceBinary, Noted
    <3>3. CASE RestoreBinary
      <4>1. bin' = bin
        BY <3>3 DEF RestoreBinary, At, Typed, UpgradeSound
      <4> QED
        BY <2>1, <2>2, <2>3, <4>1
    <3>4. CASE RemoveBinary
      BY <2>1, <2>2, <2>3, <3>4, NilAndTornAreNoContent DEF RemoveBinary
    <3> QED
      BY <3>1, <3>2, <3>3, <3>4, BinaryChangesBy
  <2>4. ASSUME ~state.pending, NEW a \in state.agents \ cut'
        PROVE  Carries(a, Noted)'
    <3>1. a \in Agents
      BY <2>1 DEF Typed, TypeOK
    <3>2. a \notin cut => Carries(a, Noted)
      BY <2>1, <2>4
    <3>3. \A f \in FileNames : files'[a][f] \in Content /\ files'[a][f].drup \in Noted
      <4> DEFINE versions == Noted
      <4>1. /\ a \notin cut => Carries(a, versions)
            /\ bin \in Versions => bin \in versions
        BY <2>1, <3>2
      <4> HIDE DEF versions
      <4>2. \A f \in FileNames : files'[a][f] \in Content /\ files'[a][f].drup \in versions
        BY <2>4, <3>1, <4>1, NotCutCarries DEF Carries
      <4> QED
        BY <4>2 DEF versions
    <3> QED
      BY <2>2, <3>3 DEF Carries
  <2> QED
    BY <2>1, <2>3, <2>4, DetectedGrows
<1>3. CASE EndInstall /\ state' = StateAfter
  <2>1. /\ Installing /\ cmd.todo = {} /\ cmd.op \in {"install", "sync"}
        /\ UNCHANGED <<bin, files, cut, detected>> /\ bin \in Versions
    BY <1>3 DEF EndInstall, At, Installing, disk, Typed, CommandInPlace
  <2>2. /\ cmd.version = bin /\ cmd.loaded = Loaded /\ cmd.loaded \in State
        /\ cmd.ok \subseteq detected
        /\ Loaded.agents \subseteq cmd.ok \cup cmd.failed
        /\ \A a \in cmd.ok \ cut : Carries(a, {bin})
    BY <2>1, LoadedIsAState DEF DeliverySound, InstallSound, Typed
  <2>3. CASE cmd.op = "install"
    <3>1. state'.agents = cmd.ok /\ state'.version = bin
      BY <1>3, <2>2, <2>3 DEF StateAfter, State
    <3>2. bin' \in Noted'
      BY <2>1, <3>1 DEF Noted
    <3>3. \A a \in state'.agents \ cut' : Carries(a, Noted)'
      BY <2>1, <2>2, <3>1 DEF Carries, Noted
    <3> QED
      BY <2>1, <2>2, <3>1, <3>2, <3>3 DEF RecordSound
  <2>4. CASE cmd.op = "sync"
    <3>1. state' = [cmd.loaded EXCEPT !.pending = cmd.failed # {}]
      BY <1>3, <2>4 DEF StateAfter
    <3>2. /\ state'.agents = cmd.loaded.agents /\ state'.version = cmd.loaded.version
      BY <2>2, <3>1 DEF State
    <3>3. state'.pending = (cmd.failed # {})
      BY <2>2, <3>1 DEF State
    <3>4. state # Nil /\ cmd.loaded = state
      BY <2>1, <2>2, <2>4 DEF DeliverySound, InstallSound, Loaded
    <3>5. /\ state.version \in Versions /\ bin \in Noted
          /\ state.agents \subseteq detected
      BY <2>1, <3>4 DEF DeliverySound, RecordSound
    <3>6. Noted \subseteq Noted' /\ unnoted' \subseteq unnoted
      BY <1>3, <2>4, <3>2, <3>4 DEF EndInstall, Noted
    <3>7. ASSUME ~state'.pending, NEW a \in state.agents \ cut
          PROVE  Carries(a, Noted)'
      <4>1. a \in cmd.ok
        BY <2>2, <3>3, <3>4, <3>7
      <4>2. Carries(a, {bin})
        BY <2>2, <3>7, <4>1
      <4> QED
        BY <2>1, <3>5, <3>6, <4>2 DEF Carries
    <3> QED
      BY <2>1, <3>2, <3>4, <3>5, <3>6, <3>7 DEF RecordSound
  <2> QED
    BY <2>1, <2>3, <2>4
<1>4. CASE /\ MarkPending
           /\ state' = [Loaded EXCEPT !.pending = TRUE, !.version = cmd.version]
  <2>1. UNCHANGED <<bin, detected>>
    BY <1>4 DEF MarkPending, disk
  <2>2. bin = cmd.version /\ cmd.version \in Versions
    BY <1>4 DEF MarkPending, At, Typed, CommandInPlace, UpgradeSound, UpgradePlaces
  <2>3. state'.version = bin /\ state'.pending = TRUE /\ state'.agents = Loaded.agents
    BY <1>4, <2>2, LoadedIsAState DEF Typed, State
  <2>4. Loaded.agents \subseteq detected
    BY DEF Loaded, DeliverySound, RecordSound
  <2> QED
    BY <2>1, <2>2, <2>3, <2>4 DEF RecordSound, Noted
<1>5. CASE RemoveState /\ state' = Nil
  BY <1>5 DEF RecordSound
<1> QED
  BY <1>2, <1>3, <1>4, <1>5, StateChangesBy

LEMMA DoneStillCarry ==
  ASSUME SoundlyTyped, [Next]_vars, Installing, bin' = bin
  PROVE  \A a \in cmd.ok \ cut' : Carries(a, {bin})'
<1> DEFINE versions == {bin}
<1>1. bin \in Versions => bin \in versions
  OBVIOUS
<1>2. cmd.ok \subseteq Agents /\ \A a \in cmd.ok \ cut : Carries(a, versions)
  BY DEF SoundlyTyped, Typed, TypeOK, Commands, DeliverySound, InstallSound
<1> HIDE DEF versions
<1>3. ASSUME NEW a \in cmd.ok \ cut'
      PROVE  \A f \in FileNames : files'[a][f] \in Content /\ files'[a][f].drup \in versions
  BY <1>1, <1>2, <1>3, NotCutCarries DEF Carries
<1> QED
  BY <1>3 DEF Carries, versions

(* A step of an install or a sync that settles the agents in done and      *)
(* those in lost, and leaves the others to do.                             *)
LEMMA InstallGoesOn ==
  ASSUME SoundlyTyped, [Next]_vars, Installing,
         UNCHANGED <<bin, state>>,
         cmd'.op = cmd.op, cmd'.version = cmd.version, cmd'.loaded = cmd.loaded,
         cmd'.todo \cup cmd'.ok \subseteq cmd.todo \cup cmd.ok,
         cmd.todo \cup cmd.ok \cup cmd.failed \subseteq cmd'.todo \cup cmd'.ok \cup cmd'.failed,
         \A a \in (cmd'.ok \ cmd.ok) \ cut' : Carries(a, {bin})'
  PROVE  InstallSound'
<1>1. /\ cmd.version = bin /\ cmd.loaded = Loaded /\ (cmd.op = "sync" => state # Nil)
      /\ cmd.todo \cup cmd.ok \subseteq detected
      /\ Loaded.agents \subseteq cmd.todo \cup cmd.ok \cup cmd.failed
  BY DEF SoundlyTyped, DeliverySound, InstallSound
<1>2. Loaded' = Loaded
  BY DEF Loaded
<1>3. \A a \in cmd'.ok \ cut' : Carries(a, {bin})'
  BY DoneStillCarry
<1> QED
  BY <1>1, <1>2, <1>3, DetectedGrows DEF InstallSound

LEMMA EnvironmentKeepsInstall ==
  ASSUME SoundlyTyped, EnvNext \/ UNCHANGED vars
  PROVE  InstallSound' /\ WriteSound'
<1>1. [Next]_vars /\ UNCHANGED <<bin, state, cmd>>
  BY DEF EnvNext, AgentAppears, UserEdits, vars, disk, Next
<1>2. InstallSound'
  <2>1. CASE Installing
    BY <1>1, <2>1, InstallGoesOn
  <2>2. CASE ~Installing
    BY <1>1, <2>2 DEF InstallSound, Installing
  <2> QED
    BY <2>1, <2>2
<1>3. ASSUME cmd.pc \in InstallPlaces
      PROVE  WriteSound'
  <2>1. /\ cmd.agent \in cmd.todo /\ cmd.agent \in Agents
        /\ \A f \in FileNames : cmd.plan[f].drup = cmd.version
        /\ \A f \in FileNames \ cmd.changed :
             files[cmd.agent][f] \in Content /\ files[cmd.agent][f].drup = cmd.version
    BY <1>3 DEF SoundlyTyped, Typed, CommandInPlace, DeliverySound, WriteSound
  <2>2. ASSUME NEW f \in FileNames \ cmd.changed
        PROVE  files'[cmd.agent][f] \in Content /\ files'[cmd.agent][f].drup = cmd.version
    <3>1. CASE UNCHANGED files
      BY <2>1, <3>1
    <3>2. ASSUME NEW b \in Agents, NEW g \in FileNames, UserEdits(b, g)
          PROVE  /\ files'[cmd.agent][f] \in Content
                 /\ files'[cmd.agent][f].drup = cmd.version
      <4>1. edits' \in 0..MaxEdits
        BY <3>2, BoundsAreNumbers DEF UserEdits, SoundlyTyped, Typed, TypeOK
      <4>2. CASE cmd.agent = b /\ f = g
        <5>1. files'[cmd.agent][f] = [user |-> edits', drup |-> files[cmd.agent][f].drup]
          BY <2>1, <3>2, <4>2, NilAndTornAreNoContent
          DEF UserEdits, SoundlyTyped, Typed, TypeOK
        <5> QED
          BY <2>1, <4>1, <5>1 DEF Content
      <4>3. CASE ~(cmd.agent = b /\ f = g)
        BY <2>1, <3>2, <4>3 DEF UserEdits, SoundlyTyped, Typed, TypeOK
      <4> QED
        BY <4>2, <4>3
    <3> QED
      BY <3>1, <3>2 DEF EnvNext, AgentAppears, vars
  <2> QED
    BY <1>1, <2>1, <2>2 DEF WriteSound
<1>4. CASE cmd.pc \notin InstallPlaces
  BY <1>1, <1>2, <1>4 DEF WriteSound, InstallPlaces
<1> QED
  BY <1>2, <1>3, <1>4

LEMMA NextAgentSettles ==
  ASSUME TypeOK, cmd.agent \in Agents, NEW outcome \in {"ok", "failed"}
  PROVE  /\ NextAgent(outcome).version = cmd.version
         /\ NextAgent(outcome).todo = cmd.todo \ {cmd.agent}
         /\ NextAgent(outcome).ok =
              IF outcome = "ok" THEN cmd.ok \cup {cmd.agent} ELSE cmd.ok
         /\ NextAgent(outcome).failed =
              IF outcome = "failed" THEN cmd.failed \cup {cmd.agent} ELSE cmd.failed
BY DEF TypeOK, NextAgent, Commands

(* An agent is settled.                                                    *)
LEMMA SettlingKeepsInstall ==
  ASSUME SoundlyTyped,
         \/ NothingChanges \/ BackupFails
         \/ \E f \in FileNames : WriteFails(f) \/ (Write(f) /\ cmd.changed = {f})
  PROVE  InstallSound' /\ WriteSound'
<1>1. /\ cmd.pc \in InstallPlaces /\ Installing /\ cmd.agent \in Agents
      /\ UNCHANGED <<bin, state>> /\ [Next]_vars
  BY DEF NothingChanges, BackupFails, WriteFails, Write, At, InstallPlaces, Installing,
         SoundlyTyped, Typed, CommandInPlace, disk, Next, InstallNext
<1>2. cmd.agent \in cmd.todo
  BY <1>1 DEF SoundlyTyped, DeliverySound, WriteSound
<1>3. ASSUME NEW outcome \in {"ok", "failed"}, cmd' = NextAgent(outcome),
             outcome = "ok" => \A f \in FileNames :
               files'[cmd.agent][f] \in Content /\ files'[cmd.agent][f].drup = bin
      PROVE  InstallSound' /\ WriteSound'
  <2>1. /\ cmd'.pc = "next" /\ cmd'.op = cmd.op /\ cmd'.loaded = cmd.loaded
        /\ cmd'.version = cmd.version /\ cmd'.todo = cmd.todo \ {cmd.agent}
        /\ cmd'.ok = IF outcome = "ok" THEN cmd.ok \cup {cmd.agent} ELSE cmd.ok
        /\ cmd'.failed = IF outcome = "failed" THEN cmd.failed \cup {cmd.agent} ELSE cmd.failed
    BY <1>1, <1>3, NextAgentIsACommand, NextAgentSettles DEF SoundlyTyped, Typed
  <2>3. \A a \in (cmd'.ok \ cmd.ok) \ cut' : Carries(a, {bin})'
    BY <1>1, <1>3, <2>1 DEF Carries
  <2>4. cmd'.todo \cup cmd'.ok \subseteq cmd.todo \cup cmd.ok
    BY <1>2, <2>1
  <2>5. cmd.todo \cup cmd.ok \cup cmd.failed \subseteq cmd'.todo \cup cmd'.ok \cup cmd'.failed
    BY <2>1
  <2>6. InstallSound'
    BY <1>1, <2>1, <2>3, <2>4, <2>5, InstallGoesOn
  <2>7. WriteSound'
    BY <2>1 DEF WriteSound, InstallPlaces
  <2> QED
    BY <2>6, <2>7
<1>4. CASE NothingChanges \/ \E f \in FileNames : Write(f) /\ cmd.changed = {f}
  <2>1. cmd' = NextAgent("ok")
    BY <1>4 DEF NothingChanges, Write
  <2>2. \A f \in FileNames :
          files'[cmd.agent][f] \in Content /\ files'[cmd.agent][f].drup = bin
    BY <1>4, FinishedCarries
  <2> QED
    BY <1>3, <2>1, <2>2
<1>5. CASE BackupFails \/ \E f \in FileNames : WriteFails(f)
  <2>1. cmd' = NextAgent("failed")
    BY <1>5 DEF BackupFails, WriteFails
  <2> QED
    BY <1>3, <2>1
<1> QED
  BY <1>4, <1>5

(* An install or a sync begins, or goes on with an agent.                  *)
LEMMA WorkingKeepsInstall ==
  ASSUME SoundlyTyped,
         \/ StartInstall \/ StartSync
         \/ \E a \in Agents : Look(a) \/ LookFails(a)
         \/ BackupDir \/ BackupFile
         \/ \E f \in FileNames : Write(f) /\ cmd.changed # {f}
  PROVE  InstallSound' /\ WriteSound'
<1> USE DEF SoundlyTyped, Typed
<1>1. CASE StartInstall \/ StartSync
  <2>1. /\ cmd'.pc = "next" /\ cmd'.op \in {"install", "sync"} /\ cmd'.version = bin
        /\ cmd'.loaded = Loaded /\ cmd'.todo = detected /\ cmd'.ok = {} /\ cmd'.failed = {}
        /\ cmd'.op = "sync" => Loaded.agents # {}
        /\ UNCHANGED <<bin, state, detected>>
    BY <1>1 DEF StartInstall, StartSync, Begin, Idle, disk
  <2>2. Loaded.agents \subseteq detected /\ (Loaded.agents # {} => state # Nil)
    BY DEF Loaded, DeliverySound, RecordSound
  <2>3. Loaded' = Loaded
    BY <2>1 DEF Loaded
  <2>4. InstallSound'
    BY <2>1, <2>2, <2>3 DEF InstallSound
  <2>5. WriteSound'
    BY <2>1 DEF WriteSound, InstallPlaces
  <2> QED
    BY <2>4, <2>5
<1>2. ASSUME NEW a \in Agents, Look(a)
      PROVE  InstallSound' /\ WriteSound'
  <2>1. /\ cmd'.pc = "backupDir" /\ cmd'.op = cmd.op /\ cmd'.agent = a
        /\ cmd'.version = cmd.version /\ cmd'.loaded = cmd.loaded
        /\ cmd'.todo = cmd.todo /\ cmd'.ok = cmd.ok /\ cmd'.failed = cmd.failed
        /\ cmd'.plan = Intended(a)
        /\ cmd'.changed = {f \in FileNames : files[a][f] # Intended(a)[f]}
    BY <1>2 DEF Look, TypeOK, Commands
  <2>2. /\ Installing /\ UNCHANGED <<bin, state, files>> /\ a \in cmd.todo /\ [Next]_vars
    BY <1>2 DEF Look, Installing, At, disk, Next, InstallNext
  <2>3. InstallSound'
    BY <2>1, <2>2, InstallGoesOn
  <2>4. Intended(a) \in [FileNames -> Content]
    BY IntendedIsContent DEF TypeOK, Commands
  <2>5. \A f \in FileNames : Intended(a)[f].drup = cmd.version
    BY DEF Intended
  <2>6. WriteSound'
    BY <2>1, <2>2, <2>4, <2>5 DEF WriteSound
  <2> QED
    BY <2>3, <2>6
<1>3. ASSUME NEW a \in Agents, LookFails(a)
      PROVE  InstallSound' /\ WriteSound'
  <2>1. /\ cmd'.pc = "next" /\ cmd'.op = cmd.op
        /\ cmd'.version = cmd.version /\ cmd'.loaded = cmd.loaded
        /\ cmd'.todo = cmd.todo \ {a} /\ cmd'.ok = cmd.ok
        /\ cmd'.failed = cmd.failed \cup {a}
    BY <1>3 DEF LookFails, At, TypeOK, Commands
  <2>2. /\ Installing /\ UNCHANGED <<bin, state>> /\ [Next]_vars
    BY <1>3 DEF LookFails, Installing, At, disk, Next, InstallNext
  <2>3. InstallSound'
    BY <2>1, <2>2, InstallGoesOn
  <2>4. WriteSound'
    BY <2>1 DEF WriteSound, InstallPlaces
  <2> QED
    BY <2>3, <2>4
<1>4. CASE BackupDir \/ BackupFile
  <2>1. /\ cmd'.pc \in InstallPlaces /\ cmd'.op = cmd.op /\ cmd'.agent = cmd.agent
        /\ cmd'.version = cmd.version /\ cmd'.loaded = cmd.loaded
        /\ cmd'.todo = cmd.todo /\ cmd'.ok = cmd.ok /\ cmd'.failed = cmd.failed
        /\ cmd'.plan = cmd.plan /\ cmd'.changed = cmd.changed
    BY <1>4 DEF BackupDir, BackupFile, TypeOK, Commands, InstallPlaces
  <2>2. /\ Installing /\ cmd.pc \in InstallPlaces /\ UNCHANGED <<bin, state, files>>
        /\ [Next]_vars
    BY <1>4 DEF BackupDir, BackupFile, Installing, InstallPlaces, CommandInPlace, At, disk,
                Next, InstallNext
  <2>3. InstallSound'
    BY <2>1, <2>2, InstallGoesOn
  <2>4. WriteSound'
    BY <2>1, <2>2 DEF DeliverySound, WriteSound
  <2> QED
    BY <2>3, <2>4
<1>5. ASSUME NEW g \in FileNames, Write(g), cmd.changed # {g}
      PROVE  InstallSound' /\ WriteSound'
  <2>1. cmd' = [cmd EXCEPT !.changed = @ \ {g}]
    BY <1>5 DEF Write
  <2>2. /\ cmd'.pc = cmd.pc /\ cmd'.op = cmd.op /\ cmd'.agent = cmd.agent
        /\ cmd'.version = cmd.version /\ cmd'.loaded = cmd.loaded
        /\ cmd'.todo = cmd.todo /\ cmd'.ok = cmd.ok /\ cmd'.failed = cmd.failed
        /\ cmd'.plan = cmd.plan /\ cmd'.changed = cmd.changed \ {g}
    BY <2>1 DEF TypeOK, Commands
  <2>3. /\ Installing /\ cmd.pc \in InstallPlaces /\ cmd.agent \in Agents
        /\ cmd.plan \in [FileNames -> Content]
        /\ UNCHANGED <<bin, state>> /\ [Next]_vars
    BY <1>5 DEF Write, Installing, InstallPlaces, CommandInPlace, At, disk, Next, InstallNext
  <2>4. InstallSound'
    BY <2>2, <2>3, InstallGoesOn
  <2>5. /\ cmd.agent \in cmd.todo
        /\ \A f \in FileNames : cmd.plan[f].drup = cmd.version
        /\ \A f \in FileNames \ cmd.changed :
             files[cmd.agent][f] \in Content /\ files[cmd.agent][f].drup = cmd.version
    BY <2>3 DEF DeliverySound, WriteSound
  <2>6. ASSUME NEW f \in FileNames \ cmd'.changed
        PROVE  /\ files'[cmd.agent][f] \in Content
               /\ files'[cmd.agent][f].drup = cmd.version
    <3>1. CASE f = g
      BY <1>5, <2>3, <2>5, <3>1 DEF Write, TypeOK
    <3>2. CASE f # g
      BY <1>5, <2>2, <2>3, <2>5, <3>2 DEF Write, TypeOK
    <3> QED
      BY <3>1, <3>2
  <2>7. WriteSound'
    BY <2>2, <2>5, <2>6 DEF WriteSound
  <2> QED
    BY <2>4, <2>7
<1> QED
  BY <1>1, <1>2, <1>3, <1>4, <1>5

LEMMA InstallKept ==
  ASSUME SoundlyTyped, [Next]_vars
  PROVE  InstallSound' /\ WriteSound'
<1>1. CASE EnvNext \/ UNCHANGED vars
  BY <1>1, EnvironmentKeepsInstall
<1>2. CASE InstallNext
  <2>1. CASE EndInstall
    BY <2>1, NoInstallIsLeft, NotInstalling DEF SoundlyTyped
  <2>2. CASE ~EndInstall
    BY <1>2, <2>2, SettlingKeepsInstall, WorkingKeepsInstall DEF InstallNext
  <2> QED
    BY <2>1, <2>2
<1>3. CASE UpgradeNext
  BY <1>3, NoInstallIsLeft, NotInstalling DEF UpgradeNext, SoundlyTyped
<1>4. CASE UninstallNext
  BY <1>4, NoInstallIsLeft, NotInstalling DEF UninstallNext, SoundlyTyped
<1>5. CASE CrashNext
  BY <1>5, NoInstallIsLeft, NotInstalling DEF SoundlyTyped
<1> QED
  BY <1>1, <1>2, <1>3, <1>4, <1>5 DEF Next

LEMMA NextSound == SoundlyTyped /\ [Next]_vars => SoundlyTyped'
BY NextTyped, RemovalKept, RecordKept, InstallKept DEF SoundlyTyped, DeliverySound

LEMMA InitSound == Init => DeliverySound
BY IdleIsACommand
DEF Init, DeliverySound, InstallSound, WriteSound, RemovalSound, RecordSound, Installing,
    InstallPlaces, RemovalPlaces

(* In every state the record of agents is one that the files bear out, and *)
(* the command that runs is on its way to the next such record.            *)
THEOREM DeliveryKeepsItsRecord == Spec => []SoundlyTyped
<1>1. Init => SoundlyTyped
  BY InitTyped, InitSound DEF SoundlyTyped
<1> QED
  BY <1>1, NextSound, PTL DEF Spec

(* Between commands every file of an agent on record carries the version   *)
(* on record or one installed since, unless the state says that a sync is  *)
(* pending or the files of that agent were left half done (RunInstall,     *)
(* RunSync, RunUpgrade).                                                   *)
THEOREM RecordedAgentsCarryTheirVersion == Spec => []StaleAgentsArePending
<1>1. SoundlyTyped => StaleAgentsArePending
  BY DEF SoundlyTyped, DeliverySound, RecordSound, Carries, Noted, StaleAgentsArePending
<1> QED
  BY <1>1, DeliveryKeepsItsRecord, PTL

(***************************************************************************)
(* What is overwritten is kept                                             *)
(***************************************************************************)

Copied(a, f) ==
  <<a, f>> \in late \/ UserPart(files[a][f]) = 0 \/ files[a][f] \in Kept(a, f)

(* What the command is about to overwrite it has copied.                   *)
CopySound ==
  /\ At("backupFile") /\ "skill" \in cmd.changed => Copied(cmd.agent, "skill")
  /\ At("write") => \A f \in cmd.changed \cap Archived : Copied(cmd.agent, f)
  /\ At("removeConfig") =>
       \/ <<cmd.agent, "config">> \in late
       \/ UserPart(files[cmd.agent]["config"]) = cmd.plan.user

OverwriteStep ==
  \A a \in Agents, f \in Archived :
    LET old == files[a][f] IN
    /\ edits' = edits
    /\ cmd.op = "uninstall" => f = "config"
    /\ UserPart(old) # 0
    /\ UserPart(files[a][f]') # UserPart(old)
    => <<a, f>> \in late \/ old \in Kept(a, f)'

LEMMA CopySteps ==
  ASSUME Typed, CopySound, [Next]_vars
  PROVE  CopySound'
<1> USE DEF Typed
<1>1. CASE cmd'.pc \notin {"backupFile", "write", "removeConfig"}
  BY <1>1 DEF CopySound, At
<1>2. CASE UNCHANGED <<cmd, files, late, backups>>
  BY <1>2 DEF CopySound, Copied, Kept, At, backups, UserPart
<1>3. ASSUME NEW b \in Agents, NEW g \in FileNames, UserEdits(b, g)
      PROVE  CopySound'
  <2>1. /\ UNCHANGED <<cmd, backups>> /\ late' = late \cup ({<<b, g>>} \cap PastCopy)
        /\ \A a \in Agents, f \in FileNames :
             <<a, f>> # <<b, g>> => files'[a][f] = files[a][f]
    BY <1>3 DEF UserEdits, TypeOK
  <2>2. ASSUME NEW a \in Agents, NEW f \in Archived, <<a, f>> \in PastCopy, Copied(a, f)
        PROVE  Copied(a, f)'
    <3>1. CASE <<a, f>> = <<b, g>>
      BY <2>1, <2>2, <3>1 DEF Copied
    <3>2. CASE <<a, f>> # <<b, g>>
      <4>1. files'[a][f] = files[a][f] /\ late \subseteq late' /\ Kept(a, f)' = Kept(a, f)
        BY <2>1, <3>2 DEF Kept, backups, Archived, FileNames
      <4> QED
        BY <2>2, <4>1 DEF Copied, UserPart
    <3> QED
      BY <3>1, <3>2
  <2>3. CASE At("backupFile")
    <3>1. cmd.agent \in Agents /\ "skill" \in Archived /\ <<cmd.agent, "skill">> \in PastCopy
      BY <2>3 DEF PastCopy, At, CommandInPlace, InstallPlaces, Archived
    <3> QED
      BY <2>1, <2>2, <2>3, <3>1 DEF CopySound, At
  <2>4. CASE At("write")
    <3>1. cmd.agent \in Agents /\ cmd.changed \subseteq FileNames
      BY <2>4 DEF At, CommandInPlace, InstallPlaces, TypeOK, Commands
    <3>2. \A f \in cmd.changed \cap Archived : <<cmd.agent, f>> \in PastCopy
      BY <2>4, <3>1 DEF PastCopy, At
    <3> QED
      BY <2>1, <2>2, <2>4, <3>1, <3>2 DEF CopySound, At
  <2>5. CASE At("removeConfig")
    <3>1. cmd.agent \in Agents /\ "config" \in FileNames /\ <<cmd.agent, "config">> \in PastCopy
      BY <2>5 DEF PastCopy, At, CommandInPlace, RemovalPlaces, FileNames
    <3>2. CASE <<cmd.agent, "config">> = <<b, g>>
      BY <2>1, <2>5, <3>1, <3>2 DEF CopySound, At
    <3>3. CASE <<cmd.agent, "config">> # <<b, g>>
      <4>1. files'[cmd.agent]["config"] = files[cmd.agent]["config"] /\ late \subseteq late'
        BY <2>1, <3>1, <3>3
      <4> QED
        BY <2>1, <2>5, <4>1 DEF CopySound, At, UserPart
    <3> QED
      BY <3>2, <3>3
  <2> QED
    BY <1>1, <2>1, <2>3, <2>4, <2>5 DEF At
<1>4. CASE BackupDir
  <2>1. /\ cmd'.pc = "backupFile" /\ cmd'.agent = cmd.agent /\ cmd'.changed = cmd.changed
        /\ cmd.agent \in Agents /\ UNCHANGED files
    BY <1>4 DEF BackupDir, At, CommandInPlace, InstallPlaces, TypeOK, Commands
  <2>2. files[cmd.agent]["skill"] \in Contents
    BY <2>1 DEF TypeOK, FileNames
  <2>3. /\ dirBackups' = WithBackup(dirBackups, files[cmd.agent]["skill"])
        /\ dirBackups \in Seq(Contents)
    BY <1>4 DEF BackupDir, TypeOK
  <2>4. files[cmd.agent]["skill"] # Nil =>
          files[cmd.agent]["skill"] \in ToSet(dirBackups')
    BY <2>2, <2>3, BackupIsKept
  <2>5. Copied(cmd.agent, "skill")'
    BY <2>1, <2>4 DEF Copied, Kept, UserPart
  <2> QED
    BY <2>1, <2>5 DEF CopySound, At
<1>5. CASE BackupFile
  <2>1. /\ cmd'.pc = "write" /\ cmd'.agent = cmd.agent /\ cmd'.changed = cmd.changed
        /\ cmd.agent \in Agents /\ cmd.changed \subseteq FileNames
        /\ UNCHANGED <<files, late, dirBackups>>
    BY <1>5 DEF BackupFile, At, CommandInPlace, InstallPlaces, TypeOK, Commands, observed
  <2>2. files[cmd.agent]["config"] \in Contents /\ fileBackups[cmd.agent] \in Seq(Contents)
    BY <2>1 DEF TypeOK, FileNames
  <2>3. fileBackups'[cmd.agent] =
          WithBackup(fileBackups[cmd.agent], files[cmd.agent]["config"])
    BY <1>5, <2>1 DEF BackupFile, TypeOK
  <2>4. files[cmd.agent]["config"] # Nil =>
          files[cmd.agent]["config"] \in ToSet(fileBackups'[cmd.agent])
    BY <2>2, <2>3, BackupIsKept
  <2>5. Copied(cmd.agent, "config")'
    BY <2>1, <2>4 DEF Copied, Kept, UserPart
  <2>6. "skill" \in cmd.changed => Copied(cmd.agent, "skill")'
    BY <1>5, <2>1 DEF BackupFile, At, CopySound, Copied, Kept, UserPart
  <2> QED
    BY <2>1, <2>5, <2>6 DEF CopySound, At, Archived
<1>6. ASSUME NEW g \in FileNames, Write(g)
      PROVE  CopySound'
  <2>1. CASE cmd.changed = {g}
    <3>1. cmd' = NextAgent("ok") /\ cmd.agent \in Agents
      BY <1>6, <2>1 DEF Write, At, CommandInPlace, InstallPlaces
    <3>2. cmd'.pc = "next"
      BY <3>1, NextAgentIsACommand
    <3> QED
      BY <1>1, <3>2
  <2>2. CASE cmd.changed # {g}
    <3>1. /\ cmd'.pc = "write" /\ cmd'.agent = cmd.agent /\ cmd'.changed = cmd.changed \ {g}
          /\ cmd.agent \in Agents /\ cmd.changed \subseteq FileNames
          /\ UNCHANGED <<late, backups>>
      BY <1>6, <2>2 DEF Write, At, CommandInPlace, InstallPlaces, TypeOK, Commands
    <3>2. \A f \in cmd.changed \ {g} : files'[cmd.agent][f] = files[cmd.agent][f]
      BY <1>6, <3>1 DEF Write, TypeOK
    <3>3. ASSUME NEW f \in (cmd.changed \ {g}) \cap Archived
          PROVE  Copied(cmd.agent, f)'
      <4>1. Copied(cmd.agent, f)
        BY <1>6, <3>3 DEF Write, CopySound, At
      <4> QED
        BY <3>1, <3>2, <4>1 DEF Copied, Kept, backups, UserPart
    <3> QED
      BY <3>1, <3>3 DEF CopySound, At
  <2> QED
    BY <2>1, <2>2
<1>7. CASE ReadConfig
  <2>1. CASE cmd' = NextAgent("ok")
    <3>1. cmd'.pc = "next"
      BY <1>7, <2>1, NextAgentIsACommand DEF ReadConfig, At, CommandInPlace, RemovalPlaces
    <3> QED
      BY <1>1, <3>1
  <2>2. CASE cmd' # NextAgent("ok")
    <3>1. /\ files[cmd.agent]["config"] \in Content
          /\ cmd' = [cmd EXCEPT !.pc = "removeConfig", !.plan = files[cmd.agent]["config"]]
          /\ UNCHANGED files
      BY <1>7, <2>2 DEF ReadConfig
    <3>2. /\ cmd'.pc = "removeConfig" /\ cmd'.agent = cmd.agent
          /\ cmd'.plan = files[cmd.agent]["config"]
      BY <3>1 DEF TypeOK, Commands
    <3>3. UserPart(files[cmd.agent]["config"]) = files[cmd.agent]["config"].user
      BY <3>1, NilAndTornAreNoContent DEF UserPart
    <3> QED
      BY <3>1, <3>2, <3>3 DEF CopySound, At, UserPart
  <2> QED
    BY <2>1, <2>2
<1>8. CASE EnvNext \/ UNCHANGED vars
  BY <1>2, <1>3, <1>8 DEF EnvNext, AgentAppears, vars, observed
<1>9. CASE InstallNext
  <2>1. CASE StartInstall \/ StartSync
    BY <1>1, <2>1 DEF StartInstall, StartSync, Begin, Idle
  <2>2. CASE EndInstall
    BY <1>1, <2>2, IdleIsACommand DEF EndInstall
  <2>3. CASE NothingChanges \/ BackupFails \/ \E f \in FileNames : WriteFails(f)
    <3>1. cmd.agent \in Agents /\ \E outcome \in {"ok", "failed"} : cmd' = NextAgent(outcome)
      BY <2>3 DEF NothingChanges, BackupFails, WriteFails, At, CommandInPlace, InstallPlaces
    <3>2. cmd'.pc = "next"
      BY <3>1, NextAgentIsACommand
    <3> QED
      BY <1>1, <3>2
  <2>4. ASSUME NEW a \in Agents, Look(a) \/ LookFails(a)
        PROVE  CopySound'
    BY <1>1, <2>4 DEF Look, LookFails, At, TypeOK, Commands
  <2> QED
    BY <1>4, <1>5, <1>6, <1>9, <2>1, <2>2, <2>3, <2>4 DEF InstallNext
<1>10. CASE UpgradeNext
  <2>1. CASE cmd' = Idle
    BY <1>1, <2>1, IdleIsACommand
  <2>2. CASE cmd' # Idle
    BY <1>1, <1>10, <2>2
    DEF UpgradeNext, StartUpgrade, Begin, Idle, Download, DownloadFails, Extract,
        ExtractFails, BackupBinary, BackupBinaryFails, ReplaceBinary, RestoreBinary,
        MarkPending, TypeOK, Commands
  <2> QED
    BY <2>1, <2>2
<1>11. CASE UninstallNext
  <2>1. CASE \E force \in BOOLEAN : StartUninstall(force)
    BY <1>1, <2>1 DEF StartUninstall, Begin, Idle
  <2>2. CASE RemoveFails
    BY <1>1, <2>2, IdleIsACommand DEF RemoveFails
  <2>3. CASE RemoveConfig
    <3>1. cmd.agent \in Agents /\ cmd' = NextAgent("ok")
      BY <2>3 DEF RemoveConfig, At, CommandInPlace, RemovalPlaces
    <3>2. cmd'.pc = "next"
      BY <3>1, NextAgentIsACommand
    <3> QED
      BY <1>1, <3>2
  <2>4. CASE RemoveState \/ RemoveRole \/ \E a \in Agents : RemoveSkill(a)
    BY <1>1, <2>4 DEF RemoveState, RemoveRole, RemoveSkill, TypeOK, Commands
  <2>5. CASE RemoveBinary
    BY <1>1, <2>5 DEF RemoveBinary, Idle
  <2> QED
    BY <1>7, <1>11, <2>1, <2>2, <2>3, <2>4, <2>5 DEF UninstallNext
<1>12. CASE CrashNext
  BY <1>1, <1>12, IdleIsACommand
  DEF CrashNext, CrashBetweenWrites, CrashInArchive, CrashInUpgrade, CrashInWrite, Crash
<1> QED
  BY <1>8, <1>9, <1>10, <1>11, <1>12 DEF Next

LEMMA OverwriteSteps ==
  ASSUME Typed, CopySound, [Next]_vars
  PROVE  OverwriteStep
<1> SUFFICES ASSUME NEW a \in Agents, NEW f \in Archived,
                    edits' = edits, cmd.op = "uninstall" => f = "config",
                    UserPart(files[a][f]) # 0,
                    UserPart(files'[a][f]) # UserPart(files[a][f])
             PROVE  <<a, f>> \in late \/ files[a][f] \in Kept(a, f)'
  BY DEF OverwriteStep
<1> USE DEF Typed
<1>a. f \in FileNames /\ f # "role"
  BY DEF Archived, FileNames
<1>1. CASE UNCHANGED files
  BY <1>1
<1>2. ASSUME NEW b \in Agents, NEW g \in FileNames, UserEdits(b, g)
      PROVE  FALSE
  BY <1>2 DEF UserEdits, TypeOK
<1>3. ASSUME NEW g \in FileNames, Write(g) \/ WriteFails(g) \/ CrashInWrite(g)
      PROVE  <<a, f>> \in late \/ files[a][f] \in Kept(a, f)'
  <2>1. /\ At("write") /\ g \in cmd.changed /\ cmd.agent \in Agents
        /\ UNCHANGED backups
        /\ \A b \in Agents, h \in FileNames :
             <<b, h>> # <<cmd.agent, g>> => files'[b][h] = files[b][h]
    BY <1>3
    DEF Write, WriteFails, CrashInWrite, Crash, At, CommandInPlace, InstallPlaces,
        TypeOK, backups
  <2>2. a = cmd.agent /\ f = g
    BY <1>a, <2>1
  <2>3. Copied(a, f)
    BY <2>1, <2>2 DEF CopySound
  <2> QED
    BY <2>1, <2>3 DEF Copied, Kept, backups
<1>4. ASSUME NEW b \in Agents, RemoveSkill(b)
      PROVE  FALSE
  BY <1>4, <1>a DEF RemoveSkill, TypeOK
<1>5. CASE RemoveConfig
  <2>1. /\ At("removeConfig") /\ cmd.agent \in Agents /\ cmd.plan \in Content
        /\ \A b \in Agents, h \in FileNames :
             <<b, h>> # <<cmd.agent, "config">> => files'[b][h] = files[b][h]
    BY <1>5 DEF RemoveConfig, At, CommandInPlace, RemovalPlaces, TypeOK
  <2>2. a = cmd.agent /\ f = "config"
    BY <1>a, <2>1
  <2>3. PICK left \in {[user |-> cmd.plan.user, drup |-> Nil]} \cup
                      (IF cmd.plan.user = 0 THEN {Nil} ELSE {}) :
          files'[a][f] = left
    BY <1>5, <2>1, <2>2 DEF RemoveConfig, TypeOK, FileNames
  <2>4. [user |-> cmd.plan.user, drup |-> Nil] \in Content
    BY <2>1 DEF Content
  <2>5. UserPart(files'[a][f]) = cmd.plan.user
    BY <2>3, <2>4, NilAndTornAreNoContent DEF UserPart
  <2> QED
    BY <2>1, <2>2, <2>5 DEF CopySound
<1>6. CASE RemoveRole
  <2>1. files'[a][f] = files[a][f]
    BY <1>6, <1>a DEF RemoveRole, TypeOK
  <2> QED
    BY <2>1
<1> QED
  BY <1>1, <1>2, <1>3, <1>4, <1>5, <1>6, FilesChangeBy

(* What the user had written in a file that drup overwrites is among the   *)
(* backups, unless it was written after drup had copied the file           *)
(* (Install, BackupConfig, BackupFile, RemoveMCPConfig).                   *)
THEOREM OverwrittenFilesAreKept == Spec => OverwrittenIsKept
<1>1. Init => Typed /\ CopySound
  BY InitTyped, IdleIsACommand DEF Init, CopySound, At
<1>2. Typed /\ CopySound /\ [Next]_vars => (Typed /\ CopySound)'
  BY NextTyped, CopySteps
<1>3. Typed /\ CopySound /\ [Next]_vars => [OverwriteStep]_vars
  BY OverwriteSteps
<1> QED
  BY <1>1, <1>2, <1>3, PTL DEF Spec, OverwrittenIsKept, OverwriteStep
=============================================================================
