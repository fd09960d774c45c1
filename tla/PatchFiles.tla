------------------------------ MODULE PatchFiles ------------------------------
(***************************************************************************)
(* The directory that replaces Tokio in a build: a project's own           *)
(* .telekio/tokio, written by `telekio init' and taken away by `telekio    *)
(* remove', or a directory of the cache that the `telekio cargo' processes *)
(* share under a lock.  A patch is three files, written one after the      *)
(* other; commands fail or are interrupted between any two writes.         *)
(***************************************************************************)
EXTENDS Naturals, FiniteSets

CONSTANTS
  Commands,     \* processes that run telekio
  Versions      \* of Telekio

ASSUME PatchAssumption == Versions # {} /\ Versions \subseteq Nat \ {0}

VARIABLES
  place,        \* what is modelled: "project", or the cache for one role
  files,        \* what the three files of the patch contain
  dir,          \* the patch's directory exists
  source,       \* its sibling directory, where Tokio's sources are fetched
  stray,        \* a file of the user lies beside the patch, in .telekio
  emptied,      \* the process that has truncated the cache's config.toml, through
                \* which cargo finds the patch, if that is not written since
  patched,      \* the tokio entry of [patch.crates-io] in the project's manifest,
                \* or "cut" while that manifest is being written
  pc, file,     \* where each process stands and which file it writes
  cmd,          \* with which version and for which role it runs
  orders,       \* history: the versions and roles that wrote or may have
  failed        \* history: a command failed half way or was interrupted

patchVars == <<files, dir, source>>
vars == <<place, patchVars, stray, emptied, patched, pc, file, cmd, orders, failed>>

(* "Mixed" is a guest package whose dependencies use the host's Tokio.     *)
Roles == {"Host", "Guest", "Mixed"}
SourceRole(role) == IF role = "Host" THEN "Host" ELSE "Guest"

Files   == {"Cargo.toml", "build.rs", "lib.rs"}
Written == [version : Versions, role : Roles]
Absent  == [version |-> 0, role |-> "absent"]
Empty   == [version |-> 0, role |-> "empty"]   \* fs::write truncates first
Foreign == [version |-> 0, role |-> "user"]    \* without Telekio's mark

Stages == {"idle", "check", "lock", "current", "fetch", "sourceManifest",
           "truncate", "fill", "clean", "set", "setFill",
           "checkRemove", "unset", "unsetFill", "delete",
           "config", "configFill", "cargo"}

Idle == \A c \in Commands : pc[c] = "idle"

(* One process at a time is at work on the directory.                      *)
TypeOK ==
  /\ place \in {"project"} \cup Roles
  /\ files \in [Files -> Written \cup {Absent, Empty, Foreign}]
  /\ source \in {"absent", "empty", "broken", "ready"} /\ {dir, stray, failed} \subseteq BOOLEAN
  /\ patched \in {"none", "telekio", "other", "cut"} /\ emptied \subseteq Commands
  /\ pc \in [Commands -> Stages] /\ file \in [Commands -> Files]
  /\ cmd \in [Commands -> Written] /\ orders \subseteq Written
  /\ ~dir => \A f \in Files : files[f] = Absent
  /\ \A c, d \in Commands :
       pc[c] \notin {"idle", "lock", "cargo"} /\ pc[d] \notin {"idle", "lock", "cargo"} => c = d

Init ==
  /\ place \in {"project"} \cup Roles
  /\ files = [f \in Files |-> Absent] /\ dir = FALSE /\ source = "absent"
  /\ patched \in IF place = "project" THEN {"none", "other"} ELSE {"none"}
  /\ pc = [c \in Commands |-> "idle"] /\ file = [c \in Commands |-> "Cargo.toml"]
  /\ cmd = [c \in Commands |-> CHOOSE o \in Written : TRUE]
  /\ orders = {} /\ stray = FALSE /\ failed = FALSE /\ emptied = {}

Go(c, from, to) == pc[c] = from /\ pc' = [pc EXCEPT ![c] = to]

(* What a command leaves alone once it is started, until it writes the      *)
(* configuration of cargo.                                                 *)
Rest == UNCHANGED <<place, stray, cmd, orders, emptied>>

-----------------------------------------------------------------------------
(* What the code reads from the directory *)

(* validate_patch: all three files, with Telekio's mark in them.           *)
ValidPatch == \A f \in Files : files[f] \in Written

(* validate_parent: nothing beside the patch.                              *)
ValidParent == ~stray /\ source = "absent"

ValidDestination == ValidParent /\ (dir => ValidPatch)

Exist == \A f \in Files : files[f] # Absent

(* patch_current fails on a manifest without dependencies, ...             *)
CurrentFails == Exist /\ files["Cargo.toml"] = Empty

(* ... finds version and roles in the manifest, and in the other two files  *)
(* only whether they are a host's.                                         *)
ForHost(f) == files[f] \in Written /\ SourceRole(files[f].role) = "Host"

(* Mistake: the version is not looked at when the manifest is newer.        *)
CurrentOrNewer(o) ==
  /\ Exist /\ files["Cargo.toml"].role = o.role /\ files["Cargo.toml"].version >= o.version
  /\ \A f \in {"build.rs", "lib.rs"} : ForHost(f) = (SourceRole(o.role) = "Host")

Current(o) ==
  /\ Exist /\ files["Cargo.toml"] = o
  /\ \A f \in {"build.rs", "lib.rs"} : ForHost(f) = (SourceRole(o.role) = "Host")

-----------------------------------------------------------------------------
(* The commands begin *)

Start(c, to, roles) ==
  /\ Go(c, "idle", to)
  /\ \E v \in Versions, r \in roles :
       /\ cmd' = [cmd EXCEPT ![c] = [version |-> v, role |-> r]]
       /\ orders' = orders \cup {cmd'[c]}
  /\ UNCHANGED <<place, patchVars, stray, emptied, patched, file, failed>>

(* In a project, where nothing is locked, one after the other.             *)
StartInit(c)   == place = "project" /\ Idle /\ Start(c, "check", {"Host", "Guest"})
StartCargo(c)  == place # "project" /\ Start(c, "lock", {place})
StartRemove(c) ==
  /\ place = "project" /\ Idle /\ Go(c, "idle", "checkRemove")
  /\ UNCHANGED <<place, patchVars, stray, emptied, patched, file, cmd, orders, failed>>

-----------------------------------------------------------------------------
(* telekio init, and what it shares with telekio cargo *)

(* Another patch of Tokio and files that are not Telekio's are refused;     *)
(* cargo itself refuses a manifest that is cut short.                      *)
CheckInit(c) ==
  /\ Go(c, "check", IF patched \in {"none", "telekio"} /\ ValidDestination THEN "current" ELSE "idle")
  /\ Rest /\ UNCHANGED <<patchVars, patched, file, failed>>

Prepared == IF place = "project" THEN "set" ELSE "config"

(* prepare_patch_with: done when the patch is current, out when that fails. *)
CheckCurrent(c) ==
  /\ Go(c, "current", CASE CurrentFails    -> "idle"
                        [] Current(cmd[c]) -> Prepared
                        [] OTHER           -> "fetch")
  /\ Rest /\ UNCHANGED <<patchVars, patched, file, failed>>

(* prepare_package writes a package that depends on Tokio unless there is a  *)
(* manifest already: one that is cut short is never completed.             *)
MakeSource(c) ==
  /\ source = "absent" /\ source' = "empty"
  /\ Go(c, "fetch", "fetch")
  /\ Rest /\ UNCHANGED <<files, dir, patched, file, failed>>

WriteSourceManifest(c) ==
  /\ source = "empty" /\ source' = "broken"
  /\ Go(c, "fetch", "sourceManifest")
  /\ Rest /\ UNCHANGED <<files, dir, patched, file, failed>>

SourceManifestWritten(c) ==
  /\ Go(c, "sourceManifest", "fetch")
  /\ source' = "ready"
  /\ Rest /\ UNCHANGED <<files, dir, patched, file, failed>>

(* Mistake: the directory is taken for granted.                            *)
FetchOnly(c) ==
  /\ source = "ready"
  /\ Go(c, "fetch", "truncate")
  /\ file' = [file EXCEPT ![c] = "Cargo.toml"]
  /\ Rest /\ UNCHANGED <<files, dir, source, patched, failed>>

(* cargo finds Tokio's sources, and write_patch makes the directory ...    *)
FetchSource(c) ==
  /\ source = "ready"
  /\ Go(c, "fetch", "truncate")
  /\ dir' = TRUE /\ file' = [file EXCEPT ![c] = "Cargo.toml"]
  /\ Rest /\ UNCHANGED <<files, source, patched, failed>>

(* ... or cargo fails: offline, or on a broken package.                    *)
FetchFails(c) ==
  /\ source \in {"broken", "ready"}
  /\ Go(c, "fetch", "idle")
  /\ failed' = TRUE
  /\ Rest /\ UNCHANGED <<patchVars, patched, file>>

Truncate(c) ==
  /\ Go(c, "truncate", "fill")
  /\ files' = [files EXCEPT ![file[c]] = Empty]
  /\ Rest /\ UNCHANGED <<dir, source, patched, file, failed>>

FileAfter(f) == IF f = "Cargo.toml" THEN "build.rs" ELSE "lib.rs"

Fill(c) ==
  /\ Go(c, "fill", IF file[c] = "lib.rs" THEN "clean" ELSE "truncate")
  /\ files' = [files EXCEPT ![file[c]] = cmd[c]]
  /\ file' = [file EXCEPT ![c] = FileAfter(@)]
  /\ Rest /\ UNCHANGED <<dir, source, patched, failed>>

(* Mistake: the sources are kept for the next time.                        *)
KeepSource(c) ==
  /\ Go(c, "clean", Prepared) /\ UNCHANGED source
  /\ Rest /\ UNCHANGED <<files, dir, patched, file, failed>>

(* remove_dir_all(source_cache), one file after the other.                 *)
RemoveSource(c) ==
  /\ \/ source = "ready" /\ source' \in {"broken", "empty"} /\ Go(c, "clean", "clean")
     \/ source' = "absent" /\ Go(c, "clean", Prepared)
  /\ Rest /\ UNCHANGED <<files, dir, patched, file, failed>>

(* fs::write of the project's manifest, with set_patch or remove_patch.    *)
CutManifest(c) ==
  /\ Go(c, "set", "setFill") \/ Go(c, "unset", "unsetFill")
  /\ patched' = "cut"
  /\ Rest /\ UNCHANGED <<patchVars, file, failed>>

SetPatch(c) ==
  /\ Go(c, "setFill", "idle")
  /\ patched' = "telekio"
  /\ Rest /\ UNCHANGED <<patchVars, file, failed>>

-----------------------------------------------------------------------------
(* telekio remove *)

(* Mistake: only the patch itself is validated.                            *)
CheckPatchOnly(c) ==
  /\ Go(c, "checkRemove", IF patched = "telekio" /\ ValidPatch THEN "unset" ELSE "idle")
  /\ Rest /\ UNCHANGED <<patchVars, patched, file, failed>>

CheckRemove(c) ==
  /\ Go(c, "checkRemove",
        IF patched = "telekio" /\ ValidPatch /\ ValidParent THEN "unset" ELSE "idle")
  /\ Rest /\ UNCHANGED <<patchVars, patched, file, failed>>

(* Mistake: the manifest keeps its patch until that is deleted.            *)
UnsetLater(c) ==
  /\ Go(c, "unsetFill", "delete")
  /\ patched' = "telekio"
  /\ Rest /\ UNCHANGED <<patchVars, file, failed>>

(* The manifest is written first, ...                                      *)
UnsetPatch(c) ==
  /\ Go(c, "unsetFill", "delete")
  /\ patched' = "none"
  /\ Rest /\ UNCHANGED <<patchVars, file, failed>>

(* ... then remove_dir_all of .telekio, in any order.                      *)
DeleteFile(c) ==
  /\ pc[c] = "delete"
  /\ \E f \in Files : files[f] # Absent /\ files' = [files EXCEPT ![f] = Absent]
  /\ Rest /\ UNCHANGED <<dir, source, patched, pc, file, failed>>

DeleteParent(c) ==
  /\ Go(c, "delete", "idle")
  /\ \A f \in Files : files[f] = Absent
  /\ dir' = FALSE /\ source' = "absent" /\ stray' = FALSE
  /\ UNCHANGED <<place, files, emptied, patched, file, cmd, orders, failed>>

-----------------------------------------------------------------------------
(* telekio cargo *)

(* Mistake: nobody waits for the lock.                                     *)
LockNothing(c) ==
  /\ Go(c, "lock", "current")
  /\ Rest /\ UNCHANGED <<patchVars, patched, file, failed>>

(* prepare_config: one process at a time prepares the cache.               *)
Lock(c) ==
  /\ Go(c, "lock", "current")
  /\ \A d \in Commands : pc[d] \in {"idle", "lock", "cargo"}
  /\ Rest /\ UNCHANGED <<patchVars, patched, file, failed>>

(* write_config, in every process: config.toml is the same for all of them, *)
(* but fs::write truncates it before it writes.                            *)
CutConfig(c) ==
  /\ Go(c, "config", "configFill")
  /\ emptied' = {c}
  /\ UNCHANGED <<place, patchVars, stray, patched, file, cmd, orders, failed>>

(* Then the lock is dropped, and cargo reads config.toml and the patch.     *)
WriteConfig(c) ==
  /\ Go(c, "configFill", "cargo")
  /\ emptied' = {}
  /\ UNCHANGED <<place, patchVars, stray, patched, file, cmd, orders, failed>>

CargoEnds(c) ==
  /\ Go(c, "cargo", "idle")
  /\ Rest /\ UNCHANGED <<patchVars, patched, file, failed>>

-----------------------------------------------------------------------------
(* The stages in which a command has not written anything yet, or all but   *)
(* config.toml, which the next one writes again.                           *)
Harmless == {"check", "lock", "current", "checkRemove", "config", "configFill", "cargo"}

(* An interrupt, or a write that fails; the lock goes with the process.    *)
Interrupt(c) ==
  /\ pc[c] # "idle"
  /\ pc' = [pc EXCEPT ![c] = "idle"]
  /\ failed' = (failed \/ pc[c] \notin Harmless)
  /\ Rest /\ UNCHANGED <<patchVars, patched, file>>

(* The user puts a file of his own beside the patch or in the place of one  *)
(* of its files, while no command runs.                                    *)
AddFile ==
  /\ place = "project" /\ Idle
  /\ ~stray /\ \A f \in Files : files[f] # Foreign
  /\ \/ stray' = TRUE /\ UNCHANGED files
     \/ dir /\ UNCHANGED stray /\ \E f \in Files : files' = [files EXCEPT ![f] = Foreign]
  /\ UNCHANGED <<place, dir, source, emptied, patched, pc, file, cmd, orders, failed>>

Step(c) ==
  \/ CheckInit(c) \/ CheckCurrent(c) \/ MakeSource(c)
  \/ WriteSourceManifest(c) \/ SourceManifestWritten(c) \/ FetchSource(c) \/ FetchFails(c)
  \/ Truncate(c) \/ Fill(c) \/ RemoveSource(c) \/ CutManifest(c) \/ SetPatch(c)
  \/ CheckRemove(c) \/ UnsetPatch(c) \/ DeleteFile(c) \/ DeleteParent(c)
  \/ Lock(c) \/ CutConfig(c) \/ WriteConfig(c) \/ CargoEnds(c)

Next ==
  \/ \E c \in Commands :
       StartInit(c) \/ StartRemove(c) \/ StartCargo(c) \/ Step(c) \/ Interrupt(c)
  \/ AddFile

Spec == Init /\ [][Next]_vars

-----------------------------------------------------------------------------
(* All three files are of one command, but for what the user replaced.     *)
Complete(o) == \A f \in Files : files[f] \in {o, Foreign}

(* Telekio was upgraded, or the project's role changed.                    *)
Upgraded == Cardinality(orders) > 1

(* A project whose manifest names the patch has all of it, whatever failed  *)
(* half way: init writes the manifest last and remove writes it first.  An *)
(* upgrade that fails breaks this, it writes over the patch in use.        *)
PatchedIsComplete ==
  patched = "telekio" /\ Idle => (\E o \in orders : Complete(o)) \/ (failed /\ Upgraded)

(* What patch_current accepts or write_patch has written is complete, also  *)
(* when another process was interrupted before.  In a project, because the *)
(* sources it left beside the patch make validate_parent refuse the lot;   *)
(* in the cache patch_current finds the leftovers, but for those of an     *)
(* upgrade, and of a guest, whose empty file is no host's.                 *)
ReadyIsComplete ==
  \A c \in Commands : pc[c] \in {"set", "config", "configFill"} =>
    \/ Complete(cmd[c])
    \/ place # "project" /\ failed /\ (Upgraded \/ place # "Host")

(* The lock is dropped before cargo reads.  The patch it reads is that of   *)
(* its command, nobody writes to it meanwhile as long as all processes are *)
(* of one version.  config.toml names it, unless some other process, of    *)
(* this version or not, has truncated it since, which every one does.      *)
CargoReadsItsPatch ==
  \A c \in Commands : pc[c] = "cargo" =>
    /\ \/ Complete(cmd[c])
       \/ Upgraded \/ (failed /\ place # "Host")
    /\ emptied = {} \/ \E d \in Commands \ {c} : emptied = {d}

(* What does not hold: cargo always finds the patch named.                 *)
CargoFindsItsPatch == \A c \in Commands : pc[c] = "cargo" => emptied = {}

(* Commands that succeeded leave nothing that Telekio refuses to work with; *)
(* only a file of the user's is refused then.                              *)
SuccessIsRepeatable ==
  Idle /\ ~failed => \/ ValidDestination /\ ~CurrentFails /\ patched # "cut"
                     \/ stray \/ \E f \in Files : files[f] = Foreign

(* No command deletes or overwrites a file of the user.                    *)
ForeignKept ==
  [][/\ stray => stray'
     /\ \A f \in Files : files[f] = Foreign => files'[f] = Foreign]_vars
===============================================================================
