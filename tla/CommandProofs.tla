----------------------------- MODULE CommandProofs -----------------------------
(***************************************************************************)
(* What PatchFiles promises, for any number of commands and versions: to    *)
(* the user's own files, and to those who build with the patch; and what     *)
(* CommandLine promises of the Cargo commands that telekio runs, for any      *)
(* workspace, aliases and regular arguments.                                 *)
(***************************************************************************)
EXTENDS PatchFiles, CommandLine, FiniteSetTheorems, WellFoundedInduction, SequenceTheorems, TLAPS

HasForeign == stray \/ \E f \in Files : files[f] = Foreign

(* With a file of the user there, no command is past its validation.       *)
Untouched ==
  HasForeign => /\ place = "project"
                /\ \A c \in Commands : pc[c] \in {"idle", "check", "checkRemove"}

(* The files are written after their directory was made.                   *)
WritesInDir == \A c \in Commands : pc[c] \in {"truncate", "fill"} => dir

PInv == TypeOK /\ Untouched /\ WritesInDir

-----------------------------------------------------------------------------
(* The contents that Telekio writes, finds and never writes are distinct.  *)
LEMMA Contents ==
  /\ Foreign \notin Written /\ Absent \notin Written /\ Empty \notin Written
  /\ Foreign # Absent /\ Foreign # Empty /\ Absent # Empty
<1>1. Foreign.role = "user" /\ Absent.role = "absent" /\ Empty.role = "empty"
  BY DEF Foreign, Absent, Empty
<1>2. \A o \in Written : o.role \in {"Host", "Guest", "Mixed"}
  BY DEF Written, Roles
<1> QED BY <1>1, <1>2

(* Every file starts absent and no command runs.                           *)
LEMMA PatchInit == Init => PInv
<1> SUFFICES ASSUME Init PROVE PInv
  OBVIOUS
<1> DEFINE first == CHOOSE o \in Written : TRUE
<1>1. first \in Written
  <2>1. PICK v \in Versions : TRUE
    BY PatchAssumption
  <2>2. [version |-> v, role |-> "Host"] \in Written
    BY <2>1 DEF Written, Roles
  <2> QED BY <2>2
<1>2. TypeOK
  BY <1>1 DEF Init, TypeOK, Stages, Files
<1>3. ~HasForeign
  BY Contents DEF Init, HasForeign
<1>4. WritesInDir
  BY DEF Init, WritesInDir
<1> QED BY <1>2, <1>3, <1>4 DEF PInv, Untouched

-----------------------------------------------------------------------------
AtWork(d) == pc[d] \notin {"idle", "lock", "cargo"}
Guarded   == {"idle", "check", "checkRemove"}

(* A step that leaves the patch's files alone and brings c to a stage where *)
(* it may be.                                                              *)
LEMMA Moved ==
  ASSUME PInv, NEW c \in Commands, NEW to \in Stages,
         pc' = [pc EXCEPT ![c] = to],
         UNCHANGED <<place, files, dir, stray>>,
         source' \in {"absent", "empty", "broken", "ready"}, failed' \in BOOLEAN,
         patched' \in {"none", "telekio", "other", "cut"}, emptied' \subseteq Commands,
         file' \in [Commands -> Files], cmd' \in [Commands -> Written], orders' \subseteq Written,
         \/ to \in {"idle", "lock", "cargo"}
         \/ AtWork(c)
         \/ \A d \in Commands : ~AtWork(d),
         HasForeign => to \in Guarded,
         to \in {"truncate", "fill"} => dir
  PROVE  PInv'
<1>1. pc' \in [Commands -> Stages]
  BY DEF PInv, TypeOK
<1>2. \A d, e \in Commands : AtWork(d)' /\ AtWork(e)' => d = e
  BY DEF PInv, TypeOK, AtWork
<1>3. TypeOK'
  BY <1>1, <1>2 DEF PInv, TypeOK, AtWork
<1>4. Untouched'
  BY DEF PInv, TypeOK, Untouched, HasForeign, Guarded
<1>5. WritesInDir'
  BY DEF PInv, TypeOK, WritesInDir
<1> QED BY <1>3, <1>4, <1>5 DEF PInv

(* Starting a command: in a project it is the only one.                    *)
LEMMA Starts ==
  ASSUME PInv, NEW c \in Commands, StartInit(c) \/ StartRemove(c) \/ StartCargo(c)
  PROVE  PInv'
<1>1. ASSUME NEW to, NEW roles \in SUBSET Roles, Start(c, to, roles)
      PROVE  cmd' \in [Commands -> Written] /\ orders' \subseteq Written
  <2>1. PICK v \in Versions, r \in roles :
          /\ cmd' = [cmd EXCEPT ![c] = [version |-> v, role |-> r]]
          /\ orders' = orders \cup {cmd'[c]}
    BY <1>1 DEF Start
  <2>2. [version |-> v, role |-> r] \in Written
    BY <2>1 DEF Written
  <2> QED BY <2>1, <2>2 DEF PInv, TypeOK
<1>2. CASE StartInit(c)
  <2>1. Start(c, "check", {"Host", "Guest"}) /\ Idle
    BY <1>2 DEF StartInit
  <2>2. cmd' \in [Commands -> Written] /\ orders' \subseteq Written
    BY <2>1, <1>1 DEF Roles
  <2> QED
    BY <2>1, <2>2, Moved DEF Start, Go, Idle, patchVars, PInv, TypeOK, AtWork, Guarded, Stages
<1>3. CASE StartRemove(c)
  BY <1>3, Moved DEF StartRemove, Go, Idle, patchVars, PInv, TypeOK, AtWork, Guarded, Stages
<1>4. CASE StartCargo(c)
  <2>1. Start(c, "lock", {place}) /\ place # "project"
    BY <1>4 DEF StartCargo
  <2>2. cmd' \in [Commands -> Written] /\ orders' \subseteq Written
    BY <2>1, <1>1 DEF PInv, TypeOK
  <2>3. ~HasForeign
    BY <2>1 DEF PInv, Untouched
  <2> QED
    BY <2>1, <2>2, <2>3, Moved DEF Start, Go, patchVars, PInv, TypeOK, AtWork, Stages
<1> QED BY <1>2, <1>3, <1>4

(* Validation: a file of the user ends the command.                        *)
LEMMA ForeignIsInvalid ==
  ASSUME PInv, HasForeign
  PROVE  ~ValidDestination /\ ~(ValidPatch /\ ValidParent)
<1>1. stray => ~ValidParent
  BY DEF ValidParent
<1>2. (\E f \in Files : files[f] = Foreign) => dir /\ ~ValidPatch
  BY Contents DEF PInv, TypeOK, ValidPatch
<1> QED BY <1>1, <1>2 DEF HasForeign, ValidDestination

(* The steps that read, and those that write beside the patch.             *)
LEMMA Moves ==
  ASSUME PInv, NEW c \in Commands,
         \/ CheckInit(c) \/ CheckCurrent(c) \/ MakeSource(c) \/ WriteSourceManifest(c)
         \/ SourceManifestWritten(c) \/ FetchFails(c) \/ RemoveSource(c)
         \/ CutManifest(c) \/ SetPatch(c) \/ CheckRemove(c) \/ UnsetPatch(c)
         \/ Lock(c) \/ CutConfig(c) \/ WriteConfig(c) \/ CargoEnds(c) \/ Interrupt(c)
  PROVE  PInv'
<1>a. ASSUME Rest, UNCHANGED <<patchVars, patched, file, failed>>
      PROVE  /\ UNCHANGED <<place, files, dir, stray>>
             /\ source' \in {"absent", "empty", "broken", "ready"} /\ failed' \in BOOLEAN
             /\ patched' \in {"none", "telekio", "other", "cut"}
             /\ file' \in [Commands -> Files] /\ cmd' \in [Commands -> Written]
             /\ orders' \subseteq Written /\ emptied' \subseteq Commands
  BY <1>a DEF Rest, patchVars, PInv, TypeOK
<1>1. CASE CheckInit(c)
  <2>1. PICK to \in {"idle", "current"} :
          Go(c, "check", to) /\ (HasForeign => to = "idle")
    BY <1>1, ForeignIsInvalid DEF CheckInit
  <2>2. AtWork(c) /\ pc' = [pc EXCEPT ![c] = to]
    BY <2>1 DEF Go, AtWork
  <2> QED BY <1>1, <1>a, <2>1, <2>2, Moved DEF CheckInit, Stages, Guarded
<1>2. CASE CheckRemove(c)
  <2>1. PICK to \in {"idle", "unset"} :
          Go(c, "checkRemove", to) /\ (HasForeign => to = "idle")
    BY <1>2, ForeignIsInvalid DEF CheckRemove
  <2>2. AtWork(c) /\ pc' = [pc EXCEPT ![c] = to]
    BY <2>1 DEF Go, AtWork
  <2> QED BY <1>2, <1>a, <2>1, <2>2, Moved DEF CheckRemove, Stages, Guarded
<1>3. CASE CheckCurrent(c)
  <2> DEFINE to == CASE CurrentFails    -> "idle"
                    [] Current(cmd[c]) -> Prepared
                    [] OTHER           -> "fetch"
  <2>1. to \in {"idle", "set", "config", "fetch"}
    BY DEF Prepared
  <2>2. Go(c, "current", to) /\ Rest /\ UNCHANGED <<patchVars, patched, file, failed>>
    BY <1>3 DEF CheckCurrent
  <2> HIDE DEF to
  <2>3. AtWork(c) /\ ~HasForeign /\ pc' = [pc EXCEPT ![c] = to]
    BY <2>2 DEF Go, AtWork, PInv, Untouched
  <2> QED BY <1>a, <2>1, <2>2, <2>3, Moved DEF Stages
<1> USE DEF Go, Rest, patchVars, PInv, TypeOK, AtWork, Stages, Guarded, Untouched
<1>4. CASE MakeSource(c) \/ WriteSourceManifest(c) \/ SourceManifestWritten(c)
  <2>1. CASE MakeSource(c)
    BY <2>1, Moved DEF MakeSource
  <2>2. CASE WriteSourceManifest(c)
    BY <2>2, Moved DEF WriteSourceManifest
  <2>3. CASE SourceManifestWritten(c)
    BY <2>3, Moved DEF SourceManifestWritten
  <2> QED BY <1>4, <2>1, <2>2, <2>3
<1>5. CASE FetchFails(c)
  BY <1>5, Moved DEF FetchFails
<1>6. CASE RemoveSource(c)
  BY <1>6, Moved DEF RemoveSource, Prepared
<1>7. CASE CutManifest(c) \/ SetPatch(c) \/ UnsetPatch(c)
  <2>1. CASE CutManifest(c)
    BY <2>1, Moved DEF CutManifest
  <2>2. CASE SetPatch(c)
    BY <2>2, Moved DEF SetPatch
  <2>3. CASE UnsetPatch(c)
    BY <2>3, Moved DEF UnsetPatch
  <2> QED BY <1>7, <2>1, <2>2, <2>3
<1>8. CASE Lock(c)
  BY <1>8, Moved DEF Lock
<1>9. CASE CutConfig(c) \/ WriteConfig(c) \/ CargoEnds(c)
  <2>1. CASE WriteConfig(c)
    BY <2>1, Moved DEF WriteConfig
  <2>2. CASE CargoEnds(c)
    BY <2>2, Moved DEF CargoEnds
  <2>3. CASE CutConfig(c)
    <3>1. AtWork(c) /\ ~HasForeign /\ emptied' \subseteq Commands
      BY <2>3 DEF CutConfig
    <3>2. pc' = [pc EXCEPT ![c] = "configFill"] /\ "configFill" \in Stages
      BY <2>3 DEF CutConfig
    <3> QED BY <2>3, <3>1, <3>2, Moved DEF CutConfig
  <2> QED BY <1>9, <2>1, <2>2, <2>3
<1>10. CASE Interrupt(c)
  BY <1>10, Moved DEF Interrupt
<1> QED BY <1>1, <1>2, <1>3, <1>4, <1>5, <1>6, <1>7, <1>8, <1>9, <1>10

(* The steps of a command that write to the patch: nothing of the user's is *)
(* there, and nothing is added.                                            *)
LEMMA Writes ==
  ASSUME PInv, NEW c \in Commands,
         FetchSource(c) \/ Truncate(c) \/ Fill(c) \/ DeleteFile(c) \/ DeleteParent(c)
  PROVE  PInv' /\ ~HasForeign
<1>1. ~HasForeign
  BY DEF FetchSource, Truncate, Fill, DeleteFile, DeleteParent, Go, PInv, Untouched
<1>2. AtWork(c) /\ \A d \in Commands \ {c} : ~AtWork(d)
  BY DEF FetchSource, Truncate, Fill, DeleteFile, DeleteParent, Go, PInv, TypeOK, AtWork
<1>3. pc' \in [Commands -> Stages] /\ \A d \in Commands \ {c} : pc'[d] = pc[d]
  BY DEF FetchSource, Truncate, Fill, DeleteFile, DeleteParent, Go, PInv, TypeOK, Stages
<1>4. \A d, e \in Commands : AtWork(d)' /\ AtWork(e)' => d = e
  BY <1>2, <1>3 DEF AtWork
<1>5. CASE FetchSource(c)
  <2>1. TypeOK'
    BY <1>3, <1>4, <1>5 DEF FetchSource, Rest, PInv, TypeOK, AtWork, Files
  <2>2. ~HasForeign' /\ WritesInDir'
    BY <1>1, <1>5 DEF FetchSource, Rest, HasForeign, WritesInDir
  <2> QED BY <1>1, <2>1, <2>2 DEF PInv, Untouched
<1>6. CASE Truncate(c) \/ Fill(c)
  <2>1. dir /\ dir' /\ UNCHANGED <<place, stray, emptied, cmd, orders, source, patched, failed>>
    BY <1>6 DEF Truncate, Fill, Go, Rest, PInv, WritesInDir
  <2>2. PICK o \in Written \cup {Empty} : files' = [files EXCEPT ![file[c]] = o]
    BY <1>6 DEF Truncate, Fill, PInv, TypeOK
  <2>3. /\ files' \in [Files -> Written \cup {Absent, Empty, Foreign}]
        /\ \A f \in Files : files'[f] \in {files[f], o}
    BY <2>2 DEF PInv, TypeOK
  <2>4. file' \in [Commands -> Files]
    BY <1>6 DEF Truncate, Fill, FileAfter, Files, PInv, TypeOK
  <2>5. TypeOK'
    BY <1>3, <1>4, <2>1, <2>3, <2>4 DEF PInv, TypeOK, AtWork
  <2>6. ~HasForeign' /\ WritesInDir'
    BY <1>1, <2>1, <2>3, Contents DEF HasForeign, WritesInDir
  <2> QED BY <1>1, <2>5, <2>6 DEF PInv, Untouched
<1>7. CASE DeleteFile(c)
  <2>1. /\ files' \in [Files -> Written \cup {Absent, Empty, Foreign}]
        /\ \A f \in Files : files'[f] \in {files[f], Absent}
    BY <1>7 DEF DeleteFile, PInv, TypeOK
  <2>2. TypeOK'
    BY <1>3, <1>4, <1>7, <2>1 DEF DeleteFile, Rest, PInv, TypeOK, AtWork
  <2>3. ~HasForeign' /\ WritesInDir'
    BY <1>1, <1>7, <2>1, Contents DEF DeleteFile, Rest, HasForeign, PInv, WritesInDir
  <2> QED BY <1>1, <2>2, <2>3 DEF PInv, Untouched
<1>8. CASE DeleteParent(c)
  <2>1. TypeOK'
    BY <1>3, <1>4, <1>8 DEF DeleteParent, PInv, TypeOK, AtWork
  <2>2. ~HasForeign'
    BY <1>8, Contents DEF DeleteParent, HasForeign
  <2>3. WritesInDir'
    BY <1>2, <1>3, <1>8 DEF DeleteParent, Go, PInv, TypeOK, WritesInDir, AtWork
  <2> QED BY <1>1, <2>1, <2>2, <2>3 DEF PInv, Untouched
<1> QED BY <1>5, <1>6, <1>7, <1>8

(* The user's own step is taken when no command runs.                      *)
LEMMA UserStep == PInv /\ AddFile => PInv'
<1> SUFFICES ASSUME PInv, AddFile PROVE PInv'
  OBVIOUS
<1>1. /\ files' \in [Files -> Written \cup {Absent, Empty, Foreign}]
      /\ ~dir => files' = files
  BY DEF AddFile, PInv, TypeOK
<1>2. TypeOK'
  BY <1>1 DEF AddFile, PInv, TypeOK
<1>3. Untouched' /\ WritesInDir'
  BY DEF AddFile, Idle, Untouched, WritesInDir
<1> QED BY <1>2, <1>3 DEF PInv

LEMMA PatchNext == PInv /\ [Next]_vars => PInv'
<1> SUFFICES ASSUME PInv, [Next]_vars PROVE PInv'
  OBVIOUS
<1>1. CASE UNCHANGED vars
  BY <1>1 DEF vars, patchVars, PInv, TypeOK, Untouched, HasForeign, WritesInDir
<1>2. CASE AddFile
  BY <1>2, UserStep
<1>3. ASSUME NEW c \in Commands,
             StartInit(c) \/ StartRemove(c) \/ StartCargo(c) \/ Step(c) \/ Interrupt(c)
      PROVE  PInv'
  BY <1>3, Starts, Moves, Writes DEF Step
<1> QED BY <1>1, <1>2, <1>3 DEF Next

-----------------------------------------------------------------------------
THEOREM PatchInvariant == Spec => []PInv
BY PatchInit, PatchNext, PTL DEF Spec

(* One command at a time is at work on the directory, in a project because *)
(* they are run one after the other, in the cache because of the lock of   *)
(* prepare_config; and the directory exists when its files do.             *)
THEOREM OneAtWork == Spec => []TypeOK
<1>1. PInv => TypeOK
  BY DEF PInv
<1> QED BY <1>1, PatchInvariant, PTL

(* No command of any version deletes or overwrites a file of the user: what *)
(* validate_destination, validate_patch and validate_parent refuse is all   *)
(* that init and remove could touch.                                       *)
THEOREM UserFilesKept == Spec => ForeignKept
<1> DEFINE Keeps == /\ stray => stray'
                    /\ \A f \in Files : files[f] = Foreign => files'[f] = Foreign
<1>1. PInv /\ [Next]_vars => [Keeps]_vars
  <2> SUFFICES ASSUME PInv, Next PROVE Keeps
    BY DEF vars
  <2>1. CASE AddFile
    BY <2>1 DEF AddFile, PInv, TypeOK
  <2>2. ASSUME NEW c \in Commands,
               FetchSource(c) \/ Truncate(c) \/ Fill(c) \/ DeleteFile(c) \/ DeleteParent(c)
        PROVE  Keeps
    BY <2>2, Writes DEF HasForeign
  <2>3. ASSUME NEW c \in Commands, UNCHANGED <<stray, files>>
        PROVE  Keeps
    BY <2>3
  <2>4. ASSUME NEW c \in Commands, StartInit(c) \/ StartRemove(c) \/ StartCargo(c) \/ Interrupt(c)
        PROVE  UNCHANGED <<stray, files>>
    BY <2>4 DEF StartInit, StartRemove, StartCargo, Start, Interrupt, Rest, patchVars
  <2>5. ASSUME NEW c \in Commands,
               \/ CheckInit(c) \/ CheckCurrent(c) \/ MakeSource(c) \/ WriteSourceManifest(c)
               \/ SourceManifestWritten(c) \/ FetchFails(c) \/ RemoveSource(c)
               \/ CutManifest(c) \/ SetPatch(c) \/ CheckRemove(c) \/ UnsetPatch(c)
               \/ Lock(c) \/ CutConfig(c) \/ WriteConfig(c) \/ CargoEnds(c)
        PROVE  UNCHANGED <<stray, files>>
    BY <2>5 DEF CheckInit, CheckCurrent, MakeSource, WriteSourceManifest,
      SourceManifestWritten, FetchFails, RemoveSource, CutManifest, SetPatch, CheckRemove,
      UnsetPatch, Lock, CutConfig, WriteConfig, CargoEnds, Rest, patchVars
  <2> QED BY <2>1, <2>2, <2>3, <2>4, <2>5 DEF Next, Step
<1> QED BY <1>1, PatchInvariant, PTL DEF Spec, ForeignKept
-----------------------------------------------------------------------------
(* What the patch is worth to those who build with it.  Several versions or *)
(* roles have written to it, or some command failed in a cache whose roles   *)
(* a file alone does not tell.                                              *)
Several == \E o, p \in orders : o # p
Unsure  == Several \/ (failed /\ place # "Host")
Good    == (\E o \in orders : Complete(o)) \/ (failed /\ Several)
Whole(c) == \A f \in Files : files[f] = cmd[c]

(* What a stage stands for: who runs, what it was started for ...           *)
Known ==
  /\ IsFiniteSet(orders)
  /\ \A f \in Files : files[f] \in Written => files[f] \in orders
  /\ \A c \in Commands :
       pc[c] \notin {"idle", "checkRemove", "unset", "unsetFill", "delete"} => cmd[c] \in orders
Placed ==
  /\ place # "project" => patched = "none" /\ \A o \in orders : o.role = place
  /\ \A c \in Commands :
       /\ pc[c] \in {"check", "set", "setFill", "checkRemove", "unset", "unsetFill", "delete"}
            => place = "project"
       /\ pc[c] \in {"lock", "config", "configFill", "cargo"} => place # "project"

(* ... and how much of the patch it has written.                            *)
Writers   == {"truncate", "fill"}
Replacing == {"fetch", "sourceManifest"} \cup Writers
Progress ==
  \A c \in Commands :
    /\ pc[c] \in Writers =>
         /\ source = "ready"
         /\ file[c] # "Cargo.toml" => files["Cargo.toml"] = cmd[c]
         /\ file[c] = "lib.rs" => files["build.rs"] = cmd[c]
    /\ pc[c] \in {"clean", "setFill"} => Whole(c)
    /\ pc[c] \in {"set", "config", "configFill"} =>
         Whole(c) \/ (place # "project" /\ failed /\ (Several \/ place # "Host"))

(* A project whose patch is validated has it from one command, and so has   *)
(* a cache in which nobody failed.                                         *)
Uniform ==
  /\ place = "project" /\ source = "absent" =>
       \A f, g \in Files : files[f] \in Written /\ files[g] \in Written => files[f] = files[g]
  /\ \A c \in Commands : place = "project" /\ pc[c] = "current" => ValidDestination
  /\ place # "project" /\ ~failed /\ (\A c \in Commands : pc[c] \notin Writers) =>
       \A f, g \in Files : files[f] = files[g]

(* A patch in use is written over in an upgrade only.                       *)
Named ==
  /\ patched = "telekio" => Good \/ (Several /\ \E c \in Commands : pc[c] \in Writers)
  /\ \A c \in Commands :
       /\ pc[c] \in Replacing /\ patched = "telekio" => Several
       /\ pc[c] = "delete" => patched # "telekio"
Reading ==
  \A c \in Commands : pc[c] = "cargo" =>
    /\ Whole(c) \/ Unsure
    /\ \A d \in Commands : pc[d] \in Replacing => Unsure

(* Who has truncated the configuration of cargo is not the one who reads it, *)
(* having written it last.                                                  *)
Emptied == \A c \in emptied : emptied = {c} /\ pc[c] # "cargo"

CInv == Known /\ Placed /\ Progress /\ Uniform /\ Named /\ Reading /\ Emptied

-----------------------------------------------------------------------------
(* Orders that are several are more than one, and the other way round.      *)
LEMMA SeveralIsMany == IsFiniteSet(orders) => (Several => Upgraded)
<1> SUFFICES ASSUME IsFiniteSet(orders), Several PROVE Upgraded
  OBVIOUS
<1>1. PICK o, p \in orders : o # p
  BY DEF Several
<1>2. IsFiniteSet({o, p}) /\ Cardinality({o, p}) = 2
  <2>1. IsFiniteSet({o}) /\ Cardinality({o}) = 1
    BY FS_Singleton
  <2>2. {o} \cup {p} = {o, p} /\ p \notin {o}
    BY <1>1
  <2> QED BY <2>1, <2>2, FS_AddElement
<1>3. Cardinality({o, p}) <= Cardinality(orders) /\ Cardinality(orders) \in Nat
  BY <1>1, <1>2, FS_Subset, FS_CardinalityType
<1> QED BY <1>2, <1>3 DEF Upgraded

LEMMA CompleteInit == Init => CInv
<1> SUFFICES ASSUME Init PROVE CInv
  OBVIOUS
<1>1. Known
  BY FS_EmptySet, Contents DEF Init, Known
<1>2. Placed
  BY DEF Init, Placed
<1>3. Progress /\ Reading /\ Named
  BY DEF Init, Progress, Reading, Named, Writers, Replacing
<1>4. Uniform /\ Emptied
  BY DEF Init, Uniform, Emptied
<1> QED BY <1>1, <1>2, <1>3, <1>4 DEF CInv

-----------------------------------------------------------------------------
(* A step of c that leaves the patch's files alone, and what the stage that  *)
(* it comes to asks for.                                                    *)
Quietly(c, to) ==
  /\ pc' = [pc EXCEPT ![c] = to] /\ UNCHANGED <<place, files, stray, cmd, orders>>
  /\ failed => failed'
  /\ UNCHANGED <<source, dir>> \/ AtWork(c)
  /\ \A d \in Commands \ {c} : file'[d] = file[d]
  /\ to \notin {"idle", "checkRemove", "unset", "unsetFill", "delete"} => cmd[c] \in orders
  /\ to \in {"check", "set", "setFill", "checkRemove", "unset", "unsetFill", "delete"}
       => place = "project"
  /\ to \in {"lock", "config", "configFill", "cargo"} => place # "project"
  /\ to \in Writers => source' = "ready" /\ file'[c] = "Cargo.toml"
  /\ to \in {"clean", "setFill"} => Whole(c)
  /\ to \in {"set", "config", "configFill"} =>
       Whole(c) \/ (place # "project" /\ failed /\ (Several \/ place # "Host"))
  /\ source' = "absent" => source = "absent" \/ Whole(c)
  /\ place = "project" /\ to = "current" => ValidDestination'
  /\ to \in Writers \/ failed' \/ pc[c] \notin Writers
  /\ \/ patched' = patched
     \/ AtWork(c) /\ (patched' # "telekio" \/ (Whole(c) /\ cmd[c] \in orders))
  /\ place # "project" => patched' = patched
  /\ to \in Replacing /\ patched' = "telekio" => Several
  /\ to = "delete" => patched' # "telekio"
  /\ pc[c] \in Writers /\ to \notin Writers /\ patched' = "telekio" => failed' /\ Several
  /\ to = "cargo" => AtWork(c) /\ (Whole(c) \/ Unsure)
  /\ to \in Replacing => \A d \in Commands : pc[d] = "cargo" => Unsure
  /\ IF to = "cargo" THEN emptied' = {} ELSE emptied' = emptied \/ emptied' = {c}

LEMMA Quiet ==
  ASSUME PInv, CInv, NEW c \in Commands, NEW to \in Stages, Quietly(c, to)
  PROVE  CInv'
<1>1. /\ pc'[c] = to /\ \A d \in Commands \ {c} : pc'[d] = pc[d]
      /\ UNCHANGED <<place, files, stray, cmd, orders>> /\ (failed => failed')
      /\ \A d \in Commands \ {c} : file'[d] = file[d]
  BY DEF Quietly, PInv, TypeOK
<1>2. \A d \in Commands : Whole(d)' <=> Whole(d)
  BY <1>1 DEF Whole
<1>3. (Several' <=> Several) /\ (Unsure => Unsure') /\ (Good => Good')
  BY <1>1 DEF Several, Unsure, Good, Complete
<1>4. UNCHANGED <<source, dir>> \/ \A d \in Commands \ {c} : pc[d] \in {"idle", "lock", "cargo"}
  BY DEF Quietly, AtWork, PInv, TypeOK
<1>5. Known'
  BY <1>1 DEF CInv, Known, Quietly
<1>6. Placed'
  BY <1>1 DEF CInv, Placed, Quietly
<1>7. Progress'
  <2>1. ASSUME NEW d \in Commands \ {c}
        PROVE  /\ pc'[d] \in Writers =>
                    /\ source' = "ready"
                    /\ file'[d] # "Cargo.toml" => files'["Cargo.toml"] = cmd'[d]
                    /\ file'[d] = "lib.rs" => files'["build.rs"] = cmd'[d]
               /\ pc'[d] \in {"clean", "setFill"} => Whole(d)'
               /\ pc'[d] \in {"set", "config", "configFill"} =>
                    Whole(d)' \/ (place' # "project" /\ failed' /\ (Several' \/ place' # "Host"))
    BY <1>1, <1>2, <1>3, <1>4, <2>1 DEF CInv, Progress, Writers
  <2>2. /\ to \in Writers => source' = "ready" /\ file'[c] = "Cargo.toml"
        /\ to \in {"clean", "setFill"} => Whole(c)'
        /\ to \in {"set", "config", "configFill"} =>
             Whole(c)' \/ (place' # "project" /\ failed' /\ (Several' \/ place' # "Host"))
    BY <1>1, <1>2, <1>3 DEF Quietly
  <2> QED BY <1>1, <2>1, <2>2 DEF Progress
<1>8. Uniform'
  <2>1. place = "project" /\ source' = "absent" =>
          \A f, g \in Files : files[f] \in Written /\ files[g] \in Written => files[f] = files[g]
    BY DEF CInv, Uniform, Quietly, Whole
  <2>2. \A d \in Commands : place' = "project" /\ pc'[d] = "current" => ValidDestination'
    <3>1. place = "project" /\ pc'[c] = "current" => ValidDestination'
      BY <1>1 DEF Quietly
    <3>2. ASSUME NEW d \in Commands \ {c}, place' = "project" /\ pc'[d] = "current"
          PROVE  ValidDestination'
      <4>1. ValidDestination /\ UNCHANGED <<source, dir>>
        BY <1>1, <1>4, <3>2 DEF CInv, Uniform
      <4> QED BY <1>1, <4>1 DEF ValidDestination, ValidParent, ValidPatch
    <3> QED BY <1>1, <3>1, <3>2
  <2>3. place # "project" /\ ~failed' /\ (\A d \in Commands : pc'[d] \notin Writers) =>
          \A d \in Commands : pc[d] \notin Writers
    BY <1>1 DEF Quietly
  <2> QED BY <1>1, <2>1, <2>2, <2>3 DEF CInv, Uniform, Quietly
<1>9. Named'
  <2>1. ASSUME patched' = "telekio"
        PROVE  Good' \/ (Several' /\ \E d \in Commands : pc'[d] \in Writers)
    <3>1. CASE Whole(c) /\ cmd[c] \in orders
      BY <1>1, <3>1 DEF Good, Complete, Whole
    <3>2. CASE patched = "telekio"
      <4>1. CASE \E d \in Commands : pc[d] \in Writers /\ Several
        <5>1. PICK d \in Commands : pc[d] \in Writers
          BY <4>1
        <5>2. pc'[d] \in Writers \/ (failed' /\ Several)
          BY <1>1, <2>1, <5>1 DEF Quietly
        <5> QED BY <1>3, <4>1, <5>2 DEF Good
      <4> QED BY <1>3, <3>2, <4>1 DEF CInv, Named
    <3> QED BY <2>1, <3>1, <3>2 DEF Quietly
  <2>2. \A d \in Commands \ {c} :
          /\ pc'[d] \in Replacing /\ patched' = "telekio" => Several'
          /\ pc'[d] = "delete" => patched' # "telekio"
    <3>1. CASE patched' = patched
      BY <1>1, <1>3, <3>1 DEF CInv, Named
    <3>2. CASE \A d \in Commands \ {c} : pc[d] \in {"idle", "lock", "cargo"}
      BY <1>1, <3>2 DEF Replacing, Writers
    <3>3. AtWork(c) => \A d \in Commands \ {c} : pc[d] \in {"idle", "lock", "cargo"}
      BY DEF AtWork, PInv, TypeOK
    <3> QED BY <3>1, <3>2, <3>3 DEF Quietly
  <2> QED BY <1>1, <1>3, <2>1, <2>2 DEF Named, Quietly
<1>10. Reading'
  <2>1. \A d \in Commands : pc'[d] = "cargo" => Whole(d)' \/ Unsure'
    BY <1>1, <1>2, <1>3 DEF CInv, Reading, Quietly
  <2>2. ASSUME NEW d \in Commands, NEW e \in Commands, pc'[d] = "cargo", pc'[e] \in Replacing
        PROVE  Unsure'
    <3>1. CASE e = c
      <4>1. d # c
        BY <1>1, <2>2, <3>1 DEF Replacing, Writers
      <4> QED BY <1>1, <1>3, <2>2, <3>1, <4>1 DEF Quietly
    <3>2. CASE e # c /\ d # c
      BY <1>1, <1>3, <2>2, <3>2 DEF CInv, Reading
    <3>3. CASE e # c /\ d = c
      BY <1>1, <2>2, <3>3 DEF Quietly, AtWork, PInv, TypeOK, Replacing, Writers
    <3> QED BY <3>1, <3>2, <3>3
  <2> QED BY <2>1, <2>2 DEF Reading
<1>11. Emptied'
  BY <1>1 DEF CInv, Emptied, Quietly, PInv, TypeOK
<1> QED BY <1>5, <1>6, <1>7, <1>8, <1>9, <1>10, <1>11 DEF CInv

(* The stages that only look: a validated patch of a project is whole when  *)
(* it is current, and so is one in a cache where nobody failed.             *)
LEMMA CurrentIsWhole ==
  ASSUME PInv, CInv, NEW c \in Commands, pc[c] = "current", Current(cmd[c])
  PROVE  Whole(c) \/ (place # "project" /\ failed /\ (Several \/ place # "Host"))
<1>1. cmd[c] \in Written /\ cmd[c] \in orders
  BY DEF PInv, TypeOK, CInv, Known
<1>2. /\ files["Cargo.toml"] = cmd[c]
      /\ \A f \in {"build.rs", "lib.rs"} : ForHost(f) = (SourceRole(cmd[c].role) = "Host")
  BY DEF Current
<1>3. CASE place = "project"
  <2>1. dir /\ source = "absent" /\ ValidPatch
    <3>1. "Cargo.toml" \in Files /\ files["Cargo.toml"] # Absent
      BY <1>1, <1>2, Contents DEF Files
    <3>2. dir
      BY <3>1 DEF PInv, TypeOK
    <3> QED BY <1>3, <3>2 DEF CInv, Uniform, ValidDestination, ValidParent
  <2> QED BY <1>2, <1>3, <2>1 DEF CInv, Uniform, ValidPatch, Whole, Files
<1>4. CASE place # "project" /\ ~failed
  <2>1. \A d \in Commands : pc[d] \notin Writers
    BY DEF PInv, TypeOK, Writers
  <2>2. \A f, g \in Files : files[f] = files[g]
    BY <1>4, <2>1 DEF CInv, Uniform
  <2> QED BY <1>2, <2>2 DEF Whole, Files
<1>5. CASE place = "Host" /\ ~Several
  <2>1. cmd[c].role = "Host"
    BY <1>1, <1>5 DEF CInv, Placed
  <2>2. \A f \in {"build.rs", "lib.rs"} : files[f] \in Written
    BY <1>2, <2>1 DEF ForHost, SourceRole
  <2>3. \A f \in Files : files[f] \in orders
    BY <1>1, <1>2, <2>2 DEF CInv, Known, Files
  <2> QED BY <1>1, <1>5, <2>3 DEF Several, Whole
<1> QED BY <1>3, <1>4, <1>5

(* Where a patch is in use or being read, it is of the only order there is.  *)
LEMMA InUseIsCurrent ==
  ASSUME PInv, CInv, NEW c \in Commands, pc[c] = "current", ~Current(cmd[c])
  PROVE  /\ patched = "telekio" => Several
         /\ \A d \in Commands : pc[d] = "cargo" => Unsure
<1>1. cmd[c] \in Written /\ cmd[c] \in orders /\ ~HasForeign
  BY DEF PInv, TypeOK, CInv, Known, Untouched
<1>2. ~\A f \in Files : files[f] = cmd[c]
  BY <1>1, Contents DEF Current, Exist, ForHost, Files
<1>3. ASSUME patched = "telekio" PROVE Several
  <2>1. \A d \in Commands : pc[d] \notin Writers
    BY DEF PInv, TypeOK, Writers
  <2>2. Good
    BY <1>3, <2>1 DEF CInv, Named
  <2>3. ASSUME NEW o \in orders, Complete(o) PROVE o # cmd[c]
    BY <1>1, <1>2, <2>3 DEF Complete, HasForeign
  <2> QED BY <1>1, <2>2, <2>3 DEF Good, Several
<1>4. ASSUME NEW d \in Commands, pc[d] = "cargo" PROVE Unsure
  <2>1. Whole(d) \/ Unsure
    BY <1>4 DEF CInv, Reading
  <2>2. cmd[d] \in orders
    BY <1>4 DEF CInv, Known
  <2>3. Whole(d) => cmd[d] # cmd[c]
    BY <1>2 DEF Whole
  <2> QED BY <1>1, <2>1, <2>2, <2>3 DEF Unsure, Several
<1> QED BY <1>3, <1>4

(* The steps of a command that is under way and writes none of the files.    *)
LEMMA QuietSteps ==
  ASSUME PInv, CInv, NEW c \in Commands,
         \/ CheckInit(c) \/ CheckCurrent(c) \/ MakeSource(c) \/ WriteSourceManifest(c)
         \/ SourceManifestWritten(c) \/ FetchSource(c) \/ FetchFails(c) \/ RemoveSource(c)
         \/ CutManifest(c) \/ SetPatch(c) \/ CheckRemove(c) \/ UnsetPatch(c)
         \/ Lock(c) \/ CutConfig(c) \/ WriteConfig(c) \/ CargoEnds(c) \/ Interrupt(c)
  PROVE  \E to \in Stages : Quietly(c, to)
<1> USE DEF Go, Rest, patchVars, Stages, AtWork, Writers, Replacing
<1>1. /\ pc[c] \notin {"idle", "checkRemove", "unset", "unsetFill", "delete"} => cmd[c] \in orders
      /\ place # "project" => patched = "none"
      /\ pc[c] \in {"check", "set", "setFill", "checkRemove", "unset", "unsetFill", "delete"}
           => place = "project"
      /\ pc[c] \in {"lock", "config", "configFill", "cargo"} => place # "project"
      /\ pc[c] \in {"clean", "setFill"} => Whole(c)
      /\ pc[c] \in {"set", "config", "configFill"} =>
           Whole(c) \/ (place # "project" /\ failed /\ (Several \/ place # "Host"))
      /\ pc[c] \in Replacing /\ patched = "telekio" => Several
      /\ pc[c] \in Replacing => \A d \in Commands : pc[d] = "cargo" => Unsure
      /\ pc[c] = "delete" => patched # "telekio"
  BY DEF CInv, Known, Placed, Progress, Named, Reading
<1>2. CASE CheckInit(c)
  <2>1. PICK to \in {"idle", "current"} :
          Go(c, "check", to) /\ (to = "current" => ValidDestination)
    BY <1>2 DEF CheckInit
  <2>2. ValidDestination' <=> ValidDestination
    BY <1>2 DEF CheckInit, ValidDestination, ValidParent, ValidPatch
  <2>3. Quietly(c, to)
    BY <1>1, <1>2, <2>1, <2>2 DEF CheckInit, Quietly
  <2> QED BY <2>3
<1>3. CASE CheckCurrent(c)
  <2> DEFINE to == CASE CurrentFails    -> "idle"
                    [] Current(cmd[c]) -> Prepared
                    [] OTHER           -> "fetch"
  <2>1. /\ to \in {"idle", "set", "config", "fetch"}
        /\ to \in {"set", "config", "configFill"} => Current(cmd[c])
        /\ to = "set" => place = "project"
        /\ to = "config" => place # "project"
        /\ to = "fetch" => ~Current(cmd[c])
    BY DEF Prepared
  <2>2. Go(c, "current", to) /\ Rest /\ UNCHANGED <<patchVars, patched, file, failed>>
    BY <1>3 DEF CheckCurrent
  <2> HIDE DEF to
  <2>3. to \in {"set", "config", "configFill"} =>
          Whole(c) \/ (place # "project" /\ failed /\ (Several \/ place # "Host"))
    BY <2>1, <2>2, CurrentIsWhole
  <2>4. to = "fetch" => /\ patched = "telekio" => Several
                        /\ \A d \in Commands : pc[d] = "cargo" => Unsure
    BY <2>1, <2>2, InUseIsCurrent
  <2>5. Quietly(c, to)
    BY <1>1, <2>1, <2>2, <2>3, <2>4 DEF Quietly
  <2> QED BY <2>1, <2>5
<1>4. CASE MakeSource(c) \/ WriteSourceManifest(c) \/ SourceManifestWritten(c)
  <2>1. CASE MakeSource(c)
    BY <1>1, <2>1 DEF MakeSource, Quietly
  <2>2. CASE WriteSourceManifest(c)
    BY <1>1, <2>2 DEF WriteSourceManifest, Quietly
  <2>3. CASE SourceManifestWritten(c)
    BY <1>1, <2>3 DEF SourceManifestWritten, Quietly
  <2> QED BY <1>4, <2>1, <2>2, <2>3
<1>5. CASE FetchSource(c)
  <2>1. file'[c] = "Cargo.toml" /\ \A d \in Commands \ {c} : file'[d] = file[d]
    BY <1>5 DEF FetchSource, PInv, TypeOK
  <2>2. Quietly(c, "truncate")
    BY <1>1, <1>5, <2>1 DEF FetchSource, Quietly
  <2> QED BY <2>2
<1>6. CASE FetchFails(c)
  BY <1>1, <1>6 DEF FetchFails, Quietly
<1>7. CASE RemoveSource(c)
  <2>1. PICK to \in {"clean", Prepared} : Go(c, "clean", to)
    BY <1>7 DEF RemoveSource
  <2>2. Quietly(c, to)
    BY <1>1, <1>7, <2>1 DEF RemoveSource, Quietly, Prepared
  <2> QED BY <2>1, <2>2 DEF Prepared
<1>8. CASE CutManifest(c)
  <2>1. PICK to \in {"setFill", "unsetFill"} :
          Go(c, IF to = "setFill" THEN "set" ELSE "unset", to)
    BY <1>8 DEF CutManifest
  <2>2. Quietly(c, to)
    BY <1>1, <1>8, <2>1 DEF CutManifest, Quietly
  <2> QED BY <2>1, <2>2
<1>9. CASE SetPatch(c) \/ UnsetPatch(c)
  <2>1. CASE SetPatch(c)
    BY <1>1, <2>1 DEF SetPatch, Quietly
  <2>2. CASE UnsetPatch(c)
    BY <1>1, <2>2 DEF UnsetPatch, Quietly
  <2> QED BY <1>9, <2>1, <2>2
<1>10. CASE CheckRemove(c)
  BY <1>1, <1>10 DEF CheckRemove, Quietly
<1>11. CASE Lock(c)
  BY <1>1, <1>11 DEF Lock, Quietly
<1>12. CASE CutConfig(c) \/ WriteConfig(c)
  <2>1. CASE CutConfig(c)
    BY <1>1, <2>1 DEF CutConfig, Quietly
  <2>2. CASE WriteConfig(c)
    BY <1>1, <2>2 DEF WriteConfig, Quietly, Unsure
  <2> QED BY <1>12, <2>1, <2>2
<1>13. CASE CargoEnds(c)
  BY <1>1, <1>13 DEF CargoEnds, Quietly
<1>14. CASE Interrupt(c)
  <2>1. pc[c] \in Writers => failed'
    BY <1>14 DEF Interrupt, Harmless
  <2>2. Quietly(c, "idle")
    BY <1>1, <1>14, <2>1 DEF Interrupt, Quietly
  <2> QED BY <2>2
<1> QED BY <1>2, <1>3, <1>4, <1>5, <1>6, <1>7, <1>8, <1>9, <1>10, <1>11, <1>12, <1>13, <1>14

(* A command that starts has not looked at anything.                        *)
LEMMA StartsWhole ==
  ASSUME PInv, CInv, NEW c \in Commands, StartInit(c) \/ StartRemove(c) \/ StartCargo(c)
  PROVE  CInv'
<1>1. PICK to \in {"check", "checkRemove", "lock"} :
        /\ pc[c] = "idle" /\ pc' = [pc EXCEPT ![c] = to]
        /\ to = "lock" <=> place # "project"
        /\ to # "checkRemove" => cmd'[c] \in orders'
        /\ \A d \in Commands \ {c} : cmd'[d] = cmd[d]
        /\ orders \subseteq orders' /\ IsFiniteSet(orders')
        /\ place # "project" => \A o \in orders' : o.role = place
        /\ UNCHANGED <<place, files, dir, source, stray, emptied, patched, file, failed>>
  <2>1. ASSUME NEW to \in {"check", "lock"}, NEW roles, Start(c, to, roles),
               place # "project" => roles = {place}
        PROVE  /\ pc[c] = "idle" /\ pc' = [pc EXCEPT ![c] = to]
               /\ cmd'[c] \in orders' /\ \A d \in Commands \ {c} : cmd'[d] = cmd[d]
               /\ orders \subseteq orders' /\ IsFiniteSet(orders')
               /\ place # "project" => \A o \in orders' : o.role = place
               /\ UNCHANGED <<place, files, dir, source, stray, emptied, patched, file, failed>>
    <3>1. PICK v \in Versions, r \in roles :
            /\ cmd' = [cmd EXCEPT ![c] = [version |-> v, role |-> r]]
            /\ orders' = orders \cup {cmd'[c]}
      BY <2>1 DEF Start
    <3>2. cmd'[c] = [version |-> v, role |-> r] /\ \A d \in Commands \ {c} : cmd'[d] = cmd[d]
      BY <3>1 DEF PInv, TypeOK
    <3>3. IsFiniteSet(orders')
      BY <3>1, FS_AddElement DEF CInv, Known
    <3>4. place # "project" => \A o \in orders' : o.role = place
      BY <2>1, <3>1, <3>2 DEF CInv, Placed
    <3> QED BY <2>1, <3>1, <3>2, <3>3, <3>4 DEF Start, Go, patchVars
  <2>2. CASE StartInit(c)
    <3>1. Start(c, "check", {"Host", "Guest"}) /\ place = "project"
      BY <2>2 DEF StartInit
    <3> QED BY <2>1, <3>1
  <2>3. CASE StartRemove(c)
    BY <2>3 DEF StartRemove, Go, patchVars, CInv, Known, Placed
  <2>4. CASE StartCargo(c)
    <3>1. Start(c, "lock", {place}) /\ place # "project"
      BY <2>4 DEF StartCargo
    <3> QED BY <2>1, <3>1
  <2> QED BY <2>2, <2>3, <2>4
<1>2. pc'[c] = to /\ \A d \in Commands \ {c} : pc'[d] = pc[d]
  BY <1>1 DEF PInv, TypeOK
<1>3. \A d \in Commands : pc'[d] \notin {"idle", "check", "checkRemove", "lock"} =>
        pc'[d] = pc[d] /\ cmd'[d] = cmd[d] /\ (Whole(d)' <=> Whole(d))
  BY <1>1, <1>2 DEF Whole
<1>4. (Several => Several') /\ (Unsure => Unsure') /\ (Good => Good')
  BY <1>1 DEF Several, Unsure, Good, Complete
<1>5. Known'
  BY <1>1, <1>2 DEF CInv, Known
<1>6. Placed'
  BY <1>1, <1>2 DEF CInv, Placed
<1>7. Progress'
  BY <1>1, <1>3, <1>4 DEF CInv, Progress, Writers
<1>8. Uniform'
  <2>1. \A d \in Commands : place' = "project" /\ pc'[d] = "current" => ValidDestination'
    BY <1>1, <1>3 DEF CInv, Uniform, ValidDestination, ValidParent, ValidPatch
  <2>2. (\A d \in Commands : pc'[d] \notin Writers) => \A d \in Commands : pc[d] \notin Writers
    BY <1>1, <1>2 DEF Writers
  <2> QED BY <1>1, <2>1, <2>2 DEF CInv, Uniform
<1>9. Named'
  <2>1. (\E d \in Commands : pc[d] \in Writers) => \E d \in Commands : pc'[d] \in Writers
    BY <1>1, <1>2 DEF Writers
  <2> QED BY <1>1, <1>3, <1>4, <2>1 DEF CInv, Named, Replacing, Writers
<1>10. Reading' /\ Emptied'
  BY <1>1, <1>2, <1>3, <1>4 DEF CInv, Reading, Emptied, Replacing, Writers, PInv, TypeOK
<1> QED BY <1>5, <1>6, <1>7, <1>8, <1>9, <1>10 DEF CInv

(* write_patch, one file after the other: what it has written is of its     *)
(* order, and the sources beside it mark the patch as unfinished.           *)
LEMMA WritesWhole ==
  ASSUME PInv, CInv, NEW c \in Commands, Truncate(c) \/ Fill(c)
  PROVE  CInv'
<1>1. PICK to \in {"truncate", "fill", "clean"}, o \in {Empty, cmd[c]} :
        /\ pc[c] \in Writers /\ pc' = [pc EXCEPT ![c] = to]
        /\ files' = [files EXCEPT ![file[c]] = o]
        /\ to = "fill" <=> o = Empty
        /\ to = "clean" => file[c] = "lib.rs"
        /\ UNCHANGED <<place, dir, source, stray, emptied, patched, cmd, orders, failed>>
        /\ file' = IF to = "fill" THEN file ELSE [file EXCEPT ![c] = FileAfter(@)]
        /\ to = "truncate" => file[c] # "lib.rs"
  <2>1. cmd[c] # Empty
    BY Contents DEF PInv, TypeOK
  <2>2. CASE Truncate(c)
    BY <2>1, <2>2 DEF Truncate, Go, Rest, Writers
  <2>3. CASE Fill(c)
    BY <2>1, <2>3 DEF Fill, Go, Rest, Writers
  <2> QED BY <2>2, <2>3
<1>2. pc'[c] = to /\ \A d \in Commands \ {c} : pc'[d] = pc[d] /\ pc[d] \in {"idle", "lock", "cargo"}
  BY <1>1 DEF PInv, TypeOK, Writers
<1>3. /\ file[c] \in Files /\ cmd[c] \in Written /\ cmd[c] \in orders
      /\ \A f \in Files : files'[f] = IF f = file[c] THEN o ELSE files[f]
  BY <1>1 DEF PInv, TypeOK, CInv, Known, Writers
<1>4. (Several' <=> Several) /\ (Unsure' <=> Unsure)
  BY <1>1 DEF Several, Unsure
<1>5. Known'
  BY <1>1, <1>2, <1>3, Contents DEF CInv, Known, Writers
<1>6. Placed'
  BY <1>1, <1>2 DEF CInv, Placed, Writers
<1>7. source = "ready"
  BY <1>1 DEF CInv, Progress
<1>8. Progress'
  <2>1. /\ file[c] # "Cargo.toml" => files["Cargo.toml"] = cmd[c]
        /\ file[c] = "lib.rs" => files["build.rs"] = cmd[c]
    BY <1>1 DEF CInv, Progress
  <2>2. CASE to = "fill"
    BY <1>1, <1>2, <1>3, <1>7, <2>1, <2>2 DEF Progress, Writers, Files
  <2>3. CASE to = "truncate"
    <3>1. o = cmd[c] /\ file'[c] = FileAfter(file[c]) /\ file[c] # "lib.rs"
      BY <1>1, <1>3, <2>3, Contents DEF PInv, TypeOK
    <3> QED BY <1>1, <1>2, <1>3, <1>7, <2>1, <2>3, <3>1 DEF Progress, Writers, Files, FileAfter
  <2>4. CASE to = "clean"
    <3>1. o = cmd[c] /\ file[c] = "lib.rs"
      BY <1>1, <1>3, <2>4, Contents
    <3>2. \A f \in Files : files'[f] = cmd[c]
      BY <1>3, <2>1, <3>1 DEF Files
    <3> QED BY <1>1, <1>2, <2>4, <3>2 DEF Progress, Writers, Whole
  <2> QED BY <2>2, <2>3, <2>4
<1>9. Uniform'
  <2>1. to = "clean" => \A f, g \in Files : files'[f] = files'[g]
    BY <1>1, <1>2, <1>8 DEF Progress, Whole
  <2> QED BY <1>1, <1>2, <1>7, <2>1 DEF Uniform, Writers
<1>10. Named'
  <2>1. patched = "telekio" => Several
    BY <1>1 DEF CInv, Named, Replacing
  <2>2. to = "clean" => Good'
    <3>1. to = "clean" => \A f \in Files : files'[f] = cmd[c]
      BY <1>1, <1>2, <1>8 DEF Progress, Whole
    <3> QED BY <1>1, <1>3, <3>1 DEF Good, Complete
  <2> QED BY <1>1, <1>2, <1>4, <2>1, <2>2 DEF Named, Replacing, Writers
<1>11. Reading' /\ Emptied'
  <2>1. \A d \in Commands : pc[d] = "cargo" => Unsure
    BY <1>1 DEF CInv, Reading, Replacing
  <2> QED BY <1>1, <1>2, <1>4, <2>1 DEF CInv, Reading, Emptied, PInv, TypeOK
<1> QED BY <1>5, <1>6, <1>8, <1>9, <1>10, <1>11 DEF CInv

(* telekio remove deletes a patch that the manifest no longer names.        *)
LEMMA DeletesWhole ==
  ASSUME PInv, CInv, NEW c \in Commands, DeleteFile(c) \/ DeleteParent(c)
  PROVE  CInv'
<1>1. PICK to \in {"delete", "idle"} :
        /\ pc[c] = "delete" /\ pc' = [pc EXCEPT ![c] = to]
        /\ UNCHANGED <<place, emptied, patched, file, cmd, orders, failed>>
        /\ \A f \in Files : files'[f] = files[f] \/ files'[f] = Absent
        /\ source' = source \/ \A f \in Files : files'[f] = Absent
  <2>1. CASE DeleteFile(c)
    <3>1. PICK f \in Files : files' = [files EXCEPT ![f] = Absent]
      BY <2>1 DEF DeleteFile
    <3>2. pc' = [pc EXCEPT ![c] = "delete"]
      BY <2>1 DEF DeleteFile, PInv, TypeOK
    <3> QED BY <2>1, <3>1, <3>2 DEF DeleteFile, Rest, PInv, TypeOK
  <2>2. CASE DeleteParent(c)
    BY <2>2 DEF DeleteParent, Go
  <2> QED BY <2>1, <2>2
<1>2. pc'[c] = to /\ \A d \in Commands \ {c} : pc'[d] = pc[d] /\ pc[d] \in {"idle", "lock", "cargo"}
  BY <1>1 DEF PInv, TypeOK
<1>3. place = "project" /\ patched # "telekio" /\ \A d \in Commands : pc[d] # "cargo"
  BY <1>1 DEF CInv, Placed, Named
<1>4. Known'
  BY <1>1, <1>2, Contents DEF CInv, Known
<1>5. Placed' /\ Progress'
  BY <1>1, <1>2, <1>3 DEF CInv, Placed, Progress, Writers
<1>6. Uniform'
  BY <1>1, <1>2, <1>3, Contents DEF CInv, Uniform
<1>7. Named' /\ Reading' /\ Emptied'
  BY <1>1, <1>2, <1>3 DEF CInv, Named, Reading, Emptied, Replacing, Writers, PInv, TypeOK
<1> QED BY <1>4, <1>5, <1>6, <1>7 DEF CInv

(* The user's own step.                                                     *)
LEMMA UserWhole == PInv /\ CInv /\ AddFile => CInv'
<1> SUFFICES ASSUME PInv, CInv, AddFile PROVE CInv'
  OBVIOUS
<1>1. /\ place = "project" /\ Idle /\ UNCHANGED <<place, dir, source, patched, pc, file, cmd, orders, failed>>
      /\ UNCHANGED emptied /\ \A f \in Files : files'[f] = files[f] \/ files'[f] = Foreign
  BY DEF AddFile, PInv, TypeOK
<1>2. Good => Good'
  BY <1>1 DEF Good, Complete, Several
<1>3. Known'
  BY <1>1, Contents DEF CInv, Known
<1>4. Placed' /\ Progress' /\ Reading' /\ Emptied'
  BY <1>1 DEF CInv, Placed, Progress, Reading, Emptied, Idle, Writers, Replacing
<1>5. Uniform'
  BY <1>1, Contents DEF CInv, Uniform, Idle
<1>6. Named'
  BY <1>1, <1>2 DEF CInv, Named, Idle, Writers, Replacing
<1> QED BY <1>3, <1>4, <1>5, <1>6 DEF CInv

LEMMA WholeNext == PInv /\ CInv /\ [Next]_vars => CInv'
<1> SUFFICES ASSUME PInv, CInv, [Next]_vars PROVE CInv'
  OBVIOUS
<1>1. CASE UNCHANGED vars
  <2> USE <1>1 DEF vars, patchVars, CInv
  <2>1. Known' /\ Placed' /\ Reading' /\ Emptied'
    BY DEF Known, Placed, Reading, Emptied, Whole, Unsure, Several
  <2>2. Progress' /\ Named'
    BY DEF Progress, Named, Whole, Several, Good, Complete
  <2>3. Uniform'
    BY DEF Uniform, ValidDestination, ValidParent, ValidPatch
  <2> QED BY <2>1, <2>2, <2>3
<1>2. ASSUME NEW c \in Commands,
             StartInit(c) \/ StartRemove(c) \/ StartCargo(c) \/ Step(c) \/ Interrupt(c)
      PROVE  CInv'
  BY <1>2, StartsWhole, WritesWhole, DeletesWhole, QuietSteps, Quiet DEF Step
<1> QED BY <1>1, <1>2, UserWhole DEF Next

(* What all commands rely on: which stage has written how much of which      *)
(* order's patch, and that nobody writes to one that is whole and in use.   *)
THEOREM PatchWorth == Spec => [](PInv /\ CInv)
<1>1. Init => PInv /\ CInv
  BY PatchInit, CompleteInit
<1>2. (PInv /\ CInv) /\ [Next]_vars => (PInv /\ CInv)'
  BY PatchNext, WholeNext
<1> QED BY <1>1, <1>2, PTL DEF Spec

(* A project whose manifest names the patch has all of it, however many     *)
(* commands of however many versions were interrupted between two writes,   *)
(* as long as no upgrade failed.                                            *)
THEOREM NamedPatchIsComplete == Spec => []PatchedIsComplete
<1>1. PInv /\ CInv => PatchedIsComplete
  BY SeveralIsMany DEF CInv, Known, Named, Good, Idle, Writers, PatchedIsComplete
<1> QED BY <1>1, PatchWorth, PTL

(* What patch_current accepts and what write_patch has written is complete. *)
THEOREM AcceptedIsComplete == Spec => []ReadyIsComplete
<1>1. PInv /\ CInv => ReadyIsComplete
  BY SeveralIsMany DEF CInv, Known, Progress, Whole, Complete, ReadyIsComplete
<1> QED BY <1>1, PatchWorth, PTL

(* After the lock is dropped nobody of the same version writes to the patch   *)
(* that a cargo reads, and config.toml names it or was truncated by another    *)
(* process since: for any number of processes, versions and interrupts.       *)
THEOREM ReadPatchIsComplete == Spec => []CargoReadsItsPatch
<1>1. PInv /\ CInv => CargoReadsItsPatch
  <2> SUFFICES ASSUME PInv, CInv, NEW c \in Commands, pc[c] = "cargo"
               PROVE  /\ Complete(cmd[c]) \/ Upgraded \/ (failed /\ place # "Host")
                      /\ emptied = {} \/ \E d \in Commands \ {c} : emptied = {d}
    BY DEF CargoReadsItsPatch
  <2>1. Complete(cmd[c]) \/ Upgraded \/ (failed /\ place # "Host")
    BY SeveralIsMany DEF CInv, Known, Reading, Whole, Complete, Unsure
  <2>2. emptied = {} \/ \E d \in Commands \ {c} : emptied = {d}
    BY DEF CInv, Emptied, PInv, TypeOK
  <2> QED BY <2>1, <2>2
<1> QED BY <1>1, PatchWorth, PTL

-----------------------------------------------------------------------------
(* The command line: lemmas about the lists of arguments.                   *)

(* The strings of the proofs are texts, and texts make arguments.           *)
LEMMA TextIs ==
  /\ Nodes \subseteq Text /\ Patches \subseteq Text
  /\ \A t \in {"--config", "--package", "build", "check", "doc", "run", "test", "remove"} : t \in Text
  /\ \A c \in Text : Word(c) \in Argument /\ Opt(c) \in Argument
<1>1. Literals \subseteq Text /\ Nodes \subseteq Text
  <2> HIDE DEF Literals
  <2> QED BY DEF Text
<1>2. /\ Patches \subseteq Literals /\ "" \in Literals
      /\ {"--config", "--package", "build", "check", "doc", "run", "test", "remove"} \subseteq Literals
  BY DEF Literals
<1>3. "" \in Text
  BY <1>1, <1>2
<1>4. \A c \in Text : Word(c) \in Argument /\ Opt(c) \in Argument
  <2> HIDE DEF Text
  <2> QED BY <1>3 DEF Word, Opt, Argument
<1>5. \A t \in {"--config", "--package", "build", "check", "doc", "run", "test", "remove"} : t \in Text
  <2> HIDE DEF Text
  <2> QED BY <1>1, <1>2
<1> QED BY <1>1, <1>2, <1>4, <1>5

(* A non-empty set of numbers has a least one.                              *)
LEMMA Least == ASSUME NEW T, T \subseteq Nat, T # {} PROVE \E m \in T : \A n \in T : m <= n
<1>1. \E m \in T : \A n \in T : ~(<<n, m>> \in OpToRel(<, Nat))
  <2>. HIDE DEF OpToRel
  <2>. QED BY NatLessThanWellFounded, WFMin
<1>2. PICK m \in T : \A n \in T : ~(<<n, m>> \in OpToRel(<, Nat))   BY <1>1
<1>3. \A n \in T : m <= n
  <2>1. TAKE n \in T
  <2>2. <<n, m>> \in Nat \X Nat  OBVIOUS
  <2>. QED BY <1>2, <2>2 DEF OpToRel
<1>. QED BY <1>3

(* What comes before "--": everything up to some place.                     *)
LEMMA BeforeIs ==
  ASSUME NEW S, NEW s \in Seq(S)
  PROVE  \E d \in 0 .. Len(s) :
           /\ Before(s) = 1 .. d /\ \A i \in 1 .. d : s[i] # Dashes
           /\ d < Len(s) => s[d + 1] = Dashes
<1> DEFINE T == {i \in 1 .. Len(s) : s[i] = Dashes}
<1>0. Len(s) \in Nat /\ DOMAIN s = 1 .. Len(s)
  OBVIOUS
<1>1. CASE T = {}
  <2>1. \A i \in 1 .. Len(s) : s[i] # Dashes
    BY <1>1
  <2>2. Before(s) = 1 .. Len(s)
    BY <1>0, <2>1 DEF Before
  <2>3. Len(s) \in 0 .. Len(s) /\ ~(Len(s) < Len(s))
    BY <1>0
  <2> QED BY <2>1, <2>2, <2>3
<1>2. CASE T # {}
  <2>0. T \subseteq Nat
    BY <1>0
  <2>1. PICK m \in T : \A n \in T : m <= n
    <3> HIDE DEF T
    <3> QED BY <1>2, <2>0, Least
  <2>2. m \in 1 .. Len(s) /\ s[m] = Dashes /\ \A i \in 1 .. (m - 1) : s[i] # Dashes
    BY <1>0, <2>1
  <2>3. Before(s) = 1 .. (m - 1)
    <3>1. ASSUME NEW i \in Before(s) PROVE i \in 1 .. (m - 1)
      BY <1>0, <2>2, <3>1 DEF Before
    <3>2. ASSUME NEW i \in 1 .. (m - 1) PROVE i \in Before(s)
      BY <1>0, <2>2 DEF Before
    <3> QED BY <3>1, <3>2
  <2> QED BY <1>0, <2>2, <2>3
<1> QED BY <1>1, <1>2

(* Where a loop that steps over values goes from i.                         *)
HeadStep(s, takes, from, i) ==
  IF i > Len(s) THEN {} ELSE IF s[i] = Dashes THEN {}
  ELSE {i} \cup from[IF Takes(takes, s[i]) THEN i + 2 ELSE i + 1]

(* A loop that steps over values, as a function of where it starts.         *)
LEMMA HeadsFunction ==
  ASSUME NEW S, NEW s \in Seq(S), NEW takes
  PROVE  \E from : /\ Heads(s, takes) = from[1]
                   /\ \A i \in 1 .. Len(s) + 2 : from[i] = HeadStep(s, takes, from, i)
<1> DEFINE L == Len(s)
           Turn(f, i) == IF i > L THEN {} ELSE IF s[i] = Dashes THEN {}
                         ELSE {i} \cup f[IF Takes(takes, s[i]) THEN i + 2 ELSE i + 1]
           Fits(n) == \E f : f = [i \in (L + 3 - n) .. (L + 2) |-> Turn(f, i)]
           Bad == {n \in 0 .. (L + 2) : ~Fits(n)}
<1>0. L \in Nat
  OBVIOUS
<1>1. Fits(0)
  <2>1. [i \in (L + 3 - 0) .. (L + 2) |-> {}] = [i \in (L + 3 - 0) .. (L + 2) |-> Turn([j \in (L + 3 - 0) .. (L + 2) |-> {}], i)]
    BY <1>0
  <2> QED BY <2>1
<1>2. ASSUME NEW n \in 0 .. (L + 1), Fits(n) PROVE Fits(n + 1)
  <2>1. PICK f : f = [i \in (L + 3 - n) .. (L + 2) |-> Turn(f, i)]
    BY <1>2
  <2> DEFINE k == L + 2 - n
             g == [i \in k .. (L + 2) |-> IF i = k THEN Turn(f, k) ELSE f[i]]
  <2>2. k \in 1 .. (L + 2) /\ L + 3 - n = k + 1 /\ L + 3 - (n + 1) = k
    BY <1>0
  <2>3. ASSUME NEW i \in k .. (L + 2) PROVE g[i] = Turn(g, i)
    <3>0. i \in Int /\ (i # k => i \in (L + 3 - n) .. (L + 2))
      BY <1>0, <2>2
    <3>1. g[i] = Turn(f, i)
      <4>1. CASE i = k
        BY <4>1
      <4>2. CASE i # k
        <5>1. f[i] = Turn(f, i)
          <6> HIDE DEF Turn
          <6> QED BY <2>1, <3>0, <4>2
        <5> HIDE DEF Turn
        <5> QED BY <5>1, <4>2
      <4> QED BY <4>1, <4>2
    <3>2. ASSUME i <= L PROVE f[i + 1] = g[i + 1] /\ f[i + 2] = g[i + 2]
      BY <1>0, <2>2, <3>2
    <3>3. Turn(f, i) = Turn(g, i)
      <4> HIDE DEF g
      <4>1. CASE i > L
        BY <4>1
      <4>2. CASE ~(i > L) /\ Takes(takes, s[i])
        <5>1. Turn(f, i) = IF s[i] = Dashes THEN {} ELSE {i} \cup f[i + 2]
          BY <4>2
        <5>2. Turn(g, i) = IF s[i] = Dashes THEN {} ELSE {i} \cup g[i + 2]
          BY <4>2
        <5>3. f[i + 2] = g[i + 2]
          BY <3>0, <3>2, <1>0, <4>2
        <5> HIDE DEF Turn
        <5> QED BY <5>1, <5>2, <5>3
      <4>3. CASE ~(i > L) /\ ~Takes(takes, s[i])
        <5>1. Turn(f, i) = IF s[i] = Dashes THEN {} ELSE {i} \cup f[i + 1]
          BY <4>3
        <5>2. Turn(g, i) = IF s[i] = Dashes THEN {} ELSE {i} \cup g[i + 1]
          BY <4>3
        <5>3. f[i + 1] = g[i + 1]
          BY <3>0, <3>2, <1>0, <4>3
        <5> HIDE DEF Turn
        <5> QED BY <5>1, <5>2, <5>3
      <4> QED BY <4>1, <4>2, <4>3
    <3> HIDE DEF g, Turn
    <3> QED BY <3>1, <3>3
  <2>4. g = [i \in k .. (L + 2) |-> Turn(g, i)]
    <3> HIDE DEF Turn
    <3>1. g = [i \in k .. (L + 2) |-> g[i]]
      OBVIOUS
    <3> HIDE DEF g
    <3> QED BY <2>3, <3>1
  <2> QED BY <2>2, <2>4
<1>3. Bad = {}
  <2> HIDE DEF Fits
  <2> SUFFICES ASSUME Bad # {} PROVE FALSE
    OBVIOUS
  <2>0. Bad \subseteq Nat
    BY <1>0
  <2>1. PICK m \in Bad : \A n \in Bad : m <= n
    <3> HIDE DEF Bad
    <3> QED BY <2>0, Least
  <2>2. m # 0 /\ m - 1 \in 0 .. (L + 1) /\ Fits(m - 1)
    BY <1>0, <1>1, <2>1
  <2> QED BY <1>2, <2>1, <2>2, <1>0
<1>4. \E f : f = [i \in 1 .. (L + 2) |-> Turn(f, i)]
  <2>1. Fits(L + 2)
    <3> HIDE DEF Fits
    <3> QED BY <1>0, <1>3
  <2> QED BY <2>1, <1>0
<1> DEFINE from == CHOOSE f : f = [i \in 1 .. (L + 2) |-> Turn(f, i)]
<1>5. Heads(s, takes) = from[1]
  BY DEF Heads
<1>6. from = [i \in 1 .. (L + 2) |-> Turn(from, i)]
  <2> HIDE DEF Turn
  <2> QED BY <1>4
<1>7. \A i \in 1 .. (L + 2) : from[i] = HeadStep(s, takes, from, i)
  <2>1. \A i \in 1 .. (L + 2) : from[i] = Turn(from, i)
    <3> HIDE DEF Turn, from
    <3> QED BY <1>6
  <2> HIDE DEF from
  <2> QED BY <2>1 DEF HeadStep
<1> HIDE DEF from
<1> QED BY <1>5, <1>7

(* In a list whose values are in place, a loop steps over the values of the  *)
(* options it knows and looks at everything else before "--".               *)
LEMMA HeadsAre ==
  ASSUME NEW s \in Arguments, Valued(s), NEW takes \in SUBSET CargoTakes
  PROVE  Heads(s, takes) = {i \in Before(s) : i = 1 \/ ~Takes(takes, s[i - 1])}
<1>1. PICK d \in 0 .. Len(s) : /\ Before(s) = 1 .. d /\ \A i \in 1 .. d : s[i] # Dashes
                               /\ d < Len(s) => s[d + 1] = Dashes
  BY BeforeIs DEF Arguments
<1>2. PICK from : /\ Heads(s, takes) = from[1]
                  /\ \A i \in 1 .. Len(s) + 2 : from[i] = HeadStep(s, takes, from, i)
  <2> s \in Seq(Argument)
    BY DEF Arguments
  <2> QED BY HeadsFunction
<1>0. Len(s) \in Nat /\ d \in Nat /\ d <= Len(s)
  BY DEF Arguments
<1> DEFINE After(i) == {j \in i .. d : j = i \/ ~Takes(takes, s[j - 1])}
           Bad == {n \in 0 .. d : from[d + 1 - n] # After(d + 1 - n)}
<1>3. from[d + 1] = {}
  <2>1. d + 1 \in 1 .. Len(s) + 2 /\ (d + 1 > Len(s) \/ s[d + 1] = Dashes)
    BY <1>0, <1>1
  <2>2. from[d + 1] = IF d + 1 > Len(s) THEN {} ELSE IF s[d + 1] = Dashes THEN {}
                 ELSE {d + 1} \cup from[IF Takes(takes, s[d + 1]) THEN d + 1 + 2 ELSE d + 1 + 1]
    BY <1>2, <2>1 DEF HeadStep
  <2> QED BY <2>1, <2>2
<1>4. ASSUME NEW i \in 1 .. d PROVE from[i] = {i} \cup from[IF Takes(takes, s[i]) THEN i + 2 ELSE i + 1]
  <2>1. i \in 1 .. Len(s) + 2 /\ ~(i > Len(s)) /\ s[i] # Dashes
    BY <1>0, <1>1
  <2>2. from[i] = IF i > Len(s) THEN {} ELSE IF s[i] = Dashes THEN {}
                 ELSE {i} \cup from[IF Takes(takes, s[i]) THEN i + 2 ELSE i + 1]
    BY <1>2, <2>1 DEF HeadStep
  <2> QED BY <2>1, <2>2
<1>5. Bad = {}
  <2> SUFFICES ASSUME Bad # {} PROVE FALSE
    OBVIOUS
  <2>0. Bad \subseteq Nat
    OBVIOUS
  <2>1. PICK m \in Bad : \A n \in Bad : m <= n
    <3> HIDE DEF Bad
    <3> QED BY <2>0, Least
  <2> DEFINE i == d + 1 - m
  <2>2. m # 0
    <3> SUFFICES ASSUME m = 0 PROVE FALSE
      OBVIOUS
    <3>1. After(d + 1) = {}
      BY <1>0
    <3>2. d + 1 - 0 = d + 1
      BY <1>0
    <3> HIDE DEF After
    <3> QED BY <1>3, <2>1, <3>1, <3>2
  <2>3. i \in 1 .. d /\ m \in 1 .. d
    BY <1>0, <2>1, <2>2
  <2>4. from[i + 1] = After(i + 1)
    <3>1. m - 1 \in 0 .. d /\ d + 1 - (m - 1) = i + 1 /\ m - 1 \notin Bad
      <4>1. m - 1 \in 0 .. d /\ d + 1 - (m - 1) = i + 1 /\ ~(m <= m - 1)
        BY <1>0, <2>3
      <4> HIDE DEF Bad, i
      <4> QED BY <4>1, <2>1
    <3> HIDE DEF After, i
    <3> QED BY <3>1
  <2>5. CASE ~Takes(takes, s[i])
    <3>1. After(i) = {i} \cup After(i + 1)
      <4>1. i + 1 - 1 = i /\ i \in Nat /\ i \in i .. d
        BY <2>3
      <4> HIDE DEF i
      <4>2. ASSUME NEW j \in After(i) PROVE j \in {i} \cup After(i + 1)
        <5>1. CASE j # i
          BY <5>1, <1>0, <4>1
        <5> QED BY <5>1
      <4>3. ASSUME NEW j \in {i} \cup After(i + 1) PROVE j \in After(i)
        <5>1. CASE j = i
          BY <5>1, <4>1
        <5>2. CASE j = i + 1
          BY <5>2, <4>1, <4>3, <2>5, <1>0
        <5>3. CASE j # i /\ j # i + 1
          BY <5>3, <4>1, <4>3, <1>0
        <5> QED BY <5>1, <5>2, <5>3
      <4> HIDE DEF After
      <4> QED BY <4>2, <4>3
    <3> HIDE DEF After, i
    <3> QED BY <1>4, <2>1, <2>3, <2>4, <2>5, <3>1 DEF i
  <2>6. CASE Takes(takes, s[i])
    <3>1. Takes(CargoTakes, s[i])
      BY <2>6 DEF Takes
    <3>2. i + 1 \in 1 .. d /\ s[i + 1].name = ""
      BY <1>1, <2>3, <3>1 DEF Valued
    <3>3. ~Takes(takes, s[i + 1])
      BY <3>2 DEF Takes, CargoTakes, CommandTakes, GlobalTakes, FeatureOptions, PackageTakes
    <3>4. from[i + 2] = After(i + 2)
      <4>0. m \in Nat /\ m <= d /\ d + 1 - m + 1 <= d
        <5>1. i + 1 \in 1 .. d
          BY <3>2
        <5> QED BY <1>0, <2>3, <5>1
      <4>1. m - 2 \in 0 .. d /\ d + 1 - (m - 2) = i + 2 /\ ~(m <= m - 2)
        BY <1>0, <4>0
      <4>2. m - 2 \notin Bad
        <5> HIDE DEF Bad, i
        <5> QED BY <4>1, <2>1
      <4> HIDE DEF After, i
      <4> QED BY <4>1, <4>2
    <3>5. After(i) = {i} \cup After(i + 2)
      <4>1. i + 1 - 1 = i /\ i + 2 - 1 = i + 1 /\ i \in Nat
        BY <2>3
      <4> HIDE DEF i
      <4>2. ASSUME NEW j \in After(i) PROVE j \in {i} \cup After(i + 2)
        <5>1. j \in i .. d /\ (j = i \/ ~Takes(takes, s[j - 1])) /\ j # i + 1
          BY <2>6, <4>1, <4>2, <2>3
        <5>2. CASE j = i
          BY <5>2
        <5>3. CASE j # i
          BY <5>1, <5>3, <1>0, <4>1
        <5> QED BY <5>2, <5>3
      <4>3. ASSUME NEW j \in {i} \cup After(i + 2) PROVE j \in After(i)
        <5>1. CASE j = i
          BY <5>1, <2>3
        <5>2. CASE j # i /\ j = i + 2
          BY <5>2, <3>3, <4>1, <1>0, <4>3
        <5>3. CASE j # i /\ j # i + 2
          BY <5>3, <4>1, <1>0, <4>3
        <5> QED BY <5>1, <5>2, <5>3
      <4> HIDE DEF After
      <4> QED BY <4>2, <4>3
    <3> HIDE DEF After, i
    <3> QED BY <1>4, <2>1, <2>3, <2>6, <3>4, <3>5 DEF i
  <2> QED BY <2>5, <2>6
<1>6. from[1] = After(1)
  <2>1. d \in 0 .. d /\ d + 1 - d = 1
    BY <1>0
  <2> HIDE DEF After
  <2> QED BY <1>5, <2>1
<1> QED BY <1>1, <1>2, <1>6

(* What FlattenSeq computes, as a function of how much it has joined.       *)
LEMMA FlattenFunction ==
  ASSUME NEW S, NEW q \in Seq(Seq(S)), Len(q) # 0
  PROVE  \E f : /\ FlattenSeq(q) = f[Len(q)] /\ f[1] = q[1]
                /\ \A i \in 2 .. Len(q) : f[i] = f[i - 1] \o q[i]
<1> DEFINE L == Len(q)
           Turn(f, i) == IF i = 1 THEN q[i] ELSE f[i - 1] \o q[i]
           Fits(n) == \E f : f = [i \in 1 .. n |-> Turn(f, i)]
           Bad == {n \in 0 .. L : ~Fits(n)}
<1>0. L \in Nat /\ L # 0
  OBVIOUS
<1>1. Fits(0)
  <2>1. [i \in 1 .. 0 |-> {}] = [i \in 1 .. 0 |-> Turn([j \in 1 .. 0 |-> {}], i)]
    OBVIOUS
  <2> QED BY <2>1
<1>2. ASSUME NEW n \in 0 .. (L - 1), Fits(n) PROVE Fits(n + 1)
  <2>1. PICK f : f = [i \in 1 .. n |-> Turn(f, i)]
    BY <1>2
  <2> DEFINE k == n + 1
             g == [i \in 1 .. k |-> IF i = k THEN Turn(f, k) ELSE f[i]]
  <2>2. k \in 1 .. L /\ \A i \in 1 .. k : i # k => i \in 1 .. n
    BY <1>0
  <2>3. ASSUME NEW i \in 1 .. k PROVE g[i] = Turn(g, i)
    <3>1. g[i] = Turn(f, i)
      <4>1. CASE i = k
        BY <4>1
      <4>2. CASE i # k
        <5>1. f[i] = Turn(f, i)
          <6> HIDE DEF Turn
          <6> QED BY <2>1, <2>2, <4>2
        <5> HIDE DEF Turn
        <5> QED BY <5>1, <4>2
      <4> QED BY <4>1, <4>2
    <3>2. Turn(f, i) = Turn(g, i)
      <4>1. CASE i = 1
        BY <4>1
      <4>2. CASE i # 1
        <5>1. i - 1 \in 1 .. k /\ i - 1 # k
          BY <4>2, <2>2
        <5>2. f[i - 1] = g[i - 1]
          BY <5>1
        <5> HIDE DEF g
        <5> QED BY <5>2
      <4> QED BY <4>1, <4>2
    <3> HIDE DEF g, Turn
    <3> QED BY <3>1, <3>2
  <2>4. g = [i \in 1 .. k |-> Turn(g, i)]
    <3> HIDE DEF Turn
    <3>1. g = [i \in 1 .. k |-> g[i]]
      OBVIOUS
    <3> HIDE DEF g
    <3> QED BY <2>3, <3>1
  <2> QED BY <2>4
<1>3. Bad = {}
  <2> HIDE DEF Fits
  <2> SUFFICES ASSUME Bad # {} PROVE FALSE
    OBVIOUS
  <2>0. Bad \subseteq Nat
    BY <1>0
  <2>1. PICK m \in Bad : \A n \in Bad : m <= n
    <3> HIDE DEF Bad
    <3> QED BY <2>0, Least
  <2>2. m # 0 /\ m - 1 \in 0 .. (L - 1) /\ Fits(m - 1)
    BY <1>0, <1>1, <2>1
  <2> QED BY <1>2, <2>1, <2>2, <1>0
<1>4. \E f : f = [i \in 1 .. L |-> Turn(f, i)]
  <2>1. Fits(L)
    <3> HIDE DEF Fits
    <3> QED BY <1>0, <1>3
  <2> QED BY <2>1, <1>0
<1> DEFINE f == CHOOSE f : f = [i \in 1 .. L |-> Turn(f, i)]
<1>5. FlattenSeq(q) = f[L]
  BY <1>0 DEF FlattenSeq
<1>6. f = [i \in 1 .. L |-> Turn(f, i)]
  <2> HIDE DEF Turn
  <2> QED BY <1>4
<1>7. \A i \in 1 .. L : f[i] = Turn(f, i)
  <2> HIDE DEF Turn, f
  <2> QED BY <1>6
<1> HIDE DEF f
<1>8. f[1] = q[1] /\ \A i \in 2 .. L : f[i] = f[i - 1] \o q[i]
  <2>1. f[1] = q[1]
    BY <1>0, <1>7
  <2>2. ASSUME NEW i \in 2 .. L PROVE f[i] = f[i - 1] \o q[i]
    <3>1. i \in 1 .. L /\ i # 1
      BY <1>0
    <3>2. f[i] = Turn(f, i)
      <4> HIDE DEF Turn
      <4> QED BY <1>7, <3>1
    <3> QED BY <3>1, <3>2
  <2> QED BY <2>1, <2>2
<1> QED BY <1>5, <1>8

(* u is what s has at the places P, in the order of s, where h says.        *)
Picks(h, s, P, u) ==
  /\ h \in [1 .. Len(u) -> P]
  /\ \A j, k \in 1 .. Len(u) : j < k => h[j] < h[k]
  /\ \A i \in P : \E k \in 1 .. Len(u) : h[k] = i
  /\ \A k \in 1 .. Len(u) : u[k] = s[h[k]]

(* One more place, behind the others.                                       *)
LEMMA PicksMore ==
  ASSUME NEW S, NEW s \in Seq(S), NEW u \in Seq(S), NEW n \in 0 .. (Len(s) - 1),
         NEW P, P \subseteq 1 .. n, NEW h, Picks(h, s, P, u)
  PROVE  \E g : Picks(g, s, P \cup {n + 1}, Append(u, s[n + 1]))
<1> DEFINE v == Append(u, s[n + 1])
           g == [k \in 1 .. Len(v) |-> IF k = Len(v) THEN n + 1 ELSE h[k]]
<1>0. Len(s) \in Nat /\ n \in Nat /\ n + 1 \in 1 .. Len(s) /\ Len(u) \in Nat /\ s[n + 1] \in S
  OBVIOUS
<1>1. Len(v) = Len(u) + 1 /\ (\A k \in 1 .. Len(u) : v[k] = u[k]) /\ v[Len(u) + 1] = s[n + 1]
  BY <1>0
<1>2. g \in [1 .. Len(v) -> P \cup {n + 1}] /\ g[Len(u) + 1] = n + 1 /\ \A k \in 1 .. Len(u) : g[k] = h[k]
  <2>1. \A k \in 1 .. Len(v) : k # Len(v) => k \in 1 .. Len(u)
    BY <1>0, <1>1
  <2> HIDE DEF v
  <2> QED BY <1>0, <1>1, <2>1 DEF Picks
<1> HIDE DEF v, g
<1>3. \A j, k \in 1 .. Len(v) : j < k => g[j] < g[k]
  <2> SUFFICES ASSUME NEW j \in 1 .. Len(v), NEW k \in 1 .. Len(v), j < k PROVE g[j] < g[k]
    OBVIOUS
  <2>0. j \in 1 .. Len(u)
    BY <1>0, <1>1
  <2>1. j \in 1 .. Len(u) /\ h[j] \in 1 .. n /\ g[j] = h[j]
    <3>1. h[j] \in P
      BY <2>0 DEF Picks
    <3> QED BY <2>0, <3>1, <1>2
  <2>2. CASE k = Len(u) + 1
    BY <2>1, <2>2, <1>2, <1>0
  <2>3. CASE k # Len(u) + 1
    <3>0. k \in 1 .. Len(u)
      <4>1. Len(v) = Len(u) + 1 /\ Len(u) \in Nat
        BY <1>0, <1>1
      <4> QED BY <4>1, <2>3
    <3>1. k \in 1 .. Len(u) /\ g[k] = h[k]
      BY <3>0, <1>2
    <3> QED BY <3>1, <2>1 DEF Picks
  <2> QED BY <2>2, <2>3
<1>4. \A i \in P \cup {n + 1} : \E k \in 1 .. Len(v) : g[k] = i
  <2> SUFFICES ASSUME NEW i \in P \cup {n + 1} PROVE \E k \in 1 .. Len(v) : g[k] = i
    OBVIOUS
  <2>1. CASE i = n + 1
    BY <2>1, <1>0, <1>1, <1>2
  <2>2. CASE i \in P
    <3>1. PICK k \in 1 .. Len(u) : h[k] = i
      BY <2>2 DEF Picks
    <3>2. k \in 1 .. Len(v) /\ g[k] = i
      BY <3>1, <1>0, <1>1, <1>2
    <3> QED BY <3>2
  <2> QED BY <2>1, <2>2
<1>5. \A k \in 1 .. Len(v) : v[k] = s[g[k]]
  <2> SUFFICES ASSUME NEW k \in 1 .. Len(v) PROVE v[k] = s[g[k]]
    OBVIOUS
  <2>1. CASE k = Len(u) + 1
    BY <2>1, <1>1, <1>2
  <2>2. CASE k # Len(u) + 1
    <3>1. k \in 1 .. Len(u)
      BY <2>2, <1>0, <1>1
    <3> QED BY <3>1, <1>1, <1>2 DEF Picks
  <2> QED BY <2>1, <2>2
<1>6. Picks(g, s, P \cup {n + 1}, v)
  BY <1>2, <1>3, <1>4, <1>5 DEF Picks
<1> QED BY <1>6 DEF v

(* What At takes are the arguments at the places, in their order.           *)
LEMMA AtIs ==
  ASSUME NEW S, NEW s \in Seq(S), NEW P, P \subseteq DOMAIN s
  PROVE  At(s, P) \in Seq(S) /\ \E h : Picks(h, s, P, At(s, P))
<1> DEFINE q == [i \in DOMAIN s |-> IF i \in P THEN <<s[i]>> ELSE <<>>]
           L == Len(s)
<1>0. L \in Nat /\ DOMAIN s = 1 .. L /\ \A i \in 1 .. L : s[i] \in S
  OBVIOUS
<1>1. q \in Seq(Seq(S)) /\ Len(q) = L /\ \A i \in 1 .. L : q[i] = IF i \in P THEN <<s[i]>> ELSE <<>>
  <2>1. \A i \in 1 .. L : (IF i \in P THEN <<s[i]>> ELSE <<>>) \in Seq(S)
    BY <1>0
  <2> QED BY <1>0, <2>1
<1>2. At(s, P) = FlattenSeq(q)
  BY DEF At
<1>3. CASE L = 0
  <2>1. FlattenSeq(q) = q
    BY <1>1, <1>3 DEF FlattenSeq
  <2>2. q = <<>> /\ P = {}
    BY <1>0, <1>3
  <2>3. Picks(<<>>, s, P, <<>>)
    BY <2>2 DEF Picks
  <2>4. At(s, P) = <<>>
    BY <1>2, <2>1, <2>2
  <2>5. <<>> \in Seq(S)
    OBVIOUS
  <2> QED BY <2>3, <2>4, <2>5
<1>4. CASE L # 0
  <2> HIDE DEF q
  <2>1. PICK f : /\ FlattenSeq(q) = f[L] /\ f[1] = q[1]
                 /\ \A i \in 2 .. L : f[i] = f[i - 1] \o q[i]
    <3>1. q \in Seq(Seq(S)) /\ Len(q) = L /\ Len(q) # 0
      BY <1>1, <1>4
    <3> HIDE DEF L
    <3>2. \E f : /\ FlattenSeq(q) = f[Len(q)] /\ f[1] = q[1]
                /\ \A i \in 2 .. Len(q) : f[i] = f[i - 1] \o q[i]
      BY <3>1, FlattenFunction
    <3> QED BY <3>1, <3>2
  <2> DEFINE Fits(n) == f[n] \in Seq(S) /\ \E h : Picks(h, s, P \cap 1 .. n, f[n])
             Bad == {n \in 1 .. L : ~Fits(n)}
  <2>2. ASSUME NEW n \in 0 .. (L - 1), NEW u \in Seq(S), NEW h, Picks(h, s, P \cap 1 .. n, u),
               f[n + 1] = u \o q[n + 1]
        PROVE  Fits(n + 1)
    <3>0. n + 1 \in 1 .. L
      BY <1>0
    <3>1. CASE n + 1 \in P
      <4>1. f[n + 1] = Append(u, s[n + 1]) /\ s[n + 1] \in S
        <5>1. q[n + 1] = <<s[n + 1]>> /\ s[n + 1] \in S
          BY <1>0, <1>1, <3>0, <3>1
        <5> QED BY <5>1, <2>2
      <4>2. P \cap 1 .. (n + 1) = (P \cap 1 .. n) \cup {n + 1}
        BY <3>1
      <4>3. \E g : Picks(g, s, (P \cap 1 .. n) \cup {n + 1}, Append(u, s[n + 1]))
        <5>1. P \cap 1 .. n \subseteq 1 .. n
          OBVIOUS
        <5> QED BY <2>2, <5>1, PicksMore
      <4>4. Append(u, s[n + 1]) \in Seq(S)
        BY <4>1
      <4> QED BY <4>1, <4>2, <4>3, <4>4
    <3>2. CASE n + 1 \notin P
      <4>1. f[n + 1] = u
        <5>1. q[n + 1] = <<>>
          BY <1>1, <3>0, <3>2
        <5> QED BY <5>1, <2>2
      <4>2. P \cap 1 .. (n + 1) = P \cap 1 .. n
        BY <3>2
      <4> QED BY <4>1, <4>2, <2>2
    <3> QED BY <3>1, <3>2
  <2>3. Fits(1)
    <3>1. Picks(<<>>, s, P \cap 1 .. 0, <<>>)
      BY DEF Picks
    <3>2. f[0 + 1] = <<>> \o q[0 + 1]
      <4>1. q[1] \in Seq(S)
        BY <1>0, <1>1, <1>4
      <4> QED BY <2>1, <4>1
    <3>3. 0 \in 0 .. (L - 1) /\ <<>> \in Seq(S)
      BY <1>0, <1>4
    <3>4. Fits(0 + 1)
      <4> HIDE DEF Fits
      <4> QED BY <3>1, <3>2, <3>3, <2>2
    <3> QED BY <3>4
  <2>4. Bad = {}
    <3> SUFFICES ASSUME Bad # {} PROVE FALSE
      OBVIOUS
    <3>0. Bad \subseteq Nat
      BY <1>0
    <3>1. PICK m \in Bad : \A n \in Bad : m <= n
      <4> HIDE DEF Bad
      <4> QED BY <3>0, Least
    <3>2. m # 1 /\ m \in 2 .. L /\ m - 1 \in 1 .. L
      <4> HIDE DEF Fits
      <4> QED BY <1>0, <2>3, <3>1
    <3>3. Fits(m - 1)
      <4> HIDE DEF Fits
      <4> QED BY <1>0, <3>1, <3>2
    <3>4. PICK h : Picks(h, s, P \cap 1 .. (m - 1), f[m - 1])
      BY <3>3
    <3>5. f[m - 1] \in Seq(S) /\ f[m - 1 + 1] = f[m - 1] \o q[m - 1 + 1] /\ m - 1 \in 0 .. (L - 1) /\ m - 1 + 1 = m
      <4>1. m - 1 \in 0 .. (L - 1) /\ m - 1 + 1 = m
        BY <1>0, <3>2
      <4>2. f[m] = f[m - 1] \o q[m]
        BY <2>1, <3>2
      <4>3. f[m - 1] \in Seq(S)
        BY <3>3
      <4> QED BY <4>1, <4>2, <4>3
    <3>6. Fits(m)
      <4> HIDE DEF Fits
      <4> QED BY <3>4, <3>5, <2>2
    <3> QED BY <3>1, <3>6
  <2>5. Fits(L)
    <3> HIDE DEF Fits
    <3> QED BY <1>0, <1>4, <2>4
  <2>6. P \cap 1 .. L = P
    BY <1>0
  <2> QED BY <1>2, <2>1, <2>5, <2>6
<1> QED BY <1>3, <1>4

-----------------------------------------------------------------------------
(* A regular list is read as its units, the options with their values, its  *)
(* free words and its end.  What the rewriting operators do to a list is     *)
(* stated as what they do to these.                                         *)
Unit(s, i) == <<s[i].name, IF Takes(CargoTakes, s[i]) THEN s[i + 1].value ELSE s[i].value>>
NamedAt(s, P) == {i \in P : s[i].name # ""}
Units(s) == {Unit(s, i) : i \in NamedAt(s, Before(s))}
DashFree(s) == \A i \in DOMAIN s : s[i] # Dashes
NoTool(s) == \A i \in Before(s) : s[i] # Toolchain
Leads(s, w) == \E i \in Free(s) : s[i].value = w /\ \A j \in Free(s) : i <= j
ConfigLast(s, c) ==
  \E i \in Before(s) : /\ i + 1 \in Before(s) /\ i + 2 \notin Before(s)
                       /\ s[i] = Opt("--config") /\ s[i + 1] = Word(c)

(* Without a "--", everything is before it.                                 *)
LEMMA DashFreeBefore ==
  ASSUME NEW S, NEW s \in Seq(S), DashFree(s)
  PROVE  Before(s) = 1 .. Len(s)
BY DEF Before, DashFree

(* Where the arguments of two lists are when one follows the other.         *)
LEMMA ConcatPlaces ==
  ASSUME NEW u \in Arguments, DashFree(u), NEW v \in Arguments
  PROVE  /\ u \o v \in Arguments /\ Len(u \o v) = Len(u) + Len(v)
         /\ Len(u) \in Nat /\ Len(v) \in Nat
         /\ \A i \in 1 .. Len(u) : (u \o v)[i] = u[i] /\ i \in Before(u) /\ i \in Before(u \o v)
         /\ \A i \in 1 .. Len(v) : (u \o v)[Len(u) + i] = v[i]
         /\ \A i \in Before(v) : i \in 1 .. Len(v) /\ Len(u) + i \in Before(u \o v)
         /\ \A k \in Before(u \o v) : k \in 1 .. Len(u) \/ \E i \in Before(v) : k = Len(u) + i
<1>0. /\ u \o v \in Arguments /\ Len(u \o v) = Len(u) + Len(v) /\ Len(u) \in Nat /\ Len(v) \in Nat
      /\ \A i \in 1 .. Len(u) : (u \o v)[i] = u[i]
      /\ \A i \in 1 .. Len(v) : (u \o v)[Len(u) + i] = v[i]
  BY DEF Arguments
<1> DEFINE x == u \o v
<1> HIDE DEF x
<1>1. /\ x \in Arguments /\ Len(x) = Len(u) + Len(v) /\ Len(u) \in Nat /\ Len(v) \in Nat
      /\ \A i \in 1 .. Len(u) : x[i] = u[i]
      /\ \A i \in 1 .. Len(v) : x[Len(u) + i] = v[i]
  BY <1>0 DEF x
<1>2. DOMAIN x = 1 .. Len(x) /\ DOMAIN u = 1 .. Len(u) /\ DOMAIN v = 1 .. Len(v)
  BY <1>1 DEF Arguments
<1>3. \A i \in 1 .. Len(u) : u[i] # Dashes /\ i \in Before(u)
  BY <1>1, <1>2 DEF DashFree, Before
<1>4. \A i \in 1 .. Len(u) : i \in Before(x)
  BY <1>1, <1>2, <1>3 DEF Before
<1>5. ASSUME NEW i \in Before(v) PROVE i \in 1 .. Len(v) /\ Len(u) + i \in Before(x)
  <2>1. i \in 1 .. Len(v) /\ \A j \in 1 .. i : v[j] # Dashes
    BY <1>2, <1>5 DEF Before
  <2>2. ASSUME NEW j \in 1 .. (Len(u) + i) PROVE x[j] # Dashes
    <3>1. CASE j \in 1 .. Len(u)
      BY <3>1, <1>1, <1>3
    <3>2. CASE j \notin 1 .. Len(u)
      <4>1. j - Len(u) \in 1 .. i /\ j - Len(u) \in 1 .. Len(v) /\ Len(u) + (j - Len(u)) = j
        BY <3>2, <2>1, <1>1
      <4> QED BY <4>1, <2>1, <1>1
    <3> QED BY <3>1, <3>2
  <2>3. Len(u) + i \in DOMAIN x
    BY <1>1, <1>2, <2>1
  <2> QED BY <2>1, <2>2, <2>3 DEF Before
<1>6. ASSUME NEW k \in Before(x), k \notin 1 .. Len(u) PROVE \E i \in Before(v) : k = Len(u) + i
  <2>1. k \in 1 .. Len(x) /\ \A j \in 1 .. k : x[j] # Dashes
    BY <1>2 DEF Before
  <2>2. k - Len(u) \in 1 .. Len(v) /\ Len(u) + (k - Len(u)) = k
    BY <1>1, <1>6, <2>1
  <2>3. ASSUME NEW j \in 1 .. (k - Len(u)) PROVE v[j] # Dashes
    <3>1. j \in 1 .. Len(v) /\ Len(u) + j \in 1 .. k
      BY <1>1, <2>1, <2>2
    <3> QED BY <3>1, <2>1, <1>1
  <2>4. k - Len(u) \in Before(v)
    BY <1>2, <2>2, <2>3 DEF Before
  <2> QED BY <2>2, <2>4
<1> QED BY <1>1, <1>3, <1>4, <1>5, <1>6 DEF x

(* An argument whose value is in the next one is an option.                 *)
LEMMA OptionTakes ==
  ASSUME NEW a, Takes(CargoTakes, a) PROVE a.name # "" /\ a.value = ""
BY DEF Takes, CargoTakes, CommandTakes, GlobalTakes, FeatureOptions, PackageTakes

(* Two lists joined have the units of both.                                 *)
LEMMA ConcatListed ==
  ASSUME NEW u, Listed(u), DashFree(u), NEW v, Listed(v)
  PROVE  Listed(u \o v) /\ Units(u \o v) = Units(u) \cup Units(v)
<1> DEFINE x == u \o v
           n == Len(u)
<1>1. /\ x \in Arguments /\ Len(x) = n + Len(v) /\ n \in Nat /\ Len(v) \in Nat
      /\ \A i \in 1 .. n : x[i] = u[i] /\ i \in Before(u) /\ i \in Before(x)
      /\ \A i \in 1 .. Len(v) : x[n + i] = v[i]
      /\ \A i \in Before(v) : i \in 1 .. Len(v) /\ n + i \in Before(x)
      /\ \A k \in Before(x) : k \in 1 .. n \/ \E i \in Before(v) : k = n + i
  BY ConcatPlaces DEF Listed
<1>2. Before(u) = 1 .. n
  BY DashFreeBefore DEF Listed, Arguments
<1> HIDE DEF x, n
<1>3. ASSUME NEW i \in 1 .. n PROVE Unit(x, i) = Unit(u, i) /\ x[i].name = u[i].name
                                    /\ (Takes(CargoTakes, x[i]) => i + 1 \in 1 .. n /\ x[i + 1] = u[i + 1])
  <2>1. x[i] = u[i]
    BY <1>1
  <2>2. ASSUME Takes(CargoTakes, x[i]) PROVE i + 1 \in 1 .. n /\ x[i + 1] = u[i + 1]
    <3>1. i + 1 \in 1 .. n
      BY <1>2, <2>1, <2>2 DEF Listed, Valued
    <3> QED BY <3>1, <1>1
  <2> QED BY <2>1, <2>2 DEF Unit
<1>4. ASSUME NEW i \in Before(v) PROVE Unit(x, n + i) = Unit(v, i) /\ x[n + i].name = v[i].name
                                       /\ (Takes(CargoTakes, x[n + i]) => i + 1 \in Before(v) /\ x[n + i + 1] = v[i + 1])
  <2>1. x[n + i] = v[i] /\ i \in 1 .. Len(v)
    BY <1>1
  <2>2. ASSUME Takes(CargoTakes, x[n + i]) PROVE i + 1 \in Before(v) /\ x[n + i + 1] = v[i + 1]
    <3>1. i + 1 \in Before(v)
      BY <2>1, <2>2 DEF Listed, Valued
    <3>2. n + i + 1 = n + (i + 1) /\ i + 1 \in 1 .. Len(v)
      BY <1>1, <2>1, <3>1
    <3> QED BY <3>1, <3>2, <1>1
  <2> QED BY <2>1, <2>2 DEF Unit
<1>5. Valued(x)
  <2> SUFFICES ASSUME NEW k \in Before(x), Takes(CargoTakes, x[k])
               PROVE  k + 1 \in Before(x) /\ x[k + 1].name = "" /\ x[k + 1].value # ""
    BY DEF Valued
  <2>1. CASE k \in 1 .. n
    <3>1. Takes(CargoTakes, u[k]) /\ k + 1 \in 1 .. n /\ x[k + 1] = u[k + 1]
      BY <1>1, <1>3, <2>1
    <3>2. k \in Before(u) /\ k + 1 \in Before(x)
      BY <3>1, <1>1, <1>2, <2>1
    <3>3. u[k + 1].name = "" /\ u[k + 1].value # ""
      BY <3>1, <3>2 DEF Listed, Valued
    <3> QED BY <3>1, <3>2, <3>3
  <2>2. CASE k \notin 1 .. n
    <3>1. PICK i \in Before(v) : k = n + i
      BY <1>1, <2>2
    <3>2. Takes(CargoTakes, v[i]) /\ i + 1 \in Before(v) /\ x[n + i + 1] = v[i + 1] /\ k + 1 = n + (i + 1)
      <4>1. i \in 1 .. Len(v)
        BY <1>1, <3>1
      <4> QED BY <1>1, <1>4, <3>1, <4>1
    <3>3. k + 1 \in Before(x) /\ x[k + 1] = v[i + 1]
      BY <1>1, <3>1, <3>2
    <3>4. v[i + 1].name = "" /\ v[i + 1].value # ""
      BY <3>2 DEF Listed, Valued
    <3> QED BY <3>3, <3>4
  <2> QED BY <2>1, <2>2
<1>6. ASSUME NEW m \in Units(x) PROVE m \in Units(u) \cup Units(v)
  <2>1. PICK k \in Before(x) : x[k].name # "" /\ m = Unit(x, k)
    BY DEF Units, NamedAt
  <2>2. CASE k \in 1 .. n
    <3>1. k \in Before(u) /\ u[k].name # "" /\ m = Unit(u, k)
      BY <1>2, <1>3, <2>1, <2>2
    <3> QED BY <3>1 DEF Units, NamedAt
  <2>3. CASE k \notin 1 .. n
    <3>1. PICK i \in Before(v) : k = n + i
      BY <1>1, <2>3
    <3>2. v[i].name # "" /\ m = Unit(v, i)
      BY <1>4, <2>1, <3>1
    <3> QED BY <3>2 DEF Units, NamedAt
  <2> QED BY <2>2, <2>3
<1>7. Units(u) \subseteq Units(x)
  <2> SUFFICES ASSUME NEW m \in Units(u) PROVE m \in Units(x)
    OBVIOUS
  <2>1. PICK k \in Before(u) : u[k].name # "" /\ m = Unit(u, k)
    BY DEF Units, NamedAt
  <2>2. k \in Before(x) /\ x[k].name # "" /\ m = Unit(x, k)
    BY <1>1, <1>2, <1>3, <2>1
  <2> QED BY <2>2 DEF Units, NamedAt
<1>8. Units(v) \subseteq Units(x)
  <2> SUFFICES ASSUME NEW m \in Units(v) PROVE m \in Units(x)
    OBVIOUS
  <2>1. PICK k \in Before(v) : v[k].name # "" /\ m = Unit(v, k)
    BY DEF Units, NamedAt
  <2>2. n + k \in Before(x) /\ x[n + k].name # "" /\ m = Unit(x, n + k)
    BY <1>1, <1>4, <2>1
  <2> QED BY <2>2 DEF Units, NamedAt
<1> QED BY <1>1, <1>5, <1>6, <1>7, <1>8 DEF Listed, x

(* The definition of Free, at one place.                                    *)
LEMMA FreeAt ==
  ASSUME NEW s, NEW k
  PROVE  k \in Free(s) <=> k \in Before(s) /\ s[k].name = "" /\ (k = 1 \/ ~Takes(CargoTakes, s[k - 1]))
BY DEF Free

(* Two lists joined have the free words of both.                            *)
LEMMA ConcatFree ==
  ASSUME NEW u, Listed(u), DashFree(u), NEW v, Listed(v)
  PROVE  /\ \A i \in Free(u) : i \in Free(u \o v) /\ i \in 1 .. Len(u)
         /\ \A i \in Free(v) : Len(u) + i \in Free(u \o v)
         /\ \A k \in Free(u \o v) : k \in Free(u) \/ \E i \in Free(v) : k = Len(u) + i
<1> DEFINE x == u \o v
           n == Len(u)
<1>1. /\ x \in Arguments /\ Len(x) = n + Len(v) /\ n \in Nat /\ Len(v) \in Nat
      /\ \A i \in 1 .. n : x[i] = u[i] /\ i \in Before(u) /\ i \in Before(x)
      /\ \A i \in 1 .. Len(v) : x[n + i] = v[i]
      /\ \A i \in Before(v) : i \in 1 .. Len(v) /\ n + i \in Before(x)
      /\ \A k \in Before(x) : k \in 1 .. n \/ \E i \in Before(v) : k = n + i
  BY ConcatPlaces DEF Listed
<1>2. Before(u) = 1 .. n
  BY DashFreeBefore DEF Listed, Arguments
<1> HIDE DEF x, n
<1>3. ASSUME NEW i \in 1 .. n PROVE i \in Free(u) <=> i \in Free(x)
  <2>1. x[i] = u[i] /\ i \in Before(u) /\ i \in Before(x) /\ (i # 1 => x[i - 1] = u[i - 1])
    BY <1>1
  <2> QED BY <2>1 DEF Free
<1>4. ASSUME NEW i \in Before(v) PROVE i \in Free(v) <=> n + i \in Free(x)
  <2> DEFINE k == n + i
  <2>1. x[k] = v[i] /\ k \in Before(x) /\ i \in 1 .. Len(v)
    BY <1>1
  <2>2. CASE i # 1
    <3>1. k - 1 = n + (i - 1) /\ i - 1 \in 1 .. Len(v) /\ k # 1
      BY <1>1, <2>1, <2>2
    <3>2. x[k - 1] = v[i - 1]
      BY <3>1, <1>1
    <3> HIDE DEF k
    <3>3. k \in Free(x) <=> v[i].name = "" /\ ~Takes(CargoTakes, x[k - 1])
      BY <2>1, <3>1, FreeAt
    <3>4. i \in Free(v) <=> v[i].name = "" /\ ~Takes(CargoTakes, v[i - 1])
      BY <2>2, FreeAt
    <3>5. k \in Free(x) <=> i \in Free(v)
      BY <3>2, <3>3, <3>4
    <3> QED BY <3>5 DEF k
  <2>3. CASE i = 1
    <3>1. n # 0 => ~Takes(CargoTakes, x[n])
      <4> SUFFICES ASSUME n # 0, Takes(CargoTakes, x[n]) PROVE FALSE
        OBVIOUS
      <4>1. n \in 1 .. n /\ x[n] = u[n]
        BY <1>1
      <4>2. n + 1 \in 1 .. n
        BY <1>2, <4>1 DEF Listed, Valued
      <4> QED BY <4>2, <1>1
    <3>2. k - 1 = n /\ (k = 1 <=> n = 0)
      BY <1>1, <2>3
    <3> HIDE DEF k
    <3>3. k = 1 \/ ~Takes(CargoTakes, x[k - 1])
      BY <3>1, <3>2
    <3>4. k \in Free(x) <=> v[i].name = ""
      BY <2>1, <3>3, FreeAt
    <3>5. i \in Free(v) <=> v[i].name = ""
      BY <2>3, FreeAt
    <3>6. k \in Free(x) <=> i \in Free(v)
      BY <3>4, <3>5
    <3> QED BY <3>6 DEF k
  <2> QED BY <2>2, <2>3
<1>5. Free(u) \subseteq 1 .. n /\ Free(v) \subseteq Before(v) /\ Free(x) \subseteq Before(x)
  BY <1>2 DEF Free
<1>6. \A i \in Free(u) : i \in Free(x) /\ i \in 1 .. n
  BY <1>3, <1>5
<1>7. \A i \in Free(v) : n + i \in Free(x)
  BY <1>4, <1>5
<1>8. ASSUME NEW k \in Free(x) PROVE k \in Free(u) \/ \E i \in Free(v) : k = n + i
  <2>1. CASE k \in 1 .. n
    BY <2>1, <1>3
  <2>2. CASE k \notin 1 .. n
    <3>1. PICK i \in Before(v) : k = n + i
      BY <1>1, <1>5, <2>2
    <3> QED BY <3>1, <1>4
  <2> QED BY <2>1, <2>2
<1> QED BY <1>6, <1>7, <1>8 DEF x, n

(* The command of two lists joined is that of the first, if it has one; the  *)
(* last configuration that of the second.                                   *)
LEMMA ConcatLeads ==
  ASSUME NEW u, Listed(u), DashFree(u), NEW v, Listed(v)
  PROVE  /\ \A w : Leads(u, w) => Leads(u \o v, w)
         /\ Free(u) = {} => \A w : Leads(v, w) => Leads(u \o v, w)
         /\ Free(u) = {} /\ Free(v) = {} => Free(u \o v) = {}
         /\ Ordered(u) /\ (Ordered(v) \/ Free(u) # {}) => Ordered(u \o v)
         /\ ToolFirst(u) /\ NoTool(v) => ToolFirst(u \o v)
         /\ NoTool(u) /\ NoTool(v) => NoTool(u \o v)
         /\ DashFree(v) => DashFree(u \o v)
         /\ \A c : ConfigLast(v, c) => ConfigLast(u \o v, c)
<1> DEFINE x == u \o v
           n == Len(u)
<1>1. /\ x \in Arguments /\ Len(x) = n + Len(v) /\ n \in Nat /\ Len(v) \in Nat
      /\ \A i \in 1 .. n : x[i] = u[i] /\ i \in Before(u) /\ i \in Before(x)
      /\ \A i \in 1 .. Len(v) : x[n + i] = v[i]
      /\ \A i \in Before(v) : i \in 1 .. Len(v) /\ n + i \in Before(x)
      /\ \A k \in Before(x) : k \in 1 .. n \/ \E i \in Before(v) : k = n + i
  BY ConcatPlaces DEF Listed
<1>2. Before(u) = 1 .. n
  BY DashFreeBefore DEF Listed, Arguments
<1>3. /\ \A i \in Free(u) : i \in Free(x) /\ i \in 1 .. n
      /\ \A i \in Free(v) : n + i \in Free(x)
      /\ \A k \in Free(x) : k \in Free(u) \/ \E i \in Free(v) : k = n + i
  BY ConcatFree
<1> HIDE DEF x, n
<1>4. \A i \in Free(v) : i \in 1 .. Len(v)
  BY <1>1 DEF Free
<1>5. ASSUME NEW w, Leads(u, w) PROVE Leads(x, w)
  <2>1. PICK i \in Free(u) : u[i].value = w /\ \A j \in Free(u) : i <= j
    BY <1>5 DEF Leads
  <2>2. i \in Free(x) /\ x[i].value = w /\ i \in 1 .. n
    BY <1>1, <1>3, <2>1
  <2>3. ASSUME NEW k \in Free(x) PROVE i <= k
    <3>1. CASE k \in Free(u)
      BY <3>1, <2>1
    <3>2. CASE k \notin Free(u)
      <4>1. PICK j \in Free(v) : k = n + j
        BY <3>2, <1>3
      <4> QED BY <4>1, <1>1, <1>4, <2>2
    <3> QED BY <3>1, <3>2
  <2> QED BY <2>2, <2>3 DEF Leads
<1>6. ASSUME NEW w, Free(u) = {}, Leads(v, w) PROVE Leads(x, w)
  <2>1. PICK i \in Free(v) : v[i].value = w /\ \A j \in Free(v) : i <= j
    BY <1>6 DEF Leads
  <2>2. n + i \in Free(x) /\ x[n + i].value = w /\ i \in 1 .. Len(v)
    BY <1>1, <1>3, <1>4, <2>1
  <2>3. ASSUME NEW k \in Free(x) PROVE n + i <= k
    <3>1. PICK j \in Free(v) : k = n + j
      BY <1>3, <1>6
    <3> QED BY <3>1, <1>1, <1>4, <2>1, <2>2
  <2> QED BY <2>2, <2>3 DEF Leads
<1>7. ASSUME Ordered(u), Ordered(v) \/ Free(u) # {} PROVE Ordered(x)
  <2> SUFFICES ASSUME NEW k \in Before(x), Takes(CargoTakes \ CommandTakes, x[k])
               PROVE  \E j \in Free(x) : j < k
    BY DEF Ordered
  <2>1. CASE k \in 1 .. n
    <3>1. PICK j \in Free(u) : j < k
      BY <1>1, <1>7, <2>1 DEF Ordered
    <3> QED BY <3>1, <1>3
  <2>2. CASE k \notin 1 .. n
    <3>1. PICK i \in Before(v) : k = n + i
      BY <1>1, <2>2
    <3>2. CASE Free(u) # {}
      <4>1. PICK j \in Free(u) : TRUE
        BY <3>2
      <4>2. j \in Free(x) /\ j \in 1 .. n /\ i \in 1 .. Len(v)
        BY <1>1, <1>3, <3>1, <4>1
      <4> QED BY <4>2, <3>1, <1>1
    <3>3. CASE Ordered(v)
      <4>0. i \in 1 .. Len(v) /\ Takes(CargoTakes \ CommandTakes, v[i])
        BY <1>1, <3>1
      <4>1. PICK j \in Free(v) : j < i
        BY <3>1, <3>3, <4>0 DEF Ordered
      <4>2. n + j \in Free(x) /\ n + j < n + i
        BY <1>1, <1>3, <1>4, <4>0, <4>1
      <4> QED BY <4>2, <3>1
    <3> QED BY <1>7, <3>2, <3>3
  <2> QED BY <2>1, <2>2
<1>8. (ToolFirst(u) /\ NoTool(v) => ToolFirst(x)) /\ (NoTool(u) /\ NoTool(v) => NoTool(x))
  <2>1. ASSUME NEW k \in Before(x), x[k] = Toolchain, NoTool(v) PROVE k \in Before(u) /\ u[k] = Toolchain
    <3>1. CASE k \in 1 .. n
      BY <2>1, <3>1, <1>1
    <3>2. CASE k \notin 1 .. n
      <4>1. PICK i \in Before(v) : k = n + i
        BY <3>2, <1>1
      <4> QED BY <4>1, <1>1, <2>1 DEF NoTool
    <3> QED BY <3>1, <3>2
  <2> QED BY <2>1 DEF ToolFirst, NoTool
<1>9. ASSUME DashFree(v) PROVE DashFree(x)
  <2> SUFFICES ASSUME NEW k \in DOMAIN x PROVE x[k] # Dashes
    BY DEF DashFree
  <2>0. k \in 1 .. n + Len(v) /\ DOMAIN u = 1 .. n /\ DOMAIN v = 1 .. Len(v)
    BY <1>1 DEF Arguments, Listed, n
  <2>1. CASE k \in 1 .. n
    BY <2>0, <2>1, <1>1 DEF DashFree
  <2>2. CASE k \notin 1 .. n
    <3>1. k - n \in 1 .. Len(v) /\ n + (k - n) = k
      BY <1>1, <2>0, <2>2
    <3>2. x[k] = v[k - n]
      BY <3>1, <1>1
    <3> QED BY <3>1, <3>2, <1>9, <2>0 DEF DashFree
  <2> QED BY <2>1, <2>2
<1>10. ASSUME NEW c, ConfigLast(v, c) PROVE ConfigLast(x, c)
  <2>1. PICK i \in Before(v) : /\ i + 1 \in Before(v) /\ i + 2 \notin Before(v)
                               /\ v[i] = Opt("--config") /\ v[i + 1] = Word(c)
    BY <1>10 DEF ConfigLast
  <2>2. i \in 1 .. Len(v) /\ i + 1 \in 1 .. Len(v) /\ n + i + 1 = n + (i + 1) /\ n + i + 2 = n + (i + 2)
    BY <1>1, <2>1
  <2>3. n + i \in Before(x) /\ n + i + 1 \in Before(x) /\ x[n + i] = v[i] /\ x[n + i + 1] = v[i + 1]
    BY <1>1, <2>1, <2>2
  <2>4. n + i + 2 \notin Before(x)
    <3> SUFFICES ASSUME n + i + 2 \in Before(x) PROVE FALSE
      OBVIOUS
    <3>1. n + i + 2 \notin 1 .. n
      BY <1>1, <2>2
    <3>2. PICK j \in Before(v) : n + i + 2 = n + j
      BY <3>1, <1>1
    <3>3. j = i + 2
      BY <3>2, <1>1, <2>2
    <3> QED BY <3>3, <2>1
  <2> QED BY <2>1, <2>3, <2>4 DEF ConfigLast
<1>11. Free(u) = {} /\ Free(v) = {} => Free(x) = {}
  BY <1>3
<1> QED BY <1>5, <1>6, <1>7, <1>8, <1>9, <1>10, <1>11 DEF x

(* The places P have an option and its value both, or neither.              *)
Together(s, P) == \A i \in Before(s) : Takes(CargoTakes, s[i]) => (i \in P <=> i + 1 \in P)

(* What is taken from a list keeps its units and its free words.            *)
LEMMA PickFacts ==
  ASSUME NEW s, Listed(s), NEW P, P \subseteq Before(s), Together(s, P)
  PROVE  /\ At(s, P) \in Arguments /\ DashFree(At(s, P)) /\ Valued(At(s, P))
         /\ \E h : /\ Picks(h, s, P, At(s, P))
                   /\ \A k \in 1 .. Len(At(s, P)) :
                        /\ Unit(At(s, P), k) = Unit(s, h[k])
                        /\ k \in Free(At(s, P)) <=> h[k] \in Free(s)
<1> DEFINE u == At(s, P)
<1>1. PICK d \in 0 .. Len(s) : /\ Before(s) = 1 .. d /\ \A i \in 1 .. d : s[i] # Dashes
                               /\ d < Len(s) => s[d + 1] = Dashes
  BY BeforeIs DEF Listed, Arguments
<1>2. u \in Arguments /\ \E h : Picks(h, s, P, u)
  <2>1. s \in Seq(Argument) /\ P \subseteq DOMAIN s
    BY DEF Listed, Arguments, Before
  <2> QED BY <2>1, AtIs DEF Arguments
<1> HIDE DEF u
<1>3. PICK h : Picks(h, s, P, u)
  BY <1>2
<1>4. Len(u) \in Nat /\ DOMAIN u = 1 .. Len(u)
  BY <1>2 DEF Arguments
<1>5. \A k \in 1 .. Len(u) : h[k] \in P /\ h[k] \in 1 .. d /\ u[k] = s[h[k]]
  BY <1>1, <1>3 DEF Picks
<1>6. DashFree(u)
  BY <1>1, <1>4, <1>5 DEF DashFree
<1>7. Before(u) = 1 .. Len(u)
  BY <1>2, <1>6, DashFreeBefore DEF Arguments
<1>8. ASSUME NEW k \in 1 .. Len(u), h[k] + 1 \in P PROVE k + 1 \in 1 .. Len(u) /\ h[k + 1] = h[k] + 1
  <2>1. PICK m \in 1 .. Len(u) : h[m] = h[k] + 1
    BY <1>3, <1>8 DEF Picks
  <2>2. m > k
    <3>1. h[k] \in Nat /\ h[m] \in Nat /\ h[m] > h[k]
      BY <1>5, <2>1
    <3>2. m # k /\ ~(m < k)
      BY <3>1, <1>3 DEF Picks
    <3> QED BY <3>2, <1>4
  <2>3. k + 1 \in 1 .. Len(u) /\ h[k] < h[k + 1]
    <3>1. k + 1 \in 1 .. Len(u) /\ k < k + 1
      BY <2>2, <1>4
    <3> QED BY <3>1, <1>3 DEF Picks
  <2>4. ~(k + 1 < m)
    <3> SUFFICES ASSUME k + 1 < m PROVE FALSE
      OBVIOUS
    <3>1. h[k + 1] < h[m]
      BY <2>3, <1>3 DEF Picks
    <3>2. h[k] \in Nat /\ h[k + 1] \in Nat
      BY <1>5, <2>3
    <3> QED BY <3>1, <3>2, <2>1, <2>3
  <2>5. m = k + 1
    BY <2>2, <2>4, <1>4
  <2> QED BY <2>1, <2>3, <2>5
<1>9. ASSUME NEW k \in 1 .. Len(u), Takes(CargoTakes, u[k])
      PROVE  k + 1 \in 1 .. Len(u) /\ u[k + 1] = s[h[k] + 1] /\ u[k + 1].name = "" /\ u[k + 1].value # ""
  <2>1. h[k] \in Before(s) /\ Takes(CargoTakes, s[h[k]]) /\ h[k] \in P
    BY <1>1, <1>5, <1>9
  <2>2. h[k] + 1 \in P /\ s[h[k] + 1].name = "" /\ s[h[k] + 1].value # ""
    BY <2>1 DEF Together, Listed, Valued
  <2>3. k + 1 \in 1 .. Len(u) /\ h[k + 1] = h[k] + 1
    BY <2>2, <1>8
  <2> QED BY <2>2, <2>3, <1>5
<1>10. Valued(u)
  BY <1>7, <1>9 DEF Valued
<1>11. ASSUME NEW k \in 1 .. Len(u) PROVE Unit(u, k) = Unit(s, h[k])
  <2>1. u[k] = s[h[k]]
    BY <1>5
  <2>2. CASE Takes(CargoTakes, u[k])
    <3>1. u[k + 1] = s[h[k] + 1]
      BY <2>2, <1>9
    <3> QED BY <3>1, <2>1 DEF Unit
  <2>3. CASE ~Takes(CargoTakes, u[k])
    BY <2>1, <2>3 DEF Unit
  <2> QED BY <2>2, <2>3
<1>12. ASSUME NEW k \in 1 .. Len(u) PROVE k \in Free(u) <=> h[k] \in Free(s)
  <2>1. u[k] = s[h[k]] /\ k \in Before(u) /\ h[k] \in Before(s) /\ h[k] \in P /\ h[k] \in 1 .. d
    BY <1>1, <1>5, <1>7
  <2>2. ASSUME k \in Free(u) PROVE h[k] \in Free(s)
    <3>1. u[k].name = "" /\ (k = 1 \/ ~Takes(CargoTakes, u[k - 1]))
      BY <2>2, FreeAt
    <3>2. CASE h[k] = 1
      BY <2>1, <3>1, <3>2, FreeAt
    <3>3. ASSUME h[k] # 1, Takes(CargoTakes, s[h[k] - 1]) PROVE FALSE
      <4>1. h[k] - 1 \in Before(s) /\ h[k] - 1 + 1 = h[k]
        BY <1>1, <2>1, <3>3
      <4> DEFINE g == h[k] - 1
      <4> HIDE DEF g
      <4>2. g \in Before(s) /\ g + 1 = h[k] /\ Takes(CargoTakes, s[g])
        BY <4>1, <3>3 DEF g
      <4>3. g \in P
        BY <4>2, <2>1 DEF Together
      <4>4. PICK m \in 1 .. Len(u) : h[m] = g
        BY <4>3, <1>3 DEF Picks
      <4>5. m + 1 \in 1 .. Len(u) /\ h[m + 1] = h[k]
        BY <4>2, <4>4, <2>1, <1>8
      <4>6. k = m + 1
        <5>1. h[k] \in Nat /\ ~(h[k] < h[k])
          BY <2>1
        <5>2. ~(k < m + 1) /\ ~(m + 1 < k)
          BY <5>1, <4>5, <1>3 DEF Picks
        <5> QED BY <5>2, <4>5, <1>4
      <4>7. k # 1 /\ k - 1 = m /\ u[k - 1] = s[g]
        BY <4>6, <4>4, <1>4, <1>5
      <4> QED BY <4>7, <4>2, <3>1
    <3> QED BY <2>1, <3>1, <3>2, <3>3, FreeAt
  <2>3. ASSUME h[k] \in Free(s) PROVE k \in Free(u)
    <3>1. s[h[k]].name = "" /\ (h[k] = 1 \/ ~Takes(CargoTakes, s[h[k] - 1]))
      BY <2>3, FreeAt
    <3>2. ASSUME k # 1, Takes(CargoTakes, u[k - 1]) PROVE FALSE
      <4>1. k - 1 \in 1 .. Len(u) /\ k - 1 + 1 = k
        BY <1>4, <3>2
      <4> DEFINE m == k - 1
      <4> HIDE DEF m
      <4>2. m \in 1 .. Len(u) /\ m + 1 = k /\ Takes(CargoTakes, u[m])
        BY <4>1, <3>2 DEF m
      <4>3. h[m] \in P /\ h[m] \in 1 .. d /\ Takes(CargoTakes, s[h[m]]) /\ h[m] + 1 \in P
        <5>1. h[m] \in P /\ h[m] \in 1 .. d /\ Takes(CargoTakes, s[h[m]])
          BY <4>2, <1>5
        <5> QED BY <5>1, <1>1 DEF Together
      <4>4. h[k] = h[m] + 1
        BY <4>2, <4>3, <1>8
      <4>5. h[k] # 1 /\ h[k] - 1 = h[m]
        BY <4>3, <4>4
      <4> QED BY <4>5, <4>3, <3>1
    <3> QED BY <2>1, <3>1, <3>2, FreeAt
  <2> QED BY <2>2, <2>3
<1> QED BY <1>2, <1>3, <1>6, <1>10, <1>11, <1>12 DEF u

(* Options taken from a list with their values make a list of their own.    *)
LEMMA PickIs ==
  ASSUME NEW s, Listed(s), NEW P, P \subseteq Before(s), Together(s, P)
  PROVE  /\ Listed(At(s, P)) /\ DashFree(At(s, P))
         /\ Units(At(s, P)) = {Unit(s, i) : i \in NamedAt(s, P)}
         /\ Ordered(s) /\ Free(s) \subseteq P => Ordered(At(s, P)) /\ \A w : Leads(s, w) => Leads(At(s, P), w)
         /\ (\A i \in P : ~Takes(CargoTakes \ CommandTakes, s[i])) => Ordered(At(s, P))
         /\ (\A i \in P : s[i] # Toolchain) => NoTool(At(s, P))
         /\ P \cap Free(s) = {} => Free(At(s, P)) = {}
         /\ ToolFirst(s) => ToolFirst(At(s, P))
<1> DEFINE u == At(s, P)
<1>1. u \in Arguments /\ DashFree(u) /\ Valued(u)
  BY PickFacts
<1>2. PICK h : /\ Picks(h, s, P, u)
               /\ \A k \in 1 .. Len(u) : Unit(u, k) = Unit(s, h[k]) /\ (k \in Free(u) <=> h[k] \in Free(s))
  BY PickFacts
<1> HIDE DEF u
<1>3. Before(u) = 1 .. Len(u) /\ Len(u) \in Nat
  BY <1>1, DashFreeBefore DEF Arguments
<1>4. PICK d \in 0 .. Len(s) : Before(s) = 1 .. d
  BY BeforeIs DEF Listed, Arguments
<1>5. Before(s) \subseteq Nat
  BY <1>4 DEF Listed, Arguments
<1>6. /\ \A k \in 1 .. Len(u) : h[k] \in P /\ h[k] \in Nat /\ u[k] = s[h[k]]
      /\ \A j, k \in 1 .. Len(u) : j < k => h[j] < h[k]
      /\ \A i \in P : \E k \in 1 .. Len(u) : h[k] = i
  BY <1>2, <1>5 DEF Picks
<1>7. Free(u) \subseteq 1 .. Len(u) /\ Free(s) \subseteq Before(s)
  BY <1>3 DEF Free
<1>8. Units(u) = {Unit(s, i) : i \in NamedAt(s, P)}
  <2>1. ASSUME NEW m \in Units(u) PROVE m \in {Unit(s, i) : i \in NamedAt(s, P)}
    <3>1. PICK k \in 1 .. Len(u) : u[k].name # "" /\ m = Unit(u, k)
      BY <1>3 DEF Units, NamedAt
    <3>2. h[k] \in P /\ s[h[k]].name # "" /\ m = Unit(s, h[k])
      BY <1>2, <1>6, <3>1
    <3> QED BY <3>2 DEF NamedAt
  <2>2. ASSUME NEW i \in P, s[i].name # "" PROVE Unit(s, i) \in Units(u)
    <3>1. PICK k \in 1 .. Len(u) : h[k] = i
      BY <1>6
    <3>2. u[k].name # "" /\ Unit(u, k) = Unit(s, i)
      BY <1>2, <1>6, <2>2, <3>1
    <3> QED BY <1>3, <3>2 DEF Units, NamedAt
  <2> QED BY <2>1, <2>2 DEF NamedAt
<1>9. ASSUME NEW i \in Free(s), NEW k \in 1 .. Len(u), h[k] = i PROVE k \in Free(u)
  BY <1>2, <1>9
<1>10. ASSUME NEW j \in 1 .. Len(u), NEW k \in 1 .. Len(u), h[j] <= h[k] PROVE j <= k
  <2>1. ~(k < j)
    BY <1>6, <1>10
  <2> QED BY <2>1, <1>3
<1>11. ASSUME Ordered(s), Free(s) \subseteq P PROVE Ordered(u)
  <2> SUFFICES ASSUME NEW k \in 1 .. Len(u), Takes(CargoTakes \ CommandTakes, u[k])
               PROVE  \E j \in Free(u) : j < k
    BY <1>3 DEF Ordered
  <2>1. PICK i \in Free(s) : i < h[k]
    BY <1>6, <1>11 DEF Ordered
  <2>2. PICK j \in 1 .. Len(u) : h[j] = i
    BY <2>1, <1>6, <1>11
  <2>3. j \in Free(u)
    BY <2>2, <1>9
  <2>4. j < k
    <3>1. ~(h[k] <= h[j])
      BY <2>1, <2>2, <1>6
    <3>2. ~(k <= j)
      <4>1. k < j => h[k] < h[j]
        BY <2>2, <1>6
      <4>2. h[k] \in Nat /\ h[j] \in Nat
        BY <1>6, <2>2
      <4> QED BY <4>1, <4>2, <3>1, <1>3, <2>2
    <3> QED BY <3>2, <1>3
  <2> QED BY <2>3, <2>4
<1>12. ASSUME Free(s) \subseteq P, NEW w, Leads(s, w) PROVE Leads(u, w)
  <2>1. PICK i \in Free(s) : s[i].value = w /\ \A j \in Free(s) : i <= j
    BY <1>12 DEF Leads
  <2>2. PICK k \in 1 .. Len(u) : h[k] = i
    BY <2>1, <1>6, <1>12
  <2>3. k \in Free(u) /\ u[k].value = w
    BY <2>1, <2>2, <1>6, <1>9
  <2>4. ASSUME NEW j \in Free(u) PROVE k <= j
    <3>1. j \in 1 .. Len(u) /\ h[j] \in Free(s)
      BY <1>2, <1>7
    <3>2. h[k] <= h[j]
      BY <3>1, <2>1, <2>2
    <3> QED BY <3>1, <3>2, <1>10
  <2> QED BY <2>3, <2>4 DEF Leads
<1>13. (\A i \in P : ~Takes(CargoTakes \ CommandTakes, s[i])) => Ordered(u)
  BY <1>3, <1>6 DEF Ordered
<1>14. (\A i \in P : s[i] # Toolchain) => NoTool(u)
  BY <1>3, <1>6 DEF NoTool
<1>15. P \cap Free(s) = {} => Free(u) = {}
  BY <1>2, <1>6, <1>7
<1>16. ASSUME ToolFirst(s) PROVE ToolFirst(u)
  <2> SUFFICES ASSUME NEW k \in 1 .. Len(u), u[k] = Toolchain PROVE k = 1
    BY <1>3 DEF ToolFirst
  <2>1. h[k] = 1
    BY <1>6, <1>16 DEF ToolFirst
  <2>2. ~(1 < k)
    <3> SUFFICES ASSUME 1 < k PROVE FALSE
      OBVIOUS
    <3>1. 1 \in 1 .. Len(u) /\ h[1] < h[k]
      BY <1>3, <1>6
    <3>2. h[1] \in 1 .. d
      BY <3>1, <1>4, <1>6
    <3> QED BY <3>1, <3>2, <2>1
  <2> QED BY <2>2, <1>3
<1> QED BY <1>1, <1>8, <1>11, <1>12, <1>13, <1>14, <1>15, <1>16 DEF u, Listed

(* The names and values of the arguments the code makes.                    *)
LEMMA Fields ==
  /\ Toolchain.name = "+" /\ Toolchain.value = "nightly" /\ Dashes.name = "--" /\ Dashes.value = ""
  /\ \A n : Opt(n).name = n /\ Opt(n).value = ""
  /\ \A w : Word(w).name = "" /\ Word(w).value = w
BY DEF Toolchain, Joined, Dashes, Opt, Word

(* An option that some loop steps over is one that takes a value.           *)
LEMMA TakesMore ==
  ASSUME NEW T \in SUBSET CargoTakes, NEW a, Takes(T, a)
  PROVE  Takes(CargoTakes, a) /\ a.name \in T /\ a.name # "" /\ a.value = ""
<1>1. Takes(CargoTakes, a) /\ a.name \in T
  BY DEF Takes
<1> QED BY <1>1, OptionTakes

(* Places before "--" are numbers, and every place before one is too.       *)
LEMMA Places ==
  ASSUME NEW s, Listed(s)
  PROVE  /\ Before(s) \subseteq Nat \ {0} /\ Before(s) \subseteq DOMAIN s
         /\ \A i \in Before(s) : i # 1 => i - 1 \in Before(s) /\ (i - 1) + 1 = i
         /\ \A i \in Before(s) : (i + 1) - 1 = i /\ i + 1 # 1
<1>1. PICK d \in 0 .. Len(s) : Before(s) = 1 .. d
  BY BeforeIs DEF Listed, Arguments
<1>2. Len(s) \in Nat
  BY DEF Listed, Arguments
<1>3. \A i \in Before(s) : i # 1 => i - 1 \in Before(s) /\ (i - 1) + 1 = i
  BY <1>1, <1>2
<1>4. \A i \in Before(s) : (i + 1) - 1 = i /\ i + 1 # 1
  BY <1>1, <1>2
<1>5. Before(s) \subseteq Nat \ {0}
  BY <1>1, <1>2
<1>6. Before(s) \subseteq DOMAIN s
  BY DEF Before
<1> QED BY <1>3, <1>4, <1>5, <1>6

(* An option's value, in the argument after it, is no free word.            *)
LEMMA ValueAfter ==
  ASSUME NEW s, Listed(s), NEW i \in Before(s), Takes(CargoTakes, s[i])
  PROVE  /\ i + 1 \in Before(s) /\ s[i + 1].name = "" /\ s[i + 1].value # "" /\ i + 1 \notin Free(s)
         /\ s[i].name # "" /\ s[i].value = ""
<1>1. i + 1 \in Before(s) /\ s[i + 1].name = "" /\ s[i + 1].value # ""
  BY DEF Listed, Valued
<1>2. s[i].name # "" /\ s[i].value = ""
  BY OptionTakes
<1>3. (i + 1) - 1 = i /\ i + 1 # 1
  BY Places
<1> DEFINE k == i + 1
<1>4. k - 1 = i /\ k # 1
  BY <1>3
<1> HIDE DEF k
<1>5. k \notin Free(s)
  BY <1>4, FreeAt
<1> QED BY <1>1, <1>2, <1>5 DEF k

(* An option or a free word is no option's value.                           *)
LEMMA NamedHead ==
  ASSUME NEW s, Listed(s), NEW i \in Before(s), s[i].name # "" \/ i \in Free(s)
  PROVE  i = 1 \/ ~Takes(CargoTakes, s[i - 1])
<1> SUFFICES ASSUME i # 1, Takes(CargoTakes, s[i - 1]) PROVE FALSE
  OBVIOUS
<1> DEFINE k == i - 1
<1>1. k \in Before(s) /\ k + 1 = i /\ Takes(CargoTakes, s[k])
  BY Places
<1> HIDE DEF k
<1>2. s[k + 1].name = "" /\ k + 1 \notin Free(s)
  BY <1>1, ValueAfter
<1> QED BY <1>1, <1>2

(* A loop looks at every free word and at every option, and at the value     *)
(* of an option exactly if it does not know the option.                     *)
LEMMA HeadFacts ==
  ASSUME NEW s, Listed(s), NEW T \in SUBSET CargoTakes
  PROVE  /\ Heads(s, T) \subseteq Before(s) /\ Free(s) \subseteq Heads(s, T)
         /\ \A i \in Before(s) : s[i].name # "" => i \in Heads(s, T)
         /\ \A i \in Before(s) : Takes(CargoTakes, s[i]) => (i + 1 \in Heads(s, T) <=> s[i].name \notin T)
<1>1. Heads(s, T) = {i \in Before(s) : i = 1 \/ ~Takes(T, s[i - 1])}
  BY HeadsAre DEF Listed
<1>2. \A i \in Before(s) : i \in Heads(s, T) <=> i = 1 \/ ~Takes(T, s[i - 1])
  BY <1>1
<1>3. Heads(s, T) \subseteq Before(s)
  BY <1>1
<1> HIDE <1>1
<1>4. ASSUME NEW i \in Before(s), s[i].name # "" \/ i \in Free(s) PROVE i \in Heads(s, T)
  <2>1. i = 1 \/ ~Takes(CargoTakes, s[i - 1])
    BY <1>4, NamedHead
  <2>2. i = 1 \/ ~Takes(T, s[i - 1])
    BY <2>1, TakesMore
  <2> QED BY <1>2, <2>2
<1>5. ASSUME NEW i \in Before(s), Takes(CargoTakes, s[i]) PROVE i + 1 \in Heads(s, T) <=> s[i].name \notin T
  <2> DEFINE k == i + 1
  <2>1. k \in Before(s) /\ k - 1 = i /\ k # 1 /\ s[i].value = ""
    BY <1>5, ValueAfter, Places
  <2> HIDE DEF k
  <2>2. k \in Heads(s, T) <=> ~Takes(T, s[i])
    BY <1>2, <2>1
  <2>3. Takes(T, s[i]) <=> s[i].name \in T
    BY <2>1 DEF Takes
  <2>4. k \in Heads(s, T) <=> s[i].name \notin T
    BY <2>2, <2>3
  <2> QED BY <2>4 DEF k
<1>6. Free(s) \subseteq Before(s)
  BY DEF Free
<1> QED BY <1>3, <1>4, <1>5, <1>6

(* Q is what a loop that steps over the values of T picks of T itself.      *)
Looked(s, T, Q) == T \in SUBSET CargoTakes /\ Q = {i \in Heads(s, T) : s[i].name \in T}

(* The options picked, with their values.                                   *)
LEMMA WithValuesAre ==
  ASSUME NEW s, Listed(s), NEW T, NEW Q, Looked(s, T, Q)
  PROVE  LET W == WithValues(s, T, Q)
         IN  /\ W \subseteq Before(s) /\ Together(s, W) /\ W \cap Free(s) = {}
             /\ Q = {i \in Before(s) : s[i].name \in T}
             /\ NamedAt(s, W) \subseteq Q
             /\ Q \subseteq W
<1> DEFINE W == WithValues(s, T, Q)
<1>0. T \in SUBSET CargoTakes /\ Q = {i \in Heads(s, T) : s[i].name \in T}
  BY DEF Looked
<1>1. "" \notin T
  BY <1>0 DEF CargoTakes, CommandTakes, GlobalTakes, FeatureOptions, PackageTakes
<1>2. Q = {i \in Before(s) : s[i].name \in T}
  <2>1. Heads(s, T) \subseteq Before(s) /\ \A i \in Before(s) : s[i].name # "" => i \in Heads(s, T)
    BY <1>0, HeadFacts
  <2> QED BY <1>0, <1>1, <2>1
<1>3. ASSUME NEW i \in Q, Takes(T, s[i])
      PROVE  i + 1 \in Before(s) /\ i + 1 \in DOMAIN s /\ s[i + 1].name = "" /\ i + 1 \notin Free(s)
  <2>1. i \in Before(s) /\ Takes(CargoTakes, s[i])
    BY <1>0, <1>2, <1>3, TakesMore
  <2> QED BY <2>1, ValueAfter, Places
<1>4. W = Q \cup {i + 1 : i \in {j \in Q : Takes(T, s[j])}}
  BY <1>3 DEF WithValues
<1> HIDE DEF W
<1>5. W \subseteq Before(s) /\ (\A i \in W : i \in Q \/ s[i].name = "") /\ Q \subseteq W
  BY <1>2, <1>3, <1>4
<1>6. W \cap Free(s) = {}
  <2>1. Q \cap Free(s) = {}
    BY <1>1, <1>2 DEF Free
  <2>2. \A i \in W : i \in Q \/ \E j \in Q : Takes(T, s[j]) /\ i = j + 1
    BY <1>4
  <2>3. ASSUME NEW i \in W, i \in Free(s) PROVE FALSE
    <3>1. i \notin Q
      BY <2>1, <2>3
    <3>2. PICK j \in Q : Takes(T, s[j]) /\ i = j + 1
      BY <2>2, <3>1
    <3> QED BY <1>3, <2>3, <3>2
  <2> QED BY <2>3
<1>7. Together(s, W)
  <2> SUFFICES ASSUME NEW i \in Before(s), Takes(CargoTakes, s[i]) PROVE i \in W <=> i + 1 \in W
    BY DEF Together
  <2>1. /\ i + 1 \in Before(s) /\ s[i + 1].name = "" /\ s[i].name # "" /\ s[i].value = ""
        /\ i \in Nat
    BY ValueAfter, Places
  <2>2. i \in W <=> s[i].name \in T
    <3>1. i \in W <=> i \in Q
      BY <1>5, <2>1
    <3> QED BY <1>2, <3>1
  <2>3. i + 1 \in W <=> s[i].name \in T
    <3>1. ASSUME i + 1 \in W PROVE s[i].name \in T
      <4>1. i + 1 \notin Q
        BY <1>1, <1>2, <2>1
      <4>2. PICK j \in Q : i + 1 = j + 1
        BY <1>4, <3>1, <4>1
      <4>3. j \in Nat
        BY <1>2, Places
      <4>4. i = j
        <5>1. i \in Nat
          BY <2>1
        <5> QED BY <4>2, <4>3, <5>1
      <4> QED BY <1>2, <4>4
    <3>2. ASSUME s[i].name \in T PROVE i + 1 \in W
      <4>1. i \in Q /\ Takes(T, s[i])
        BY <1>2, <2>1, <3>2 DEF Takes
      <4> QED BY <1>4, <4>1
    <3> QED BY <3>1, <3>2
  <2> QED BY <2>2, <2>3
<1>8. NamedAt(s, W) \subseteq Q
  BY <1>5 DEF NamedAt
<1> QED BY <1>2, <1>5, <1>6, <1>7, <1>8 DEF W

(* What follows "--" is nothing that Cargo reads.                           *)
LEMMA RestIs ==
  ASSUME NEW s, Listed(s)
  PROVE  LET r == AfterDashes(s) IN
         Listed(r) /\ Before(r) = {} /\ Units(r) = {} /\ Free(r) = {} /\ Ordered(r) /\ NoTool(r)
<1> DEFINE r == AfterDashes(s)
           P == DOMAIN s \ Before(s)
<1>1. PICK d \in 0 .. Len(s) : /\ Before(s) = 1 .. d /\ \A i \in 1 .. d : s[i] # Dashes
                               /\ d < Len(s) => s[d + 1] = Dashes
  BY BeforeIs DEF Listed, Arguments
<1>2. r \in Arguments /\ \E h : Picks(h, s, P, r)
  <2>1. s \in Seq(Argument) /\ P \subseteq DOMAIN s
    BY DEF Listed, Arguments
  <2> HIDE DEF P
  <2>2. r = At(s, P)
    BY DEF AfterDashes, P
  <2> QED BY <2>1, <2>2, AtIs DEF Arguments
<1>3. PICK h : Picks(h, s, P, r)
  BY <1>2
<1> HIDE DEF r
<1>4. Len(r) \in Nat /\ DOMAIN r = 1 .. Len(r) /\ Len(s) \in Nat /\ DOMAIN s = 1 .. Len(s)
  BY <1>2 DEF Arguments, Listed
<1>5. Len(r) # 0 => r[1] = Dashes
  <2> SUFFICES ASSUME Len(r) # 0 PROVE r[1] = Dashes
    OBVIOUS
  <2>0. 1 \in 1 .. Len(r)
    BY <1>4
  <2>1. 1 \in 1 .. Len(r) /\ h[1] \in P /\ r[1] = s[h[1]]
    BY <1>3, <2>0 DEF Picks
  <2>2. h[1] \in d + 1 .. Len(s) /\ d + 1 \in P /\ s[d + 1] = Dashes
    BY <2>1, <1>1, <1>4
  <2>3. PICK k \in 1 .. Len(r) : h[k] = d + 1
    BY <2>2, <1>3 DEF Picks
  <2>4. ~(1 < k)
    <3> SUFFICES ASSUME 1 < k PROVE FALSE
      OBVIOUS
    <3>1. h[1] < h[k]
      BY <2>1, <1>3 DEF Picks
    <3> QED BY <3>1, <2>2, <2>3, <1>1, <1>4
  <2>5. k = 1
    BY <2>4, <1>4
  <2> QED BY <2>1, <2>2, <2>3, <2>5
<1>6. Before(r) = {}
  <2> SUFFICES ASSUME NEW i \in Before(r) PROVE FALSE
    OBVIOUS
  <2>1. i \in 1 .. Len(r) /\ \A j \in 1 .. i : r[j] # Dashes
    BY <1>4 DEF Before
  <2>2. 1 \in 1 .. i /\ Len(r) # 0
    BY <2>1, <1>4
  <2> QED BY <2>1, <2>2, <1>5
<1>7. Listed(r) /\ Units(r) = {} /\ Free(r) = {} /\ Ordered(r) /\ NoTool(r)
  BY <1>2, <1>6 DEF Listed, Valued, Units, NamedAt, Free, Ordered, NoTool
<1> QED BY <1>6, <1>7 DEF r

(* An inequality the provers are not to look into.                          *)
NonEmpty(v) == v # ""
(* An option and a value as telekio adds them.                              *)
LEMMA PairIs ==
  ASSUME NEW n, n = "--config" \/ n = "--package", NEW v, NonEmpty(v), Word(v) \in Argument, Opt(n) \in Argument
  PROVE  LET u == <<Opt(n), Word(v)>> IN
         /\ Listed(u) /\ DashFree(u) /\ NoTool(u) /\ Units(u) = {<<n, v>>} /\ Free(u) = {}
         /\ (n = "--config" => Ordered(u) /\ \A r : Listed(r) /\ Before(r) = {} => ConfigLast(u \o r, v))
<1> DEFINE o == Opt(n)
           w == Word(v)
           u == <<o, w>>
<1>0. o.name = n /\ o.value = "" /\ w.name = "" /\ w.value = v
  BY Fields
<1>1. o \in Argument /\ w \in Argument
  OBVIOUS
<1> HIDE DEF o, w
<1>2. /\ u \in Arguments /\ Len(u) = 2 /\ u[1] = o /\ u[2] = w
  <2>1. <<o, w>> \in Seq(Argument)
    BY <1>1
  <2> QED BY <2>1 DEF Arguments
<1> HIDE DEF u
<1>3. DOMAIN u = {1, 2}
  <2>1. DOMAIN u = 1 .. Len(u)
    BY <1>2 DEF Arguments
  <2> QED BY <1>2, <2>1
<1>4. DashFree(u)
  <2>1. o # Dashes /\ w # Dashes
    BY <1>0, Fields
  <2> QED BY <1>2, <1>3, <2>1 DEF DashFree
<1>5. Before(u) = {1, 2}
  <2>1. Before(u) = 1 .. Len(u)
    BY <1>2, <1>4, DashFreeBefore DEF Arguments
  <2>2. Before(u) = DOMAIN u
    BY <1>2, <2>1 DEF Arguments
  <2> QED BY <2>2, <1>3
<1>6. Takes(CargoTakes, o) /\ ~Takes(CargoTakes, w) /\ n # ""
  BY <1>0 DEF Takes, CargoTakes, CommandTakes, GlobalTakes, FeatureOptions, PackageTakes
<1>7. Valued(u)
  <2>1. \A i \in Before(u) : Takes(CargoTakes, u[i]) => i = 1
    BY <1>2, <1>5, <1>6
  <2>2. 1 + 1 \in Before(u) /\ u[1 + 1].name = "" /\ u[1 + 1].value # ""
    <3>1. w.value # ""
      BY <1>0 DEF NonEmpty
    <3>2. 1 + 1 = 2 /\ u[2] = w /\ 2 \in Before(u)
      BY <1>2, <1>5
    <3>3. w.name = ""
      BY <1>0
    <3> QED BY <3>1, <3>2, <3>3
  <2> QED BY <2>1, <2>2 DEF Valued
<1>8. NoTool(u)
  <2>1. o # Toolchain /\ w # Toolchain
    BY <1>0, Fields
  <2> QED BY <1>2, <1>5, <2>1 DEF NoTool
<1>9. Units(u) = {<<n, v>>}
  <2>1. NamedAt(u, Before(u)) = {1}
    BY <1>0, <1>2, <1>5, <1>6 DEF NamedAt
  <2>2. Unit(u, 1) = <<n, v>>
    <3>2. 1 + 1 = 2
      OBVIOUS
    <3>1. u[1].name = n /\ u[1 + 1].value = v /\ Takes(CargoTakes, u[1])
      BY <1>0, <1>2, <1>6, <3>2
    <3> QED BY <3>1 DEF Unit
  <2> QED BY <2>1, <2>2 DEF Units
<1>10. Free(u) = {}
  <2>1. 1 \notin Free(u)
    BY <1>0, <1>2, <1>6, FreeAt
  <2>2. 2 \notin Free(u)
    <3>0. 2 - 1 = 1 /\ ~(2 = 1)
      OBVIOUS
    <3>1. Takes(CargoTakes, u[2 - 1])
      BY <1>2, <1>6, <3>0
    <3> QED BY <3>0, <3>1, FreeAt
  <2>3. Free(u) \subseteq {1, 2}
    BY <1>5 DEF Free
  <2> QED BY <2>1, <2>2, <2>3
<1>11. ASSUME n = "--config" PROVE Ordered(u)
  <2>1. ~Takes(CargoTakes \ CommandTakes, o) /\ ~Takes(CargoTakes \ CommandTakes, w)
    BY <1>0, <1>6, <1>11 DEF Takes, CommandTakes, GlobalTakes
  <2> QED BY <1>2, <1>5, <2>1 DEF Ordered
<1>12. ASSUME n = "--config", NEW r, Listed(r), Before(r) = {} PROVE ConfigLast(u \o r, v)
  <2> DEFINE x == u \o r
  <2>1. /\ \A i \in 1 .. Len(u) : x[i] = u[i] /\ i \in Before(u) /\ i \in Before(x)
        /\ \A k \in Before(x) : k \in 1 .. Len(u) \/ \E i \in Before(r) : k = Len(u) + i
    BY <1>2, <1>4, <1>12, ConcatPlaces DEF Listed
  <2> HIDE DEF x
  <2>2. x[1] = o /\ x[2] = w /\ 1 \in Before(x) /\ 2 \in Before(x) /\ 3 \notin Before(x)
    <3>1. 1 \in 1 .. Len(u) /\ 2 \in 1 .. Len(u) /\ 3 \notin 1 .. Len(u)
      BY <1>2
    <3> QED BY <1>2, <1>12, <2>1, <3>1
  <2>3. ConfigLast(x, v)
    <3>1. 1 + 1 = 2 /\ 1 + 2 = 3 /\ o = Opt("--config") /\ w = Word(v)
      BY <1>12 DEF o, w
    <3> QED BY <2>2, <3>1 DEF ConfigLast
  <2> QED BY <2>3 DEF x
<1>13. Listed(u)
  BY <1>2, <1>7 DEF Listed
<1> QED BY <1>4, <1>8, <1>9, <1>10, <1>11, <1>12, <1>13 DEF u, o, w

(* The last configuration of two lists joined is that of the second.        *)
LEMMA ConcatConfig ==
  ASSUME NEW u, Listed(u), DashFree(u), NEW v, Listed(v)
  PROVE  /\ NoTool(u) /\ NoTool(v) => NoTool(u \o v)
         /\ \A c : ConfigLast(v, c) => ConfigLast(u \o v, c)
<1> DEFINE x == u \o v
           n == Len(u)
<1>1. /\ Len(x) = n + Len(v) /\ n \in Nat /\ Len(v) \in Nat
      /\ \A i \in 1 .. n : x[i] = u[i] /\ i \in Before(u)
      /\ \A i \in 1 .. Len(v) : x[n + i] = v[i]
      /\ \A i \in Before(v) : i \in 1 .. Len(v) /\ n + i \in Before(x)
      /\ \A k \in Before(x) : k \in 1 .. n \/ \E i \in Before(v) : k = n + i
  BY ConcatPlaces DEF Listed
<1> HIDE DEF x, n
<1>2. ASSUME NoTool(u), NoTool(v) PROVE NoTool(x)
  <2> SUFFICES ASSUME NEW k \in Before(x) PROVE x[k] # Toolchain
    BY DEF NoTool
  <2>1. CASE k \in 1 .. n
    BY <1>1, <1>2, <2>1 DEF NoTool
  <2>2. CASE k \notin 1 .. n
    <3>1. PICK i \in Before(v) : k = n + i
      BY <1>1, <2>2
    <3>2. x[k] = v[i]
      BY <1>1, <3>1
    <3> QED BY <1>2, <3>2 DEF NoTool
  <2> QED BY <2>1, <2>2
<1>3. ASSUME NEW c, ConfigLast(v, c) PROVE ConfigLast(x, c)
  <2>1. PICK i \in Before(v) : /\ i + 1 \in Before(v) /\ i + 2 \notin Before(v)
                               /\ v[i] = Opt("--config") /\ v[i + 1] = Word(c)
    BY <1>3 DEF ConfigLast
  <2>2. i \in 1 .. Len(v) /\ i + 1 \in 1 .. Len(v)
    BY <1>1, <2>1
  <2> DEFINE k == n + i
  <2>3. k + 1 = n + (i + 1) /\ k + 2 = n + (i + 2)
    BY <1>1, <2>2
  <2>4. k + 2 \notin Before(x)
    <3> SUFFICES ASSUME k + 2 \in Before(x) PROVE FALSE
      OBVIOUS
    <3>1. k + 2 \notin 1 .. n
      BY <1>1, <2>2
    <3>2. PICK j \in Before(v) : k + 2 = n + j
      BY <1>1, <3>1
    <3>3. j \in Nat
      BY <1>1, <3>2
    <3>4. j = i + 2
      BY <1>1, <2>2, <3>2, <3>3
    <3> QED BY <2>1, <3>4
  <2>5. x[k] = v[i] /\ k \in Before(x)
    BY <1>1, <2>1, <2>2
  <2>6. x[k + 1] = v[i + 1] /\ k + 1 \in Before(x)
    BY <1>1, <2>1, <2>2, <2>3
  <2> HIDE DEF k
  <2> QED BY <2>1, <2>4, <2>5, <2>6 DEF ConfigLast
<1> QED BY <1>2, <1>3 DEF x

-----------------------------------------------------------------------------
(* status: the toolchain, the rest, the user's --config and the patch's.    *)
FirstTool(s) == IF s # <<>> /\ s[1] = Toolchain THEN {1} ELSE {}
(* The toolchain, taken by itself.                                          *)
LEMMA ToolIs ==
  ASSUME NEW s, Regular(s)
  PROVE  LET P == FirstTool(s)
             u == At(s, P)
         IN  /\ P \subseteq Before(s) /\ \A i \in P : i = 1 /\ s[i] = Toolchain
             /\ (1 \in Before(s) /\ s[1] = Toolchain => 1 \in P)
             /\ Listed(u) /\ DashFree(u) /\ Units(u) = {Unit(s, i) : i \in NamedAt(s, P)}
             /\ Ordered(u) /\ ToolFirst(u) /\ Free(u) = {}
             /\ Together(s, P) /\ P \cap Free(s) = {}
<1> DEFINE P == FirstTool(s)
<1>1. \A i \in P : i = 1 /\ s[i] = Toolchain /\ s # <<>>
  BY DEF FirstTool
<1>2. Listed(s) /\ ToolFirst(s)
  BY DEF Regular
<1>3. PICK d \in 0 .. Len(s) : /\ Before(s) = 1 .. d /\ \A i \in 1 .. d : s[i] # Dashes
                               /\ d < Len(s) => s[d + 1] = Dashes
  BY <1>2, BeforeIs DEF Listed, Arguments
<1>4. Toolchain # Dashes /\ ~Takes(CargoTakes, Toolchain) /\ Toolchain.name # ""
  BY Fields DEF Takes
<1>5. ASSUME s # <<>>, s[1] = Toolchain PROVE 1 \in Before(s)
  <2>1. Len(s) \in Nat /\ Len(s) # 0
    BY <1>2, <1>5 DEF Listed, Arguments
  <2>2. d # 0
    <3> SUFFICES ASSUME d = 0 PROVE FALSE
      OBVIOUS
    <3>1. d < Len(s) /\ d + 1 = 1
      BY <2>1
    <3>2. s[1] = Dashes
      BY <1>3, <3>1
    <3> QED BY <1>4, <1>5, <3>2
  <2> QED BY <1>3, <2>1, <2>2
<1>6. P \subseteq Before(s)
  BY <1>1, <1>5
<1>7. ASSUME 1 \in Before(s), s[1] = Toolchain PROVE 1 \in P
  <2>1. s # <<>>
    BY <1>2, <1>7, <1>3 DEF Listed, Arguments
  <2> QED BY <1>7, <2>1 DEF FirstTool
<1> HIDE DEF P
<1>8. Together(s, P)
  <2> SUFFICES ASSUME NEW i \in Before(s), Takes(CargoTakes, s[i]) PROVE i \notin P /\ i + 1 \notin P
    BY DEF Together
  <2>1. i \notin P
    BY <1>1, <1>4
  <2>2. i + 1 # 1
    BY <1>2, Places
  <2> QED BY <1>1, <2>1, <2>2
<1>9. \A i \in P : ~Takes(CargoTakes \ CommandTakes, s[i])
  BY <1>1, <1>4 DEF Takes
<1>10. P \cap Free(s) = {}
  BY <1>1, <1>4 DEF Free
<1>11. /\ Listed(At(s, P)) /\ DashFree(At(s, P)) /\ Units(At(s, P)) = {Unit(s, i) : i \in NamedAt(s, P)}
  BY <1>2, <1>6, <1>8, PickIs
<1>12. Ordered(At(s, P)) /\ ToolFirst(At(s, P)) /\ Free(At(s, P)) = {}
  BY <1>2, <1>6, <1>8, <1>9, <1>10, PickIs
<1> QED BY <1>1, <1>6, <1>7, <1>8, <1>10, <1>11, <1>12 DEF P

(* Where status finds the user's --config, and the rest.                    *)
ConfigPlaces(s) == {i \in Heads(s, {"--config"}) \ FirstTool(s) : s[i].name = "--config"}
OtherPlaces(s) == (Heads(s, {"--config"}) \ FirstTool(s)) \ ConfigPlaces(s)
StatusTail(s, c) == <<Opt("--config"), Word(c)>> \o AfterDashes(s)

(* The configuration of the patch, followed by what is behind "--".         *)
LEMMA TailIs ==
  ASSUME NEW s, Listed(s), NEW c \in Patches
  PROVE  LET u == StatusTail(s, c) IN
         /\ Listed(u) /\ Units(u) = {<<"--config", c>>} /\ Free(u) = {}
         /\ Ordered(u) /\ NoTool(u) /\ ConfigLast(u, c)
<1> DEFINE p == <<Opt("--config"), Word(c)>>
           r == AfterDashes(s)
           u == p \o r
<1>1. Word(c) \in Argument /\ Opt("--config") \in Argument /\ NonEmpty(c)
  <2>1. NonEmpty(c)
    BY DEF Patches, NonEmpty
  <2>2. c \in Text /\ "--config" \in Text
    <3>1. Patches \subseteq Text
      BY TextIs
    <3>2. "--config" \in Text
      BY TextIs
    <3> QED BY <3>1, <3>2
  <2>3. Word(c) \in Argument
    BY <2>2, TextIs
  <2>4. Opt("--config") \in Argument
    BY <2>2, TextIs
  <2> QED BY <2>1, <2>3, <2>4
<1>2. /\ Listed(p) /\ DashFree(p) /\ NoTool(p) /\ Units(p) = {<<"--config", c>>} /\ Free(p) = {}
      /\ Ordered(p) /\ \A x : Listed(x) /\ Before(x) = {} => ConfigLast(p \o x, c)
  BY <1>1, PairIs
<1>3. Listed(r) /\ Before(r) = {} /\ Units(r) = {} /\ Free(r) = {} /\ Ordered(r) /\ NoTool(r)
  BY RestIs
<1> HIDE DEF p, r
<1>4. Listed(u) /\ Units(u) = {<<"--config", c>>}
  <2>1. Listed(u) /\ Units(u) = Units(p) \cup Units(r)
    BY <1>2, <1>3, ConcatListed
  <2> HIDE DEF u
  <2> QED BY <2>1, <1>2, <1>3
<1>5. Free(u) = {}
  BY <1>2, <1>3, ConcatLeads
<1>6. Ordered(u)
  BY <1>2, <1>3, ConcatLeads
<1>7. NoTool(u)
  BY <1>2, <1>3, ConcatConfig
<1>8. ConfigLast(u, c)
  BY <1>2, <1>3
<1> QED BY <1>4, <1>5, <1>6, <1>7, <1>8 DEF StatusTail, p, r

(* The user's --config with their values.                                   *)
LEMMA ConfigsIs ==
  ASSUME NEW s, Regular(s)
  PROVE  LET P == WithValues(s, {"--config"}, ConfigPlaces(s))
             u == At(s, P)
         IN  /\ P \subseteq Before(s) /\ ConfigPlaces(s) \subseteq P
             /\ \A i \in P : i \in ConfigPlaces(s) \/ s[i].name = ""
             /\ ConfigPlaces(s) = {i \in Before(s) : s[i].name = "--config"}
             /\ Listed(u) /\ DashFree(u) /\ Units(u) = {Unit(s, i) : i \in NamedAt(s, P)}
             /\ Ordered(u) /\ NoTool(u) /\ Free(u) = {}
             /\ Together(s, P) /\ P \cap Free(s) = {}
<1> DEFINE T == {"--config"}
           Q == {i \in Heads(s, T) : s[i].name \in T}
           P == WithValues(s, T, Q)
<1>0. Listed(s) /\ ToolFirst(s) /\ T \in SUBSET CargoTakes
  BY DEF Regular, CargoTakes, CommandTakes, GlobalTakes
<1>1. ConfigPlaces(s) = Q
  <2>1. \A i \in FirstTool(s) : s[i].name = "+"
    BY ToolIs, Fields
  <2> QED BY <2>1 DEF ConfigPlaces
<1>2. /\ P \subseteq Before(s) /\ Together(s, P) /\ P \cap Free(s) = {}
      /\ Q = {i \in Before(s) : s[i].name \in T}
      /\ \A i \in P : i \in Q \/ s[i].name = ""
      /\ Q \subseteq P
  <2>1. Looked(s, T, Q)
    BY <1>0 DEF Looked
  <2>2. NamedAt(s, P) \subseteq Q
    BY <1>0, <2>1, WithValuesAre
  <2>3. \A i \in P : i \in Q \/ s[i].name = ""
    BY <2>2 DEF NamedAt
  <2>4. Listed(s)
    BY <1>0
  <2>5. /\ P \subseteq Before(s) /\ Together(s, P) /\ P \cap Free(s) = {}
        /\ Q = {i \in Before(s) : s[i].name \in T} /\ Q \subseteq P
    <3> HIDE DEF T, Q
    <3> QED BY <2>1, <2>4, WithValuesAre
  <2> QED BY <2>3, <2>5
<1>3. \A i \in P : s[i].name = "" \/ s[i].name = "--config"
  BY <1>2
<1>4. \A i \in P : ~Takes(CargoTakes \ CommandTakes, s[i]) /\ s[i] # Toolchain
  <2>1. "" \notin CargoTakes /\ "--config" \in CommandTakes
    BY DEF CargoTakes, CommandTakes, GlobalTakes, FeatureOptions, PackageTakes
  <2>2. Toolchain.name = "+"
    BY Fields
  <2> QED BY <1>3, <2>1, <2>2 DEF Takes
<1> HIDE DEF P
<1>5. Listed(At(s, P)) /\ DashFree(At(s, P)) /\ Units(At(s, P)) = {Unit(s, i) : i \in NamedAt(s, P)}
  BY <1>0, <1>2, PickIs
<1>6. Ordered(At(s, P)) /\ NoTool(At(s, P)) /\ Free(At(s, P)) = {}
  BY <1>0, <1>2, <1>4, PickIs
<1>7. P = WithValues(s, {"--config"}, ConfigPlaces(s))
  BY <1>1 DEF P
<1>8. ConfigPlaces(s) = {i \in Before(s) : s[i].name = "--config"}
  BY <1>1, <1>2
<1> QED BY <1>1, <1>2, <1>5, <1>6, <1>7, <1>8

(* Everything else, in which the command stays the first free word.         *)
LEMMA OthersIs ==
  ASSUME NEW s, Regular(s)
  PROVE  LET P == OtherPlaces(s)
             u == At(s, P)
         IN  /\ P \subseteq Before(s)
             /\ \A i \in Before(s) : s[i].name # "" => i \in P \cup ConfigPlaces(s) \cup FirstTool(s)
             /\ Listed(u) /\ DashFree(u) /\ Units(u) = {Unit(s, i) : i \in NamedAt(s, P)}
             /\ Ordered(u) /\ NoTool(u) /\ (Free(s) = {} => Free(u) = {})
             /\ \A w : Leads(s, w) => Leads(u, w)
             /\ Together(s, P) /\ Free(s) \subseteq P
<1> DEFINE P == OtherPlaces(s)
           T == {"--config"}
<1>0. Listed(s) /\ ToolFirst(s) /\ Ordered(s) /\ T \in SUBSET CargoTakes
  BY DEF Regular, CargoTakes, CommandTakes, GlobalTakes
<1>1. /\ Heads(s, T) \subseteq Before(s) /\ Free(s) \subseteq Heads(s, T)
      /\ \A i \in Before(s) : s[i].name # "" => i \in Heads(s, T)
      /\ \A i \in Before(s) : Takes(CargoTakes, s[i]) => (i + 1 \in Heads(s, T) <=> s[i].name \notin T)
  BY <1>0, HeadFacts
<1>2. P = (Heads(s, T) \ FirstTool(s)) \ ConfigPlaces(s) /\ \A i \in ConfigPlaces(s) : s[i].name = "--config"
  BY DEF OtherPlaces, ConfigPlaces
<1>3. /\ \A i \in FirstTool(s) : i = 1 /\ s[i] = Toolchain
      /\ (1 \in Before(s) /\ s[1] = Toolchain => 1 \in FirstTool(s))
  BY ToolIs
<1>4. ConfigPlaces(s) = {i \in Before(s) : s[i].name = "--config"}
  BY ConfigsIs
<1> HIDE DEF P
<1>5. P \subseteq Before(s) /\ \A i \in Before(s) : s[i].name # "" => i \in P \cup ConfigPlaces(s) \cup FirstTool(s)
  BY <1>1, <1>2
<1>6. Together(s, P)
  <2> SUFFICES ASSUME NEW i \in Before(s), Takes(CargoTakes, s[i]) PROVE i \in P <=> i + 1 \in P
    BY DEF Together
  <2>1. s[i].name # "" /\ s[i].value = "" /\ i + 1 \in Before(s) /\ s[i + 1].name = ""
    BY <1>0, ValueAfter
  <2>2. i \notin FirstTool(s)
    <3>1. Toolchain.value # ""
      BY Fields
    <3> QED BY <1>3, <2>1, <3>1
  <2>3. i + 1 \notin FirstTool(s)
    <3>1. i + 1 # 1
      BY <1>0, Places
    <3> QED BY <1>3, <3>1
  <2>4. i \in P <=> s[i].name # "--config"
    BY <1>1, <1>2, <1>4, <2>1, <2>2
  <2>5. i + 1 \in P <=> s[i].name # "--config"
    <3>1. i + 1 \notin ConfigPlaces(s)
      BY <1>2, <2>1
    <3> QED BY <1>1, <1>2, <2>3, <3>1
  <2> QED BY <2>4, <2>5
<1>7. Free(s) \subseteq P
  <2> SUFFICES ASSUME NEW i \in Free(s) PROVE i \in P
    OBVIOUS
  <2>1. s[i].name = ""
    BY DEF Free
  <2>2. Toolchain.name = "+"
    BY Fields
  <2> QED BY <1>1, <1>2, <1>3, <2>1, <2>2
<1>8. \A i \in P : s[i] # Toolchain
  <2> SUFFICES ASSUME NEW i \in P, s[i] = Toolchain PROVE FALSE
    OBVIOUS
  <2>1. i = 1
    BY <1>0, <1>5 DEF ToolFirst
  <2> QED BY <2>1, <1>2, <1>3, <1>5
<1>9. Listed(At(s, P)) /\ DashFree(At(s, P)) /\ Units(At(s, P)) = {Unit(s, i) : i \in NamedAt(s, P)}
  BY <1>0, <1>5, <1>6, PickIs
<1>10. Ordered(At(s, P)) /\ \A w : Leads(s, w) => Leads(At(s, P), w)
  BY <1>0, <1>5, <1>6, <1>7, PickIs
<1>11. NoTool(At(s, P))
  BY <1>0, <1>5, <1>6, <1>8, PickIs
<1>12. Free(s) = {} => Free(At(s, P)) = {}
  BY <1>0, <1>5, <1>6, PickIs
<1> QED BY <1>5, <1>6, <1>7, <1>9, <1>10, <1>11, <1>12 DEF P

(* status, given a regular list, returns a regular list with the same        *)
(* command and options, whose last --config is the patch's.                 *)
THEOREM StatusIs ==
  ASSUME NEW s, Regular(s), NEW c \in Patches
  PROVE  LET q == status(s, c) IN
         /\ Regular(q) /\ ConfigLast(q, c)
         /\ Units(q) = Units(s) \cup {<<"--config", c>>}
         /\ Free(s) = {} => Free(q) = {}
         /\ \A w : Leads(s, w) => Leads(q, w)
<1> DEFINE PA == FirstTool(s)
           PB == OtherPlaces(s)
           PC == WithValues(s, {"--config"}, ConfigPlaces(s))
           A == At(s, PA)
           B == At(s, PB)
           C == At(s, PC)
           D == StatusTail(s, c)
           CD == C \o D
           BCD == B \o CD
           q == A \o BCD
<1>0. Listed(s) /\ Ordered(s) /\ ToolFirst(s)
  BY DEF Regular
<1>1. /\ PA \subseteq Before(s) /\ Listed(A) /\ DashFree(A) /\ Units(A) = {Unit(s, i) : i \in NamedAt(s, PA)}
      /\ Ordered(A) /\ ToolFirst(A) /\ Free(A) = {}
  BY ToolIs
<1>2. /\ PB \subseteq Before(s)
      /\ \A i \in Before(s) : s[i].name # "" => i \in PB \cup ConfigPlaces(s) \cup PA
      /\ Listed(B) /\ DashFree(B) /\ Units(B) = {Unit(s, i) : i \in NamedAt(s, PB)}
      /\ Ordered(B) /\ NoTool(B) /\ (Free(s) = {} => Free(B) = {})
      /\ \A w : Leads(s, w) => Leads(B, w)
  BY OthersIs
<1>3. /\ PC \subseteq Before(s) /\ ConfigPlaces(s) \subseteq PC
      /\ Listed(C) /\ DashFree(C) /\ Units(C) = {Unit(s, i) : i \in NamedAt(s, PC)}
      /\ Ordered(C) /\ NoTool(C) /\ Free(C) = {}
  BY ConfigsIs
<1>4. /\ Listed(D) /\ Units(D) = {<<"--config", c>>} /\ Free(D) = {}
      /\ Ordered(D) /\ NoTool(D) /\ ConfigLast(D, c)
  BY <1>0, TailIs
<1> HIDE DEF PA, PB, PC
<1>5. status(s, c) = q
  <2>1. status(s, c) = A \o (B \o (C \o (<<Opt("--config"), Word(c)>> \o AfterDashes(s))))
    BY DEF status, PA, PB, PC, FirstTool, ConfigPlaces, OtherPlaces
  <2> QED BY <2>1 DEF StatusTail
<1> HIDE DEF A, B, C, D
<1>6. /\ Listed(CD) /\ Units(CD) = Units(C) \cup {<<"--config", c>>}
  BY <1>3, <1>4, ConcatListed
<1>7. Free(CD) = {} /\ Ordered(CD)
  BY <1>3, <1>4, ConcatLeads
<1>8. NoTool(CD) /\ ConfigLast(CD, c)
  BY <1>3, <1>4, ConcatConfig
<1> HIDE DEF CD
<1>9. /\ Listed(BCD) /\ Units(BCD) = Units(B) \cup Units(CD)
  BY <1>2, <1>6, ConcatListed
<1>10. Ordered(BCD)
  BY <1>2, <1>6, <1>7, ConcatLeads
<1>11. (Free(s) = {} => Free(BCD) = {})
  BY <1>2, <1>6, <1>7, ConcatLeads
<1>12. \A w : Leads(s, w) => Leads(BCD, w)
  BY <1>2, <1>6, ConcatLeads
<1>13. NoTool(BCD) /\ ConfigLast(BCD, c)
  BY <1>2, <1>6, <1>8, ConcatConfig
<1> HIDE DEF BCD
<1>14. /\ Listed(q) /\ Units(q) = Units(A) \cup Units(BCD)
  BY <1>1, <1>9, ConcatListed
<1>15. Ordered(q)
  BY <1>1, <1>9, <1>10, ConcatLeads
<1>16. ToolFirst(q)
  BY <1>1, <1>9, <1>13, ConcatLeads
<1>17. Free(s) = {} => Free(q) = {}
  BY <1>1, <1>9, <1>11, ConcatLeads
<1>18. \A w : Leads(s, w) => Leads(q, w)
  BY <1>1, <1>9, <1>12, ConcatLeads
<1>19. ConfigLast(q, c)
  BY <1>1, <1>9, <1>13, ConcatConfig
<1> HIDE DEF q
<1>20. Units(q) = Units(s) \cup {<<"--config", c>>}
  <2>1. Units(q) = Units(A) \cup Units(B) \cup Units(C) \cup {<<"--config", c>>}
    BY <1>6, <1>9, <1>14
  <2>2. Units(A) \cup Units(B) \cup Units(C) = Units(s)
    <3>1. \A i \in Before(s) : s[i].name # "" => i \in PA \/ i \in PB \/ i \in PC
      BY <1>2, <1>3
    <3>2. NamedAt(s, Before(s)) = NamedAt(s, PA) \cup NamedAt(s, PB) \cup NamedAt(s, PC)
      BY <3>1, <1>1, <1>2, <1>3 DEF NamedAt
    <3> QED BY <3>2, <1>1, <1>2, <1>3 DEF Units
  <2> HIDE DEF q
  <2> QED BY <2>1, <2>2
<1>21. Regular(q)
  BY <1>14, <1>15, <1>16 DEF Regular
<1> QED BY <1>5, <1>17, <1>18, <1>19, <1>20, <1>21

(* Two lists without "--" joined have none.                                 *)
LEMMA ConcatDashFree ==
  ASSUME NEW u \in Arguments, DashFree(u), NEW v \in Arguments, DashFree(v)
  PROVE  DashFree(u \o v)
<1> DEFINE x == u \o v
           n == Len(u)
<1>1. /\ x \in Arguments /\ Len(x) = n + Len(v) /\ n \in Nat /\ Len(v) \in Nat
      /\ \A i \in 1 .. n : x[i] = u[i]
      /\ \A i \in 1 .. Len(v) : x[n + i] = v[i]
  BY ConcatPlaces
<1> HIDE DEF x, n
<1>2. DOMAIN x = 1 .. Len(x) /\ DOMAIN u = 1 .. n /\ DOMAIN v = 1 .. Len(v)
  BY <1>1 DEF Arguments, n
<1>3. ASSUME NEW k \in DOMAIN x PROVE x[k] # Dashes
  <2>1. CASE k \in 1 .. n
    BY <2>1, <1>1, <1>2 DEF DashFree
  <2>2. CASE k \notin 1 .. n
    <3>1. k - n \in 1 .. Len(v) /\ n + (k - n) = k
      BY <2>2, <1>1, <1>2
    <3>2. x[k] = v[k - n]
      BY <3>1, <1>1
    <3> QED BY <3>1, <3>2, <1>2 DEF DashFree
  <2> QED BY <2>1, <2>2
<1> QED BY <1>3 DEF DashFree, x

-----------------------------------------------------------------------------
(* package_arguments: --package for each package in place of the selection. *)
PackagePair(p) == <<Opt("--package"), Word(p)>>
Pairs(q) == FlattenSeq([k \in DOMAIN q |-> PackagePair(q[k])])
MembersNamed == \A p \in Members : NonEmpty(p)

(* One package asked for.                                                   *)
LEMMA PackagePairIs ==
  ASSUME MembersNamed, NEW p \in Members
  PROVE  LET u == PackagePair(p) IN
         Listed(u) /\ DashFree(u) /\ NoTool(u) /\ Units(u) = {<<"--package", p>>} /\ Free(u) = {}
<1>1. p \in Text /\ "--package" \in Text /\ NonEmpty(p)
  <2>1. Members \subseteq Nodes
    BY DEF Nodes
  <2> QED BY <2>1, TextIs DEF MembersNamed
<1>2. Word(p) \in Argument /\ Opt("--package") \in Argument
  BY <1>1, TextIs
<1> QED BY <1>1, <1>2, PairIs DEF PackagePair

(* The packages asked for, one after the other.                             *)
LEMMA PairsAre ==
  ASSUME MembersNamed, NEW q \in Seq(Members), Len(q) # 0
  PROVE  LET u == Pairs(q) IN
         /\ Listed(u) /\ DashFree(u) /\ NoTool(u) /\ Free(u) = {}
         /\ Units(u) = {<<"--package", q[k]>> : k \in 1 .. Len(q)}
<1> DEFINE x == [k \in DOMAIN q |-> PackagePair(q[k])]
           L == Len(q)
<1>0. L \in Nat /\ DOMAIN q = 1 .. L /\ \A k \in 1 .. L : q[k] \in Members
  OBVIOUS
<1>1. ASSUME NEW k \in 1 .. L
      PROVE  /\ Listed(x[k]) /\ DashFree(x[k]) /\ NoTool(x[k]) /\ Free(x[k]) = {}
             /\ Units(x[k]) = {<<"--package", q[k]>>}
  <2>1. x[k] = PackagePair(q[k]) /\ q[k] \in Members
    BY <1>0
  <2> HIDE DEF x
  <2> QED BY <2>1, PackagePairIs
<1>2. x \in Seq(Seq(Argument)) /\ Len(x) = L
  <2>1. \A k \in 1 .. L : x[k] \in Seq(Argument)
    BY <1>1 DEF Listed, Arguments
  <2>2. x = [k \in 1 .. L |-> x[k]]
    BY <1>0
  <2> HIDE DEF x
  <2> QED BY <1>0, <2>1, <2>2
<1>3. PICK f : /\ FlattenSeq(x) = f[L] /\ f[1] = x[1]
               /\ \A i \in 2 .. L : f[i] = f[i - 1] \o x[i]
  <2>1. Len(x) # 0
    BY <1>2
  <2> HIDE DEF x
  <2>2. \E f : /\ FlattenSeq(x) = f[Len(x)] /\ f[1] = x[1]
               /\ \A i \in 2 .. Len(x) : f[i] = f[i - 1] \o x[i]
    BY <1>2, <2>1, FlattenFunction
  <2> QED BY <1>2, <2>2
<1>4. Pairs(q) = f[L]
  BY <1>3 DEF Pairs
<1> HIDE DEF x
<1> DEFINE Fits(i) == /\ Listed(f[i]) /\ DashFree(f[i]) /\ NoTool(f[i]) /\ Free(f[i]) = {}
                      /\ Units(f[i]) = {<<"--package", q[k]>> : k \in 1 .. i}
           Bad == {i \in 1 .. L : ~Fits(i)}
<1>5. Fits(1)
  <2>1. 1 \in 1 .. L
    BY <1>0
  <2>2. {<<"--package", q[k]>> : k \in 1 .. 1} = {<<"--package", q[1]>>}
    OBVIOUS
  <2> QED BY <1>1, <1>3, <2>1, <2>2
<1>6. ASSUME NEW i \in 2 .. L, Fits(i - 1) PROVE Fits(i)
  <2> DEFINE u == f[i - 1]
             v == x[i]
  <2>0. i \in 1 .. L /\ i - 1 \in 1 .. L
    BY <1>0
  <2>1. /\ Listed(u) /\ DashFree(u) /\ NoTool(u) /\ Free(u) = {}
        /\ Units(u) = {<<"--package", q[k]>> : k \in 1 .. (i - 1)}
    BY <1>6
  <2>2. /\ Listed(v) /\ DashFree(v) /\ NoTool(v) /\ Free(v) = {}
        /\ Units(v) = {<<"--package", q[i]>>}
    BY <1>1, <2>0
  <2>3. f[i] = u \o v
    BY <1>3
  <2> HIDE DEF u, v
  <2>4. Listed(f[i]) /\ Units(f[i]) = Units(u) \cup Units(v)
    BY <2>1, <2>2, <2>3, ConcatListed
  <2>5. DashFree(f[i])
    BY <2>1, <2>2, <2>3, ConcatDashFree DEF Listed
  <2>6. NoTool(f[i])
    BY <2>1, <2>2, <2>3, ConcatConfig
  <2>7. Free(f[i]) = {}
    BY <2>1, <2>2, <2>3, ConcatLeads
  <2>8. Units(f[i]) = {<<"--package", q[k]>> : k \in 1 .. i}
    <3>1. 1 .. i = (1 .. (i - 1)) \cup {i}
      BY <2>0
    <3> QED BY <2>1, <2>2, <2>4, <3>1
  <2> QED BY <2>4, <2>5, <2>6, <2>7, <2>8
<1>7. Bad = {}
  <2> HIDE DEF Fits
  <2> SUFFICES ASSUME Bad # {} PROVE FALSE
    OBVIOUS
  <2>0. Bad \subseteq Nat
    BY <1>0
  <2>1. PICK m \in Bad : \A n \in Bad : m <= n
    <3> HIDE DEF Bad
    <3> QED BY <2>0, Least
  <2>2. m \in 1 .. L /\ ~Fits(m)
    BY <2>1
  <2>3. m # 1
    BY <2>2, <1>5
  <2>4. m \in 2 .. L /\ m - 1 \in 1 .. L /\ ~(m <= m - 1)
    BY <2>2, <2>3, <1>0
  <2>5. Fits(m - 1)
    BY <2>1, <2>4
  <2> QED BY <1>6, <2>2, <2>4, <2>5
<1>8. Fits(L)
  <2>1. L \in 1 .. L
    BY <1>0
  <2> HIDE DEF Fits
  <2> QED BY <1>7, <2>1
<1> QED BY <1>4, <1>8

(* What package_arguments leaves of the user's arguments.                   *)
KeptPlaces(s) == {i \in Heads(s, PackageTakes) : s[i].name \notin PackageNames}
(* It leaves every option that selects no packages, and the command.        *)
LEMMA KeptIs ==
  ASSUME NEW s, Regular(s)
  PROVE  LET P == KeptPlaces(s)
             u == At(s, P)
         IN  /\ P \subseteq Before(s)
             /\ \A i \in Before(s) : s[i].name # "" => (i \in P <=> s[i].name \notin PackageNames)
             /\ Listed(u) /\ DashFree(u) /\ Units(u) = {Unit(s, i) : i \in NamedAt(s, P)}
             /\ Ordered(u) /\ ToolFirst(u)
             /\ \A w : Leads(s, w) => Leads(u, w)
             /\ Together(s, P) /\ Free(s) \subseteq P
<1> DEFINE P == KeptPlaces(s)
           T == PackageTakes
<1>0. Listed(s) /\ ToolFirst(s) /\ Ordered(s) /\ T \in SUBSET CargoTakes
  BY DEF Regular, CargoTakes
<1>1. /\ Heads(s, T) \subseteq Before(s) /\ Free(s) \subseteq Heads(s, T)
      /\ \A i \in Before(s) : s[i].name # "" => i \in Heads(s, T)
      /\ \A i \in Before(s) : Takes(CargoTakes, s[i]) => (i + 1 \in Heads(s, T) <=> s[i].name \notin T)
  BY <1>0, HeadFacts
<1>2. P = {i \in Heads(s, T) : s[i].name \notin PackageNames}
  BY DEF KeptPlaces
<1> HIDE DEF P
<1>3. "" \notin PackageNames /\ PackageNames \cap CargoTakes = T
  BY DEF PackageNames, PackageTakes, CargoTakes, CommandTakes, GlobalTakes, FeatureOptions
<1>4. Together(s, P)
  <2> SUFFICES ASSUME NEW i \in Before(s), Takes(CargoTakes, s[i]) PROVE i \in P <=> i + 1 \in P
    BY DEF Together
  <2>1. s[i].name # "" /\ i + 1 \in Before(s) /\ s[i + 1].name = "" /\ s[i].name \in CargoTakes
    BY <1>0, ValueAfter DEF Takes
  <2>2. i \in P <=> s[i].name \notin T
    BY <1>1, <1>2, <1>3, <2>1
  <2>3. i + 1 \in P <=> s[i].name \notin T
    BY <1>1, <1>2, <1>3, <2>1
  <2> QED BY <2>2, <2>3
<1>5. P \subseteq Before(s)
  BY <1>1, <1>2
<1>6. Free(s) \subseteq P
  BY <1>1, <1>2, <1>3 DEF Free
<1>7. Listed(At(s, P)) /\ DashFree(At(s, P)) /\ Units(At(s, P)) = {Unit(s, i) : i \in NamedAt(s, P)}
  BY <1>0, <1>5, <1>4, PickIs
<1>8. Ordered(At(s, P)) /\ \A w : Leads(s, w) => Leads(At(s, P), w)
  BY <1>0, <1>5, <1>4, <1>6, PickIs
<1>9. ToolFirst(At(s, P))
  BY <1>0, <1>5, <1>4, PickIs
<1>10. \A i \in Before(s) : s[i].name # "" => (i \in P <=> s[i].name \notin PackageNames)
  BY <1>1, <1>2
<1> QED BY <1>4, <1>5, <1>6, <1>7, <1>8, <1>9, <1>10 DEF P

(* package_arguments returns a regular list with the same command that asks  *)
(* for the packages given, and otherwise has the options it was given.      *)
THEOREM PackageArgumentsIs ==
  ASSUME MembersNamed, NEW s, Regular(s), NEW o, Leads(s, o), NEW q \in Seq(Members), Len(q) # 0
  PROVE  LET r == package_arguments(s, q) IN
         /\ Regular(r) /\ Leads(r, o)
         /\ Units(r) = {m \in Units(s) : m[1] \notin PackageNames}
                          \cup {<<"--package", q[k]>> : k \in 1 .. Len(q)}
<1> DEFINE P == KeptPlaces(s)
           A == At(s, P)
           B == Pairs(q)
           C == AfterDashes(s)
           BC == B \o C
           r == A \o BC
<1>0. Listed(s)
  BY DEF Regular
<1>1. /\ P \subseteq Before(s)
      /\ \A i \in Before(s) : s[i].name # "" => (i \in P <=> s[i].name \notin PackageNames)
      /\ Listed(A) /\ DashFree(A) /\ Units(A) = {Unit(s, i) : i \in NamedAt(s, P)}
      /\ Ordered(A) /\ ToolFirst(A)
      /\ \A w : Leads(s, w) => Leads(A, w)
  BY KeptIs
<1>2. /\ Listed(B) /\ DashFree(B) /\ NoTool(B) /\ Free(B) = {}
      /\ Units(B) = {<<"--package", q[k]>> : k \in 1 .. Len(q)}
  BY PairsAre
<1>3. Listed(C) /\ Before(C) = {} /\ Units(C) = {} /\ Free(C) = {} /\ Ordered(C) /\ NoTool(C)
  BY <1>0, RestIs
<1>4. package_arguments(s, q) = r
  BY DEF package_arguments, KeptPlaces, Pairs, PackagePair
<1> HIDE DEF P, A, B, C
<1>5. Listed(BC) /\ Units(BC) = {<<"--package", q[k]>> : k \in 1 .. Len(q)}
  <2>1. Listed(BC) /\ Units(BC) = Units(B) \cup Units(C)
    BY <1>2, <1>3, ConcatListed
  <2> HIDE DEF BC
  <2> QED BY <2>1, <1>2, <1>3
<1>6. NoTool(BC)
  BY <1>2, <1>3, ConcatConfig
<1> HIDE DEF BC
<1>7. Leads(A, o) /\ Free(A) # {}
  BY <1>1 DEF Leads
<1>8. Listed(r) /\ Units(r) = Units(A) \cup Units(BC)
  BY <1>1, <1>5, ConcatListed
<1>9. Ordered(r)
  BY <1>1, <1>5, <1>7, ConcatLeads
<1>10. ToolFirst(r)
  BY <1>1, <1>5, <1>6, ConcatLeads
<1>11. Leads(r, o)
  BY <1>1, <1>5, <1>7, ConcatLeads
<1> HIDE DEF r
<1>12. Units(A) = {m \in Units(s) : m[1] \notin PackageNames}
  <2>1. \A i : Unit(s, i)[1] = s[i].name
    BY DEF Unit
  <2> QED BY <2>1, <1>1 DEF Units, NamedAt
<1>13. Regular(r)
  BY <1>8, <1>9, <1>10 DEF Regular
<1> QED BY <1>4, <1>5, <1>8, <1>11, <1>12, <1>13

(* What comes before an argument, and what comes after it.                  *)
LEMMA SubSeqIs ==
  ASSUME NEW s \in Arguments, NEW i \in 1 .. Len(s)
  PROVE  LET u == SubSeq(s, 1, i - 1)
             v == SubSeq(s, i + 1, Len(s))
         IN  /\ u \in Arguments /\ Len(u) = i - 1 /\ \A k \in 1 .. (i - 1) : u[k] = s[k]
             /\ v \in Arguments /\ Len(v) = Len(s) - i /\ \A k \in 1 .. (Len(s) - i) : v[k] = s[i + k]
<1>0. Len(s) \in Nat /\ s \in Seq(Argument) /\ DOMAIN s = 1 .. Len(s)
  BY DEF Arguments
<1>1. \A k \in 1 .. (i - 1) : k \in 1 .. Len(s) /\ s[k] \in Argument
  BY <1>0
<1>2. \A k \in (i + 1) .. Len(s) : k \in 1 .. Len(s) /\ s[k] \in Argument
  BY <1>0
<1> DEFINE u == SubSeq(s, 1, i - 1)
           v == SubSeq(s, i + 1, Len(s))
<1>3. u \in Seq(Argument) /\ Len(u) = i - 1 /\ \A k \in 1 .. (i - 1) : u[k] = s[k]
  BY <1>0, <1>1
<1>4. v \in Seq(Argument) /\ Len(v) = Len(s) - i
  <2>1. i \in 1 .. Len(s)
    OBVIOUS
  <2>2. Len(s) - ((i + 1) - 1) = Len(s) - i /\ Len(s) - i \in Nat
    BY <1>0
  <2>3. SubSeq(s, i + 1, Len(s)) = [k \in 1 .. (Len(s) - i) |-> s[i + k]]
    BY <1>0
  <2>4. \A k \in 1 .. (Len(s) - i) : s[i + k] \in Argument
    <3>1. \A k \in 1 .. (Len(s) - i) : i + k \in 1 .. Len(s)
      BY <1>0
    <3> QED BY <3>1, <1>0
  <2> DEFINE n == Len(s) - i
  <2>5. n \in Nat /\ v = [k \in 1 .. n |-> s[i + k]] /\ \A k \in 1 .. n : s[i + k] \in Argument
    BY <2>2, <2>3, <2>4
  <2> HIDE DEF n, v
  <2>6. v \in Seq(Argument) /\ Len(v) = n
    BY <2>5
  <2> QED BY <2>6 DEF n
<1>5. \A k \in 1 .. (Len(s) - i) : v[k] = s[i + k]
  BY <1>0, <1>2
<1> QED BY <1>3, <1>4, <1>5 DEF Arguments

-----------------------------------------------------------------------------
(* Splice: an alias replaced by what it stands for.                         *)
First(s, i) == i \in Free(s) /\ \A j \in Free(s) : i <= j

(* What comes before the command.                                           *)
LEMMA PrefixIs ==
  ASSUME NEW s, Regular(s), NEW i, First(s, i)
  PROVE  LET u == SubSeq(s, 1, i - 1) IN
         /\ Listed(u) /\ DashFree(u) /\ Ordered(u) /\ ToolFirst(u) /\ Free(u) = {}
         /\ Units(u) = {Unit(s, k) : k \in {j \in NamedAt(s, Before(s)) : j < i}}
<1> DEFINE u == SubSeq(s, 1, i - 1)
<1>0. s \in Arguments /\ Listed(s) /\ Ordered(s) /\ ToolFirst(s) /\ Len(s) \in Nat
  BY DEF Regular, Listed, Arguments
<1>1. PICK d \in 0 .. Len(s) : /\ Before(s) = 1 .. d /\ \A k \in 1 .. d : s[k] # Dashes
                               /\ d < Len(s) => s[d + 1] = Dashes
  BY <1>0, BeforeIs DEF Arguments
<1>2. i \in Before(s) /\ i \in 1 .. d /\ i \in 1 .. Len(s)
  <2>1. i \in Before(s)
    BY DEF First, Free
  <2> QED BY <1>0, <1>1, <2>1
<1>3. u \in Arguments /\ Len(u) = i - 1 /\ \A k \in 1 .. (i - 1) : u[k] = s[k]
  BY <1>0, <1>2, SubSeqIs
<1> HIDE DEF u
<1>4. \A k \in 1 .. (i - 1) : k \in Before(s) /\ k \notin Free(s) /\ s[k] # Dashes /\ k < i /\ k \in Int
  <2>1. \A k \in 1 .. (i - 1) : k \in 1 .. d /\ k < i /\ ~(i <= k) /\ k \in Int
    BY <1>1, <1>2
  <2> QED BY <2>1, <1>1 DEF First
<1>5. DOMAIN u = 1 .. (i - 1)
  BY <1>3 DEF Arguments
<1>6. DashFree(u)
  BY <1>3, <1>4, <1>5 DEF DashFree
<1>7. Before(u) = 1 .. (i - 1)
  BY <1>3, <1>6, DashFreeBefore DEF Arguments
<1>8. ASSUME NEW k \in 1 .. (i - 1), Takes(CargoTakes, u[k])
      PROVE  k + 1 \in 1 .. (i - 1) /\ u[k + 1] = s[k + 1] /\ s[k + 1].name = "" /\ s[k + 1].value # ""
  <2>1. k \in Before(s) /\ Takes(CargoTakes, s[k])
    BY <1>3, <1>4, <1>8
  <2>2. k + 1 \in Before(s) /\ s[k + 1].name = "" /\ s[k + 1].value # "" /\ k + 1 \notin Free(s)
    BY <1>0, <2>1, ValueAfter
  <2>3. k + 1 # i
    BY <2>2 DEF First
  <2>4. k + 1 \in 1 .. (i - 1)
    BY <1>2, <1>8, <2>3
  <2> QED BY <2>2, <2>4, <1>3
<1>9. Valued(u)
  <2> SUFFICES ASSUME NEW k \in Before(u), Takes(CargoTakes, u[k])
               PROVE  k + 1 \in Before(u) /\ u[k + 1].name = "" /\ u[k + 1].value # ""
    BY DEF Valued
  <2>1. k + 1 \in 1 .. (i - 1) /\ u[k + 1] = s[k + 1] /\ s[k + 1].name = "" /\ s[k + 1].value # ""
    BY <1>7, <1>8
  <2> QED BY <1>7, <2>1
<1>10. Free(u) = {}
  <2> SUFFICES ASSUME NEW k \in Free(u) PROVE FALSE
    OBVIOUS
  <2>0. k \in 1 .. (i - 1)
    BY <1>7, FreeAt
  <2>1. k \in 1 .. (i - 1) /\ u[k].name = "" /\ (k = 1 \/ ~Takes(CargoTakes, u[k - 1]))
    BY <1>7, FreeAt
  <2>2. k \in Before(s) /\ k \notin Free(s) /\ s[k].name = ""
    BY <1>3, <1>4, <2>1
  <2>3. k = 1 \/ u[k - 1] = s[k - 1]
    <3>1. k = 1 \/ k - 1 \in 1 .. (i - 1)
      <4>1. i \in Int
        BY <1>2
      <4> QED BY <2>0, <4>1
    <3> QED BY <3>1, <1>3
  <2>4. k \in Free(s)
    <3>1. k = 1 \/ ~Takes(CargoTakes, s[k - 1])
      <4> DEFINE j == k - 1
      <4>1. (k = 1 \/ ~Takes(CargoTakes, u[j])) /\ (k = 1 \/ u[j] = s[j])
        BY <2>1, <2>3
      <4> HIDE DEF j
      <4>2. k = 1 \/ ~Takes(CargoTakes, s[j])
        BY <4>1
      <4> QED BY <4>2 DEF j
    <3> QED BY <2>2, <3>1, FreeAt
  <2> QED BY <2>2, <2>4
<1>11. Ordered(u)
  <2> SUFFICES ASSUME NEW k \in Before(u), Takes(CargoTakes \ CommandTakes, u[k]) PROVE FALSE
    BY DEF Ordered
  <2>1. k \in Before(s) /\ Takes(CargoTakes \ CommandTakes, s[k]) /\ k < i /\ k \in 1 .. (i - 1)
    BY <1>3, <1>4, <1>7
  <2>2. PICK j \in Free(s) : j < k
    BY <1>0, <2>1 DEF Ordered
  <2>3. j \in Int /\ i <= j
    <3>1. j \in Before(s)
      BY DEF Free
    <3> QED BY <1>1, <3>1 DEF First
  <2> QED BY <2>1, <2>2, <2>3, <1>2
<1>12. ToolFirst(u)
  BY <1>0, <1>3, <1>4, <1>7 DEF ToolFirst
<1>13. Units(u) = {Unit(s, k) : k \in {j \in NamedAt(s, Before(s)) : j < i}}
  <2>1. ASSUME NEW k \in 1 .. (i - 1) PROVE Unit(u, k) = Unit(s, k) /\ u[k].name = s[k].name
    <3>1. u[k] = s[k]
      BY <1>3
    <3>2. Takes(CargoTakes, u[k]) => u[k + 1] = s[k + 1]
      BY <1>8
    <3> QED BY <3>1, <3>2 DEF Unit
  <2>2. {j \in NamedAt(s, Before(s)) : j < i} = {j \in 1 .. (i - 1) : s[j].name # ""}
      <3>1. \A j \in Before(s) : j < i => j \in 1 .. (i - 1)
      BY <1>1, <1>2
    <3>2. \A j \in 1 .. (i - 1) : j \in Before(s) /\ j < i
      BY <1>4
    <3> QED BY <3>1, <3>2 DEF NamedAt
  <2>3. NamedAt(u, Before(u)) = {j \in 1 .. (i - 1) : s[j].name # ""}
    BY <1>7, <2>1 DEF NamedAt
  <2> QED BY <2>1, <2>2, <2>3 DEF Units
<1>14. Listed(u)
  BY <1>3, <1>9 DEF Listed
<1> QED BY <1>6, <1>10, <1>11, <1>12, <1>13, <1>14 DEF u

(* What comes after the command.                                            *)
LEMMA SuffixIs ==
  ASSUME NEW s, Regular(s), NEW i, First(s, i)
  PROVE  LET v == SubSeq(s, i + 1, Len(s)) IN
         /\ Listed(v) /\ NoTool(v)
         /\ Units(v) = {Unit(s, k) : k \in {j \in NamedAt(s, Before(s)) : i < j}}
         /\ \A c : ConfigLast(s, c) => ConfigLast(v, c)
<1> DEFINE v == SubSeq(s, i + 1, Len(s))
<1>0. s \in Arguments /\ Listed(s) /\ ToolFirst(s) /\ Len(s) \in Nat
  BY DEF Regular, Listed, Arguments
<1>1. PICK d \in 0 .. Len(s) : /\ Before(s) = 1 .. d /\ \A k \in 1 .. d : s[k] # Dashes
                               /\ d < Len(s) => s[d + 1] = Dashes
  BY <1>0, BeforeIs DEF Arguments
<1>2. i \in Before(s) /\ i \in 1 .. d /\ i \in 1 .. Len(s) /\ s[i].name = ""
  <2>1. i \in Before(s)
    BY DEF First, Free
  <2>2. s[i].name = ""
    BY DEF First, Free
  <2>3. i \in 1 .. d
    BY <1>1, <2>1
  <2>4. i \in 1 .. Len(s)
    BY <2>3, <1>0
  <2> QED BY <2>1, <2>2, <2>3, <2>4
<1>99. Len(s) \in Nat /\ d \in Nat /\ i \in Nat /\ 1 <= i /\ i <= d /\ d <= Len(s)
  <2>1. Len(s) \in Nat
    BY <1>0
  <2>2. i \in 1 .. d
    BY <1>2
  <2> QED BY <2>1, <2>2
<1>3. v \in Arguments /\ Len(v) = Len(s) - i /\ \A k \in 1 .. (Len(s) - i) : v[k] = s[i + k]
  BY <1>0, <1>2, SubSeqIs
<1> HIDE DEF v
<1>4. DOMAIN v = 1 .. (Len(s) - i)
  BY <1>3 DEF Arguments
<1>5. Before(v) = 1 .. (d - i)
  <2>1. ASSUME NEW k \in Before(v) PROVE k \in 1 .. (d - i)
    <3>1. k \in 1 .. (Len(s) - i) /\ \A j \in 1 .. k : v[j] # Dashes
      BY <1>4 DEF Before
    <3>2. ~(d + 1 <= i + k)
      <4> SUFFICES ASSUME d + 1 <= i + k PROVE FALSE
        OBVIOUS
      <4>1. d + 1 - i \in 1 .. k /\ d + 1 - i \in 1 .. (Len(s) - i) /\ i + (d + 1 - i) = d + 1 /\ d < Len(s)
        BY <1>99, <3>1
      <4>2. v[d + 1 - i] = Dashes
        BY <4>1, <1>1, <1>3
      <4> QED BY <3>1, <4>1, <4>2
    <3>3. k \in 1 .. (Len(s) - i)
      BY <3>1
    <3> QED BY <3>2, <3>3, <1>99
  <2>2. ASSUME NEW k \in 1 .. (d - i) PROVE k \in Before(v)
    <3>1. k \in 1 .. (Len(s) - i)
      BY <1>99
    <3>2. ASSUME NEW j \in 1 .. k PROVE v[j] # Dashes
      <4>1. j \in 1 .. (Len(s) - i) /\ i + j \in 1 .. d
        BY <1>99, <3>1
      <4> QED BY <4>1, <1>1, <1>3
    <3> QED BY <1>4, <3>1, <3>2 DEF Before
  <2> QED BY <2>1, <2>2
<1>6. ASSUME NEW k \in Before(v)
      PROVE  k \in Int /\ i + k \in Before(s) /\ v[k] = s[i + k] /\ i < i + k
  <2>1. k \in 1 .. (Len(s) - i) /\ i + k \in 1 .. d /\ i < i + k /\ k \in Int
    BY <1>99, <1>5
  <2> QED BY <2>1, <1>1, <1>3
<1>7. ASSUME NEW k \in Before(v), Takes(CargoTakes, v[k])
      PROVE  k + 1 \in Before(v) /\ v[k + 1] = s[i + k + 1] /\ v[k + 1].name = "" /\ v[k + 1].value # ""
  <2>9. k \in Int /\ i \in Int
    BY <1>6, <1>99
  <2>8. v[k] = s[i + k]
    BY <1>6
  <2>1. i + k \in Before(s) /\ Takes(CargoTakes, s[i + k]) /\ k \in Int /\ i \in Int
    BY <1>6, <1>7, <2>8, <2>9
  <2> DEFINE m == i + k
  <2>0. m = i + k
    OBVIOUS
  <2> HIDE DEF m
  <2>2. m + 1 \in Before(s) /\ s[m + 1].name = "" /\ s[m + 1].value # ""
    BY <1>0, <2>0, <2>1, ValueAfter
  <2>3. k + 1 \in 1 .. (d - i) /\ k + 1 \in 1 .. (Len(s) - i) /\ i + (k + 1) = m + 1 /\ i + k + 1 = m + 1
    <3>1. m + 1 \in 1 .. d
      BY <2>2, <1>1
    <3>2. k \in 1 .. (d - i)
      BY <1>5
    <3> QED BY <3>1, <3>2, <2>0, <1>99
  <2>4. k + 1 \in Before(v)
    BY <1>5, <2>3
  <2>5. v[k + 1] = s[m + 1]
    BY <1>3, <2>3
  <2> QED BY <2>2, <2>3, <2>4, <2>5
<1>8. Valued(v)
  BY <1>7 DEF Valued
<1>9. NoTool(v)
  <2> SUFFICES ASSUME NEW k \in Before(v), v[k] = Toolchain PROVE FALSE
    BY DEF NoTool
  <2>1. i + k = 1
    BY <1>0, <1>6 DEF ToolFirst
  <2>2. k \in 1 .. (d - i)
    BY <1>5
  <2> QED BY <2>1, <2>2, <1>99
<1>10. ASSUME NEW j \in Before(s), i < j PROVE j - i \in Before(v) /\ i + (j - i) = j
  <2>1. j \in 1 .. d
    BY <1>1
  <2>2. j - i \in 1 .. (d - i) /\ i + (j - i) = j
    BY <2>1, <1>10, <1>99
  <2> QED BY <2>2, <1>5
<1>11. ASSUME NEW k \in Before(v) PROVE Unit(v, k) = Unit(s, i + k) /\ v[k].name = s[i + k].name
  <2>1. v[k] = s[i + k]
    BY <1>6
  <2>2. Takes(CargoTakes, v[k]) => v[k + 1] = s[i + k + 1]
    BY <1>7
  <2> QED BY <2>1, <2>2 DEF Unit
<1>12. Units(v) = {Unit(s, k) : k \in {j \in NamedAt(s, Before(s)) : i < j}}
  <2>1. ASSUME NEW m \in Units(v) PROVE \E j \in Before(s) : i < j /\ s[j].name # "" /\ m = Unit(s, j)
    <3>1. PICK k \in Before(v) : v[k].name # "" /\ m = Unit(v, k)
      BY DEF Units, NamedAt
    <3> QED BY <3>1, <1>6, <1>11
  <2>2. ASSUME NEW j \in Before(s), i < j, s[j].name # "" PROVE Unit(s, j) \in Units(v)
    <3> DEFINE k == j - i
    <3>1. k \in Before(v) /\ i + k = j
      BY <1>10, <2>2
    <3> HIDE DEF k
    <3>2. Unit(v, k) = Unit(s, j) /\ v[k].name # ""
      BY <1>11, <2>2, <3>1
    <3> QED BY <3>1, <3>2 DEF Units, NamedAt
  <2> QED BY <2>1, <2>2 DEF NamedAt
<1>13. ASSUME NEW c, ConfigLast(s, c) PROVE ConfigLast(v, c)
  <2>1. PICK j \in Before(s) : /\ j + 1 \in Before(s) /\ j + 2 \notin Before(s)
                               /\ s[j] = Opt("--config") /\ s[j + 1] = Word(c)
    BY <1>13 DEF ConfigLast
  <2>2. j \in 1 .. d /\ j + 1 \in 1 .. d /\ j + 1 = d
    BY <2>1, <1>1
  <2>3. s[j].name = "--config" /\ s[j].value = ""
    BY <2>1, Fields
  <2>4. j # i
    BY <2>3, <1>2
  <2>5. j + 1 # i
    <3>1. Takes(CargoTakes, s[j])
      BY <2>3 DEF Takes, CargoTakes, CommandTakes, GlobalTakes
    <3>2. j + 1 \notin Free(s)
      BY <1>0, <3>1, ValueAfter
    <3> QED BY <3>2 DEF First
  <2>6. i < j
    BY <2>2, <2>4, <2>5, <1>99
  <2> DEFINE k == j - i
  <2>7. k \in Before(v) /\ i + k = j /\ k \in Int
    BY <1>10, <1>6, <2>6
  <2>8. k + 1 \in Before(v) /\ k + 2 \notin Before(v) /\ i + (k + 1) = j + 1
    BY <1>5, <1>99, <2>2, <2>7
  <2>9. v[k] = s[j] /\ v[k + 1] = s[j + 1]
    BY <1>6, <2>7, <2>8
  <2> HIDE DEF k
  <2> QED BY <2>1, <2>7, <2>8, <2>9 DEF ConfigLast
<1>14. Listed(v)
  BY <1>3, <1>8 DEF Listed
<1> QED BY <1>9, <1>12, <1>13, <1>14 DEF v

(* An alias replaced by a command and its options: a regular list with the   *)
(* options of both, the command of the alias, and the same last --config.   *)
THEOREM SpliceIs ==
  ASSUME NEW s, Regular(s), NEW i, First(s, i), NEW t, Target(t)
  PROVE  LET x == Splice(s, i, t) IN
         /\ Regular(x) /\ Units(x) = Units(s) \cup Units(t)
         /\ \A w : Leads(t, w) => Leads(x, w)
         /\ \A c : ConfigLast(s, c) => ConfigLast(x, c)
<1> DEFINE u == SubSeq(s, 1, i - 1)
           v == SubSeq(s, i + 1, Len(s))
           tv == t \o v
           x == u \o tv
<1>0. Listed(s) /\ s[i].name = "" /\ i \in Nat /\ \A j \in Before(s) : j \in Nat
  BY Places DEF Regular, First, Free
<1>1. /\ Listed(u) /\ DashFree(u) /\ Ordered(u) /\ ToolFirst(u) /\ Free(u) = {}
      /\ Units(u) = {Unit(s, k) : k \in {j \in NamedAt(s, Before(s)) : j < i}}
  BY PrefixIs
<1>2. /\ Listed(v) /\ NoTool(v)
      /\ Units(v) = {Unit(s, k) : k \in {j \in NamedAt(s, Before(s)) : i < j}}
      /\ \A c : ConfigLast(s, c) => ConfigLast(v, c)
  BY SuffixIs
<1>3. Listed(t) /\ DashFree(t) /\ Ordered(t) /\ NoTool(t) /\ Free(t) # {}
  BY DEF Target, Regular, Listed, DashFree, NoTool, Before
<1>4. Splice(s, i, t) = x
  BY DEF Splice
<1> HIDE DEF u, v
<1>5. Listed(tv) /\ Units(tv) = Units(t) \cup Units(v)
  BY <1>2, <1>3, ConcatListed
<1>6. Ordered(tv) /\ \A w : Leads(t, w) => Leads(tv, w)
  BY <1>2, <1>3, ConcatLeads
<1>7. NoTool(tv) /\ \A c : ConfigLast(v, c) => ConfigLast(tv, c)
  BY <1>2, <1>3, ConcatConfig
<1> HIDE DEF tv
<1>8. Listed(x) /\ Units(x) = Units(u) \cup Units(tv)
  BY <1>1, <1>5, ConcatListed
<1>9. Ordered(x) /\ ToolFirst(x)
  BY <1>1, <1>5, <1>6, <1>7, ConcatLeads
<1>10. \A w : Leads(tv, w) => Leads(x, w)
  BY <1>1, <1>5, ConcatLeads
<1>11. \A c : ConfigLast(tv, c) => ConfigLast(x, c)
  BY <1>1, <1>5, ConcatConfig
<1> HIDE DEF x
<1>12. Units(s) = Units(u) \cup Units(v)
  <2>1. NamedAt(s, Before(s)) = {j \in NamedAt(s, Before(s)) : j < i} \cup {j \in NamedAt(s, Before(s)) : i < j}
    <3>1. \A j \in NamedAt(s, Before(s)) : j # i /\ j \in Nat
      BY <1>0 DEF NamedAt
    <3>2. \A j \in NamedAt(s, Before(s)) : j < i \/ i < j
      <4>1. i \in Nat
        BY <1>0
      <4> QED BY <3>1, <4>1
    <3> QED BY <3>2
  <2> QED BY <2>1, <1>1, <1>2 DEF Units
<1>13. Units(x) = Units(s) \cup Units(t)
  BY <1>5, <1>8, <1>12
<1>14. Regular(x)
  BY <1>8, <1>9 DEF Regular
<1>15. \A w : Leads(t, w) => Leads(x, w)
  BY <1>6, <1>10
<1>16. \A c : ConfigLast(s, c) => ConfigLast(x, c)
  BY <1>2, <1>7, <1>11
<1> QED BY <1>4, <1>13, <1>14, <1>15, <1>16

-----------------------------------------------------------------------------
(* What telekio and Cargo read in a regular list.                           *)
Values(s, N) == {m[2] : m \in {n \in Units(s) : n[1] \in N}}

(* The unit of an option has its name and its value.                        *)
LEMMA UnitIs ==
  ASSUME NEW s, NEW N, N \subseteq CargoTakes
  PROVE  /\ "" \notin N
         /\ \A i : Unit(s, i)[1] = s[i].name
         /\ \A i : s[i].name \in N /\ s[i].value # "" => Unit(s, i)[2] = s[i].value
         /\ \A i : s[i].name \in N /\ s[i].value = "" => Takes(CargoTakes, s[i]) /\ Unit(s, i)[2] = s[i + 1].value
<1>1. "" \notin N
  BY DEF CargoTakes, CommandTakes, GlobalTakes, FeatureOptions, PackageTakes
<1>2. ASSUME NEW i, s[i].value # "" PROVE Unit(s, i)[2] = s[i].value
  BY <1>2 DEF Unit, Takes
<1>3. ASSUME NEW i, s[i].value = "", s[i].name \in N PROVE Takes(CargoTakes, s[i]) /\ Unit(s, i)[2] = s[i + 1].value
  BY <1>3 DEF Unit, Takes
<1>4. \A i : Unit(s, i)[1] = s[i].name
  BY DEF Unit
<1> QED BY <1>1, <1>2, <1>3, <1>4

(* option_values, in the terms of the units.                                *)
LEMMA ValuesAre ==
  ASSUME NEW s, Listed(s), NEW N, N \subseteq CargoTakes
  PROVE  /\ Values(s, N) = {Unit(s, i)[2] : i \in {j \in Before(s) : s[j].name \in N}}
         /\ option_values(s, N) = Values(s, N)
<1>0. /\ "" \notin N /\ \A i : Unit(s, i)[1] = s[i].name
      /\ \A i : s[i].name \in N /\ s[i].value # "" => Unit(s, i)[2] = s[i].value
      /\ \A i : s[i].name \in N /\ s[i].value = "" => Takes(CargoTakes, s[i]) /\ Unit(s, i)[2] = s[i + 1].value
  BY UnitIs
<1>1. Values(s, N) = {Unit(s, i)[2] : i \in {j \in Before(s) : s[j].name \in N}}
  <2>1. ASSUME NEW m \in Units(s), m[1] \in N
        PROVE  \E i \in Before(s) : s[i].name \in N /\ m = Unit(s, i)
    <3>1. PICK i \in Before(s) : m = Unit(s, i)
      BY DEF Units, NamedAt
    <3> QED BY <3>1, <2>1, <1>0
  <2>2. ASSUME NEW i \in Before(s), s[i].name \in N PROVE Unit(s, i) \in Units(s) /\ Unit(s, i)[1] \in N
    <3>1. s[i].name # ""
      BY <2>2, <1>0
    <3> QED BY <3>1, <2>2, <1>0 DEF Units, NamedAt
  <2> QED BY <2>1, <2>2 DEF Values
<1> DEFINE seen == {i \in Before(s) : s[i].name \in N}
           A == {s[i].value : i \in {j \in seen : s[j].value # ""}}
           B == {s[i + 1].value : i \in {j \in seen : s[j].value = "" /\ j < Len(s)}}
<1>2. option_values(s, N) = A \cup B
  BY DEF option_values
<1>3. ASSUME NEW i \in seen, s[i].value = "" PROVE i < Len(s)
  <2>1. i + 1 \in Before(s)
    BY <1>0, <1>3, ValueAfter
  <2>2. i \in DOMAIN s /\ i + 1 \in DOMAIN s
    BY <2>1, Places
  <2>3. DOMAIN s = 1 .. Len(s) /\ Len(s) \in Nat
    BY DEF Listed, Arguments
  <2> QED BY <2>2, <2>3
<1>4. A \cup B \subseteq {Unit(s, i)[2] : i \in seen}
  <2>1. \A a \in A : a \in {Unit(s, i)[2] : i \in seen}
    BY <1>0
  <2>2. ASSUME NEW b \in B PROVE b \in {Unit(s, i)[2] : i \in seen}
    <3>1. PICK i \in seen : s[i].value = "" /\ b = s[i + 1].value
      OBVIOUS
    <3>2. b = Unit(s, i)[2]
      BY <1>0, <3>1
    <3> QED BY <3>2
  <2> QED BY <2>1, <2>2
<1>5. ASSUME NEW i \in seen PROVE Unit(s, i)[2] \in A \cup B
  <2>1. CASE s[i].value # ""
    <3>1. Unit(s, i)[2] = s[i].value
      BY <1>0, <2>1
    <3> QED BY <3>1, <2>1
  <2>2. CASE s[i].value = ""
    <3>1. Unit(s, i)[2] = s[i + 1].value /\ i < Len(s)
      BY <1>0, <1>3, <2>2
    <3> QED BY <3>1, <2>2
  <2> QED BY <2>1, <2>2
<1> QED BY <1>1, <1>2, <1>4, <1>5

(* has_option and what Cargo sees of options without values agree.          *)
LEMMA OptionsAre ==
  ASSUME NEW s, Listed(s), NEW n, NonEmpty(n)
  PROVE  /\ has_option(s, n) <=> \E m \in Units(s) : m[1] = n
         /\ n \in CargoOptions(s) <=> \E m \in Units(s) : m[1] = n
<1>1. \A i : Unit(s, i)[1] = s[i].name
  BY DEF Unit
<1>2. (\E m \in Units(s) : m[1] = n) <=> \E i \in Before(s) : s[i].name = n
  <2>1. ASSUME NEW m \in Units(s), m[1] = n PROVE \E i \in Before(s) : s[i].name = n
    BY <1>1, <2>1 DEF Units, NamedAt
  <2>2. ASSUME NEW i \in Before(s), s[i].name = n PROVE \E m \in Units(s) : m[1] = n
    <3>1. s[i].name # ""
      BY <2>2 DEF NonEmpty
    <3>2. Unit(s, i) \in Units(s)
      BY <3>1 DEF Units, NamedAt
    <3>3. Unit(s, i)[1] = n
      BY <1>1, <2>2
    <3> QED BY <3>2, <3>3
  <2> QED BY <2>1, <2>2
<1>3. CargoTakes \in SUBSET CargoTakes
  OBVIOUS
<1>4. /\ Heads(s, CargoTakes) \subseteq Before(s)
      /\ \A i \in Before(s) : s[i].name # "" => i \in Heads(s, CargoTakes)
  BY <1>3, HeadFacts
<1>5. n \in CargoOptions(s) <=> \E i \in Before(s) : s[i].name = n
  BY <1>4 DEF CargoOptions, NonEmpty
<1>6. has_option(s, n) <=> \E i \in Before(s) : s[i].name = n
  BY DEF has_option
<1> QED BY <1>2, <1>5, <1>6

(* The command is the first free word.                                      *)
LEMMA OperationIs ==
  ASSUME NEW s, Regular(s)
  PROVE  /\ Free(s) = {} => operation(s) = "" /\ command_index(s) = 0
         /\ Free(s) # {} => /\ First(s, command_index(s)) /\ operation(s) = s[command_index(s)].value
                            /\ Leads(s, operation(s))
         /\ \A w : Leads(s, w) => operation(s) = w /\ Free(s) # {}
<1> DEFINE T == CommandTakes
           C == {i \in Heads(s, T) : s[i].name = "" \/ (s[i] = Toolchain /\ i # 1)}
<1>0. Listed(s) /\ Ordered(s) /\ ToolFirst(s) /\ T \in SUBSET CargoTakes
  BY DEF Regular, CargoTakes
<1>1. /\ Heads(s, T) = {i \in Before(s) : i = 1 \/ ~Takes(T, s[i - 1])}
      /\ Heads(s, T) \subseteq Before(s) /\ Free(s) \subseteq Heads(s, T)
  <2>1. s \in Arguments /\ Valued(s)
    BY <1>0 DEF Listed
  <2>2. Heads(s, T) = {i \in Before(s) : i = 1 \/ ~Takes(T, s[i - 1])}
    BY <1>0, <2>1, HeadsAre
  <2>3. Heads(s, T) \subseteq Before(s) /\ Free(s) \subseteq Heads(s, T)
    BY <1>0, HeadFacts
  <2> QED BY <2>2, <2>3
<1>2. \A i \in Before(s) : i \in Nat \ {0} /\ (i # 1 => i - 1 \in Before(s) /\ (i - 1) + 1 = i)
  BY <1>0, Places
<1>3. Free(s) \subseteq C
  BY <1>1 DEF Free
<1>12. (\A i \in Nat \ {0} : i - 1 < i /\ i - 1 \in Nat) /\ \A i, j, k \in Nat : j < k /\ k < i => j < i
  OBVIOUS
<1>4. ASSUME NEW i \in C, i \notin Free(s) PROVE \E j \in Free(s) : j < i
  <2>1. i \in Before(s) /\ s[i].name = ""
    BY <1>0, <1>1 DEF ToolFirst
  <2>2. i # 1 /\ Takes(CargoTakes, s[i - 1])
    BY <1>4, <2>1, FreeAt
  <2>3. ~Takes(T, s[i - 1])
    BY <1>1, <2>2
  <2> DEFINE k == i - 1
  <2>4. k \in Before(s) /\ k < i /\ k \in Nat /\ i \in Nat
    <3>1. i \in Nat \ {0} /\ i # 1
      BY <1>2, <2>1, <2>2
    <3>2. k \in Before(s)
      BY <1>2, <2>1, <2>2
    <3>3. i - 1 < i /\ i - 1 \in Nat
      BY <3>1, <1>12
    <3> QED BY <3>1, <3>2, <3>3
  <2>5. Takes(CargoTakes, s[k]) /\ ~Takes(T, s[k])
    BY <2>2, <2>3
  <2> HIDE DEF k
  <2>6. Takes(CargoTakes \ CommandTakes, s[k])
    BY <2>5 DEF Takes
  <2>7. PICK j \in Free(s) : j < k
    BY <1>0, <2>4, <2>6 DEF Ordered
  <2>8. j \in Nat
    BY <1>2 DEF Free
  <2>9. k \in Nat /\ i \in Nat /\ k < i
    BY <2>4
  <2>10. j < i
    BY <2>7, <2>8, <2>9, <1>12
  <2> QED BY <2>10
<1>5. C = {} <=> Free(s) = {}
  BY <1>3, <1>4
<1>6. Free(s) \subseteq Nat /\ C \subseteq Nat
  BY <1>1, <1>2 DEF Free
<1>7. command_index(s) = IF C = {} THEN 0 ELSE CHOOSE i \in C : \A j \in C : i <= j
  BY DEF command_index
<1> HIDE DEF C
<1>8. ASSUME Free(s) = {} PROVE operation(s) = "" /\ command_index(s) = 0
  BY <1>5, <1>7, <1>8 DEF operation
<1>9. ASSUME Free(s) # {}
      PROVE  First(s, command_index(s)) /\ command_index(s) # 0 /\ operation(s) = s[command_index(s)].value
  <2>1. \E i \in C : \A j \in C : i <= j
    BY <1>5, <1>6, <1>9, Least
  <2> DEFINE k == command_index(s)
  <2>2. k \in C /\ \A j \in C : k <= j
    BY <1>5, <1>7, <1>9, <2>1
  <2> HIDE DEF k
  <2>3. k \in Free(s)
    <3> SUFFICES ASSUME k \notin Free(s) PROVE FALSE
      OBVIOUS
    <3>1. PICK j \in Free(s) : j < k
      BY <1>4, <2>2
    <3>2. k <= j /\ j \in Nat /\ k \in Nat
      BY <1>3, <1>6, <2>2
    <3> QED BY <3>1, <3>2
  <2>4. First(s, k)
    BY <1>3, <2>2, <2>3 DEF First
  <2>5. k # 0
    BY <1>2, <2>3 DEF Free
  <2>6. operation(s) = s[k].value
    BY <2>5 DEF operation, k
  <2> QED BY <2>4, <2>5, <2>6 DEF k
<1>10. ASSUME Free(s) # {} PROVE Leads(s, operation(s))
  BY <1>9, <1>10 DEF First, Leads
<1>11. ASSUME NEW w, Leads(s, w) PROVE operation(s) = w /\ Free(s) # {}
  <2>1. PICK i \in Free(s) : s[i].value = w /\ \A j \in Free(s) : i <= j
    BY <1>11 DEF Leads
  <2>2. First(s, command_index(s)) /\ operation(s) = s[command_index(s)].value
    BY <1>9, <2>1
  <2> DEFINE k == command_index(s)
  <2>3. k \in Free(s) /\ k <= i /\ i <= k
    BY <2>1, <2>2 DEF First
  <2>4. k = i
    BY <2>1, <2>3, <1>6
  <2> QED BY <2>1, <2>2, <2>4
<1> QED BY <1>8, <1>9, <1>10, <1>11

(* Where the value of an option is.                                         *)
ValuePlace(s, i) == IF s[i].value # "" THEN i ELSE i + 1
ValuePlaces(s, N) == {ValuePlace(s, i) : i \in {j \in Before(s) : s[j].name \in N}}

(* The values Cargo reads, by where they are.                               *)
LEMMA PlacesAre ==
  ASSUME NEW s, Listed(s), NEW N, N \subseteq CargoTakes
  PROVE  /\ ValuePlaces(s, N) \subseteq Before(s) /\ CargoPlaces(s, N) = ValuePlaces(s, N)
         /\ Values(s, N) = {s[k].value : k \in ValuePlaces(s, N)}
         /\ CargoValues(s, N) = LET u == At(s, ValuePlaces(s, N)) IN [k \in DOMAIN u |-> u[k].value]
<1> DEFINE seen == {j \in Before(s) : s[j].name \in N}
<1>0. /\ "" \notin N
      /\ \A i : s[i].name \in N /\ s[i].value # "" => Unit(s, i)[2] = s[i].value
      /\ \A i : s[i].name \in N /\ s[i].value = "" => Takes(CargoTakes, s[i]) /\ Unit(s, i)[2] = s[i + 1].value
  BY UnitIs
<1>1. Values(s, N) = {Unit(s, i)[2] : i \in seen}
  BY ValuesAre
<1>2. ASSUME NEW i \in seen PROVE ValuePlace(s, i) \in Before(s) /\ s[ValuePlace(s, i)].value = Unit(s, i)[2]
  <2>1. CASE s[i].value # ""
    BY <1>0, <2>1 DEF ValuePlace
  <2>2. CASE s[i].value = ""
    <3>1. i + 1 \in Before(s)
      BY <1>0, <2>2, ValueAfter
    <3>2. ValuePlace(s, i) = i + 1
      BY <2>2 DEF ValuePlace
    <3>3. Unit(s, i)[2] = s[i + 1].value
      BY <1>0, <2>2
    <3> QED BY <3>1, <3>2, <3>3
  <2> QED BY <2>1, <2>2
<1>3. ValuePlaces(s, N) \subseteq Before(s) /\ Values(s, N) = {s[k].value : k \in ValuePlaces(s, N)}
  BY <1>1, <1>2 DEF ValuePlaces
<1>4. {i \in Heads(s, CargoTakes) : s[i].name \in N} = seen
  <2>1. CargoTakes \in SUBSET CargoTakes
    OBVIOUS
  <2>2. /\ Heads(s, CargoTakes) \subseteq Before(s)
        /\ \A i \in Before(s) : s[i].name # "" => i \in Heads(s, CargoTakes)
    BY <2>1, HeadFacts
  <2> QED BY <1>0, <2>2
<1>5. CargoPlaces(s, N) = ValuePlaces(s, N)
  BY <1>4 DEF CargoPlaces, ValuePlaces, ValuePlace
<1>6. CargoValues(s, N) = LET u == At(s, ValuePlaces(s, N)) IN [k \in DOMAIN u |-> u[k].value]
  BY <1>5 DEF CargoValues
<1> QED BY <1>3, <1>5, <1>6

(* Cargo reads the values that option_values reads.                         *)
LEMMA CargoValuesAre ==
  ASSUME NEW s, Listed(s), NEW N, N \subseteq CargoTakes
  PROVE  /\ ToSet(CargoValues(s, N)) = Values(s, N)
         /\ CargoValues(s, N) = <<>> <=> Values(s, N) = {}
<1> DEFINE P == ValuePlaces(s, N)
           u == At(s, P)
           V == CargoValues(s, N)
<1>1. P \subseteq Before(s) /\ Values(s, N) = {s[k].value : k \in P} /\ V = [k \in DOMAIN u |-> u[k].value]
  BY PlacesAre
<1>2. s \in Seq(Argument) /\ P \subseteq DOMAIN s
  BY <1>1, Places DEF Listed, Arguments
<1> HIDE DEF P
<1>3. u \in Seq(Argument) /\ \E h : Picks(h, s, P, u)
  BY <1>2, AtIs
<1>4. PICK h : Picks(h, s, P, u)
  BY <1>3
<1> HIDE DEF u, V
<1>5. /\ h \in [1 .. Len(u) -> P] /\ \A i \in P : \E k \in 1 .. Len(u) : h[k] = i
      /\ \A k \in 1 .. Len(u) : u[k] = s[h[k]]
  BY <1>4 DEF Picks
<1>6. DOMAIN u = 1 .. Len(u) /\ Len(u) \in Nat
  BY <1>3
<1>7. V = [k \in 1 .. Len(u) |-> u[k].value] /\ DOMAIN V = 1 .. Len(u)
  BY <1>1, <1>6
<1>8. ToSet(V) = {u[k].value : k \in 1 .. Len(u)}
  BY <1>7 DEF ToSet
<1>9. {u[k].value : k \in 1 .. Len(u)} = {s[k].value : k \in P}
  BY <1>5
<1>10. V \in Seq(Text)
  <2>1. \A k \in 1 .. Len(u) : u[k].value \in Text
    <3>1. \A k \in 1 .. Len(u) : u[k] \in Argument
      BY <1>3, <1>6
    <3> QED BY <3>1 DEF Argument
  <2> QED BY <1>6, <1>7, <2>1
<1>11. V = <<>> <=> ToSet(V) = {}
  <2>1. V = <<>> <=> Len(u) = 0
    BY <1>6, <1>7, <1>10
  <2>2. Len(u) = 0 <=> ToSet(V) = {}
    <3>1. Len(u) # 0 => 1 \in 1 .. Len(u)
      BY <1>6
    <3>2. Len(u) = 0 => 1 .. Len(u) = {}
      BY <1>6
    <3> QED BY <1>8, <3>1, <3>2
  <2> QED BY <2>1, <2>2
<1> QED BY <1>1, <1>8, <1>9, <1>11 DEF V

(* The last configuration is the one that counts.                           *)
LEMMA ConfigCounts ==
  ASSUME NEW s, Listed(s), NEW c \in Patches, ConfigLast(s, c)
  PROVE  CargoConfig(s) = c
<1> DEFINE N == {"--config"}
           P == ValuePlaces(s, N)
           u == At(s, P)
           V == CargoValues(s, N)
<1>0. N \subseteq CargoTakes
  BY DEF CargoTakes, CommandTakes, GlobalTakes
<1>1. P \subseteq Before(s) /\ V = [k \in DOMAIN u |-> u[k].value]
  BY <1>0, PlacesAre
<1>2. s \in Seq(Argument) /\ P \subseteq DOMAIN s
  BY <1>1, Places DEF Listed, Arguments
<1>3. PICK j \in Before(s) : /\ j + 1 \in Before(s) /\ j + 2 \notin Before(s)
                             /\ s[j] = Opt("--config") /\ s[j + 1] = Word(c)
  BY DEF ConfigLast
<1>4. j + 1 \in P
  <2>1. s[j].name = "--config" /\ s[j].value = ""
    BY <1>3, Fields
  <2>2. ValuePlace(s, j) = j + 1
    BY <2>1 DEF ValuePlace
  <2> QED BY <2>1, <2>2 DEF ValuePlaces
<1> HIDE DEF P
<1>5. u \in Seq(Argument) /\ \E h : Picks(h, s, P, u)
  BY <1>2, AtIs
<1>6. PICK h : Picks(h, s, P, u)
  BY <1>5
<1> HIDE DEF u, V
<1>7. /\ h \in [1 .. Len(u) -> P] /\ \A i \in P : \E k \in 1 .. Len(u) : h[k] = i
      /\ \A k \in 1 .. Len(u) : u[k] = s[h[k]]
      /\ \A i, k \in 1 .. Len(u) : i < k => h[i] < h[k]
  BY <1>6 DEF Picks
<1>8. DOMAIN u = 1 .. Len(u) /\ Len(u) \in Nat
  BY <1>5
<1>9. PICK d \in 0 .. Len(s) : Before(s) = 1 .. d
  BY <1>2, BeforeIs
<1>10. j + 1 = d /\ \A i \in P : i <= j + 1 /\ i \in Nat
  <2>1. j + 1 \in 1 .. d /\ j + 2 \notin 1 .. d /\ j \in 1 .. d /\ d \in Nat
    BY <1>3, <1>9, <1>2
  <2>2. j + 1 = d
    BY <2>1
  <2> QED BY <2>2, <1>1, <1>9, <2>1
<1>11. PICK k \in 1 .. Len(u) : h[k] = j + 1
  BY <1>4, <1>7
<1>17. \A n \in Nat : \A m \in 1 .. n : m # n => m < n /\ n \in 1 .. n
  OBVIOUS
<1>12. k = Len(u)
  <2> SUFFICES ASSUME k # Len(u) PROVE FALSE
    OBVIOUS
  <2>1. k < Len(u) /\ Len(u) \in 1 .. Len(u)
    BY <1>8, <1>17
  <2>2. h[k] < h[Len(u)] /\ h[Len(u)] \in P
    BY <1>7, <2>1
  <2>3. h[Len(u)] <= j + 1 /\ h[Len(u)] \in Nat
    BY <1>10, <2>2
  <2> QED BY <2>2, <2>3, <1>11, <1>10
<1>13. V = [m \in 1 .. Len(u) |-> u[m].value]
  BY <1>1, <1>8
<1>14. V \in Seq(Text)
  <2>1. \A m \in 1 .. Len(u) : u[m].value \in Text
    <3>1. \A m \in 1 .. Len(u) : u[m] \in Argument
      BY <1>5, <1>8
    <3> QED BY <3>1 DEF Argument
  <2> QED BY <1>8, <1>13, <2>1
<1>15. Len(V) = Len(u) /\ V # <<>> /\ V[Len(u)] = c
  <2>1. Len(V) = Len(u)
    BY <1>8, <1>13, <1>14
  <2>2. V # <<>>
    BY <2>1, <1>8, <1>11
  <2>3. V[Len(u)] = u[k].value /\ u[k] = Word(c)
    BY <1>13, <1>12, <1>11, <1>7, <1>3
  <2>4. Word(c).value = c
    BY Fields
  <2> QED BY <2>1, <2>2, <2>3, <2>4
<1> QED BY <1>15 DEF CargoConfig, Last, V

-----------------------------------------------------------------------------
(* reachable_packages, and what is asked of the metadata.                   *)
Grow(edges, before) == before \cup {e[2] : e \in {d \in edges : d[1] \in before}}

(* The sets of packages that the loop finds, as a function of how often it   *)
(* has looked.                                                              *)
LEMMA FoundFunction ==
  ASSUME NEW edges, NEW selected, Cardinality(Nodes) \in Nat
  PROVE  \E f : /\ reachable_packages(edges, selected) = f[Cardinality(Nodes)]
                /\ f[0] = selected
                /\ \A n \in 1 .. Cardinality(Nodes) : f[n] = Grow(edges, f[n - 1])
<1> DEFINE L == Cardinality(Nodes)
           Turn(f, n) == IF n = 0 THEN selected ELSE Grow(edges, f[n - 1])
           Fits(n) == \E f : f = [i \in 0 .. n |-> Turn(f, i)]
           Bad == {n \in 0 .. L : ~Fits(n)}
<1>0. L \in Nat
  OBVIOUS
<1> HIDE DEF L
<1>1. Fits(0)
  <2> DEFINE f == [i \in 0 .. 0 |-> selected]
  <2>1. f = [i \in 0 .. 0 |-> Turn(f, i)]
    OBVIOUS
  <2> QED BY <2>1
<1>2. ASSUME NEW n \in 0 .. (L - 1), Fits(n) PROVE Fits(n + 1)
  <2>1. PICK f : f = [i \in 0 .. n |-> Turn(f, i)]
    BY <1>2
  <2> DEFINE g == [i \in 0 .. (n + 1) |-> IF i = n + 1 THEN Turn(f, i) ELSE f[i]]
  <2>2. n \in Nat /\ \A i \in 0 .. (n + 1) : i \in Nat /\ (i # n + 1 => i \in 0 .. n) /\ (i # 0 => i - 1 \in 0 .. n /\ i - 1 # n + 1 /\ i - 1 \in 0 .. (n + 1))
    BY <1>0
  <2>3. ASSUME NEW i \in 0 .. (n + 1) PROVE g[i] = Turn(g, i)
    <3>1. g[i] = Turn(f, i)
      <4>1. CASE i = n + 1
        <5> HIDE DEF Turn
        <5> QED BY <4>1
      <4>2. CASE i # n + 1
        <5>1. i \in 0 .. n
          BY <2>2, <4>2
        <5>2. f[i] = Turn(f, i)
          <6> HIDE DEF Turn
          <6> QED BY <2>1, <5>1
        <5> HIDE DEF Turn
        <5> QED BY <5>2, <4>2
      <4> QED BY <4>1, <4>2
    <3>2. i # 0 => g[i - 1] = f[i - 1]
      BY <2>2
    <3>3. Turn(f, i) = Turn(g, i)
      <4> HIDE DEF g
      <4> QED BY <3>2
    <3> HIDE DEF g, Turn
    <3> QED BY <3>1, <3>3
  <2>4. g = [i \in 0 .. (n + 1) |-> Turn(g, i)]
    <3>1. g = [i \in 0 .. (n + 1) |-> g[i]]
      OBVIOUS
    <3> HIDE DEF g, Turn
    <3> QED BY <2>3, <3>1
  <2> HIDE DEF Turn, g
  <2> QED BY <2>4
<1> HIDE DEF Fits
<1>3. Fits(L)
  <2>1. Bad = {}
    <3> SUFFICES ASSUME Bad # {} PROVE FALSE
      OBVIOUS
    <3>1. Bad \subseteq Nat
      BY <1>0
    <3>2. PICK m \in Bad : \A n \in Bad : m <= n
      <4> HIDE DEF Bad
      <4> QED BY <3>1, Least
    <3>3. m \in 0 .. L /\ ~Fits(m) /\ m # 0
      BY <1>1
    <3>4. m - 1 \in 0 .. (L - 1) /\ m - 1 \in 0 .. L /\ (m - 1) + 1 = m /\ ~(m <= m - 1)
      BY <1>0, <3>3
    <3>5. Fits(m - 1)
      BY <3>2, <3>4
    <3>6. Fits((m - 1) + 1)
      BY <1>2, <3>4, <3>5
    <3> QED BY <3>3, <3>4, <3>6
  <2> QED BY <2>1, <1>0
<1>4. \E f : f = [i \in 0 .. L |-> Turn(f, i)]
  BY <1>3 DEF Fits
<1> DEFINE F == CHOOSE f : f = [i \in 0 .. L |-> Turn(f, i)]
<1>5. F = [i \in 0 .. L |-> Turn(F, i)]
  <2> HIDE DEF Turn
  <2> QED BY <1>4
<1>6. reachable_packages(edges, selected) = F[L]
  BY DEF reachable_packages, Grow, L
<1> HIDE DEF F
<1>7. 0 \in 0 .. L /\ \A n \in 1 .. L : n \in 0 .. L /\ n # 0
  BY <1>0
<1>8. F[0] = selected /\ \A n \in 1 .. L : F[n] = Grow(edges, F[n - 1])
  <2>1. \A n \in 0 .. L : F[n] = Turn(F, n)
    <3> HIDE DEF Turn
    <3> QED BY <1>5
  <2> QED BY <2>1, <1>7
<1> QED BY <1>6, <1>8 DEF L

(* What the loop finds has the packages it began with, and whatever they     *)
(* depend on: it looks as often as there are packages, which is enough.     *)
LEMMA ReachableIs ==
  ASSUME IsFiniteSet(Nodes), NEW edges, edges \subseteq Nodes \X Nodes, NEW selected, selected \subseteq Nodes
  PROVE  LET R == reachable_packages(edges, selected) IN
         /\ selected \subseteq R /\ R \subseteq Nodes
         /\ \A e \in edges : e[1] \in R => e[2] \in R
<1> DEFINE N == Cardinality(Nodes)
           R == reachable_packages(edges, selected)
           Shut(x) == \A e \in edges : e[1] \in x => e[2] \in x
<1>0. N \in Nat
  BY FS_CardinalityType
<1>1. PICK f : R = f[N] /\ f[0] = selected /\ \A n \in 1 .. N : f[n] = Grow(edges, f[n - 1])
  BY <1>0, FoundFunction
<1>2. ASSUME NEW x, x \subseteq Nodes
      PROVE  /\ x \subseteq Grow(edges, x) /\ Grow(edges, x) \subseteq Nodes
             /\ Shut(x) => Grow(edges, x) = x
             /\ ~Shut(x) => Grow(edges, x) # x
  <2>1. \A e \in edges : e[2] \in Nodes
    OBVIOUS
  <2>2. Grow(edges, x) = x \cup {e[2] : e \in {d \in edges : d[1] \in x}}
    BY DEF Grow
  <2> QED BY <1>2, <2>1, <2>2
<1>3. ASSUME NEW x, x \subseteq Nodes, NEW y, x \subseteq y, y \subseteq Nodes, y # x
      PROVE  Cardinality(y) >= Cardinality(x) + 1 /\ Cardinality(x) \in Nat /\ Cardinality(y) \in Nat
  <2>1. IsFiniteSet(y) /\ IsFiniteSet(x)
    BY <1>3, FS_Subset
  <2>2. Cardinality(x) \in Nat /\ Cardinality(y) \in Nat
    BY <2>1, FS_CardinalityType
  <2>3. Cardinality(x) < Cardinality(y)
    BY <1>3, <2>1, FS_Subset, FS_CardinalityType
  <2> QED BY <2>2, <2>3
<1> DEFINE Fits(n) == /\ selected \subseteq f[n] /\ f[n] \subseteq Nodes
                      /\ Shut(f[n]) \/ Cardinality(f[n]) >= n
           Bad == {n \in 0 .. N : ~Fits(n)}
<1>4. Fits(0)
  <2>1. IsFiniteSet(selected)
    BY FS_Subset
  <2>2. Cardinality(selected) \in Nat
    BY <2>1, FS_CardinalityType
  <2> QED BY <1>1, <2>2
<1> HIDE DEF Shut, R
<1>5. ASSUME NEW n \in 1 .. N, Fits(n - 1) PROVE Fits(n)
  <2> DEFINE x == f[n - 1]
  <2>1. f[n] = Grow(edges, x)
    BY <1>1
  <2>2. x \subseteq Nodes /\ selected \subseteq x /\ (Shut(x) \/ Cardinality(x) >= n - 1)
    BY <1>5
  <2>4. selected \subseteq f[n] /\ f[n] \subseteq Nodes /\ x \subseteq f[n]
        /\ (Shut(x) => f[n] = x) /\ (~Shut(x) => f[n] # x)
    BY <2>1, <2>2, <1>2
  <2> HIDE DEF x
  <2>5. CASE Shut(x)
    BY <2>4, <2>5
  <2>6. CASE ~Shut(x)
    <3>1. Cardinality(f[n]) >= Cardinality(x) + 1 /\ Cardinality(x) \in Nat /\ Cardinality(f[n]) \in Nat
      BY <2>2, <2>4, <2>6, <1>3
    <3>2. Cardinality(x) >= n - 1
      BY <2>2, <2>6
    <3>3. Cardinality(f[n]) >= n
      BY <3>1, <3>2
    <3> QED BY <2>4, <3>3
  <2> QED BY <2>5, <2>6
<1> HIDE DEF Fits
<1>6. Fits(N)
  <2>1. Bad = {}
    <3> SUFFICES ASSUME Bad # {} PROVE FALSE
      OBVIOUS
    <3>1. Bad \subseteq Nat
      BY <1>0
    <3>2. PICK m \in Bad : \A n \in Bad : m <= n
      <4> HIDE DEF Bad
      <4> QED BY <3>1, Least
    <3>3. m \in 0 .. N /\ ~Fits(m) /\ m # 0
      BY <1>4
    <3>4. m \in 1 .. N /\ m - 1 \in 0 .. N /\ ~(m <= m - 1)
      BY <1>0, <3>3
    <3>5. Fits(m - 1)
      BY <3>2, <3>4
    <3> QED BY <3>3, <3>4, <3>5, <1>5
  <2> QED BY <2>1, <1>0
<1>7. selected \subseteq R /\ R \subseteq Nodes /\ (Shut(R) \/ Cardinality(R) >= N)
  BY <1>6, <1>1 DEF Fits
<1>8. Shut(R)
  <2> SUFFICES ASSUME ~Shut(R) PROVE FALSE
    OBVIOUS
  <2>1. Cardinality(R) >= N
    BY <1>7
  <2>2. R # Nodes
    BY DEF Shut
  <2>3. Cardinality(Nodes) >= Cardinality(R) + 1 /\ Cardinality(R) \in Nat
    BY <1>3, <1>7, <2>2
  <2> QED BY <2>1, <2>3, <1>0
<1> QED BY <1>7, <1>8 DEF Shut, R

(* The packages reachable from those selected, for any dependencies: those    *)
(* the loop of reachable_packages finds are the least set that has the        *)
(* selected ones and whatever its packages depend on.                       *)
THEOREM ReachableFromSelected ==
  ASSUME NEW edges, edges \subseteq Nodes \X Nodes, NEW selected, selected \subseteq Nodes
  PROVE  LET R == reachable_packages(edges, selected) IN
         /\ selected \subseteq R /\ \A e \in edges : e[1] \in R => e[2] \in R
         /\ \A S : selected \subseteq S /\ (\A e \in edges : e[1] \in S => e[2] \in S) => R \subseteq S
<1> DEFINE N == Cardinality(Nodes)
           R == reachable_packages(edges, selected)
<1>0. IsFiniteSet(Nodes) /\ N \in Nat
  <2>1. IsFiniteSet(Members \cup {Library}) /\ IsFiniteSet((Members \cup {Library}) \cup {Tokio})
    BY CommandLineAssumption, FS_AddElement
  <2>2. Nodes = (Members \cup {Library}) \cup {Tokio}
    BY DEF Nodes
  <2> QED BY <2>1, <2>2, FS_CardinalityType
<1>1. selected \subseteq R /\ \A e \in edges : e[1] \in R => e[2] \in R
  BY <1>0, ReachableIs
<1>2. PICK f : R = f[N] /\ f[0] = selected /\ \A n \in 1 .. N : f[n] = Grow(edges, f[n - 1])
  BY <1>0, FoundFunction
<1> HIDE DEF N, R
<1>3. ASSUME NEW S, selected \subseteq S, \A e \in edges : e[1] \in S => e[2] \in S
      PROVE  R \subseteq S
  <2> DEFINE Bad == {n \in 0 .. N : ~(f[n] \subseteq S)}
  <2>1. Bad \subseteq Nat
    BY <1>0
  <2>2. ASSUME NEW m \in Bad, \A n \in Bad : m <= n PROVE FALSE
    <3>1. m # 0
      BY <1>2, <1>3, <2>2
    <3>2. m \in 1 .. N /\ m - 1 \in 0 .. N /\ ~(m <= m - 1)
      BY <1>0, <3>1
    <3>3. f[m - 1] \subseteq S
      BY <2>2, <3>2
    <3>4. Grow(edges, f[m - 1]) \subseteq S
      BY <1>3, <3>3 DEF Grow
    <3>5. f[m] \subseteq S
      BY <1>2, <3>2, <3>4
    <3> QED BY <3>5
  <2>3. Bad = {}
    <3> HIDE DEF Bad
    <3> QED BY <2>1, <2>2, Least
  <2>4. N \in 0 .. N
    BY <1>0
  <2> QED BY <1>2, <2>3, <2>4
<1> QED BY <1>1, <1>3 DEF R

(* What metadata is given of the features is what the arguments say of them. *)
LEMMA MetadataIs ==
  ASSUME NEW s, Listed(s)
  PROVE  option_values(metadata_options(s), FeatureOptions) = Values(s, FeatureOptions)
<1> DEFINE T == FeatureOptions
           Q == {i \in Heads(s, T) : s[i].name \in T}
           W == WithValues(s, T, Q)
           u == At(s, W)
<1>0. T \in SUBSET CargoTakes
  BY DEF CargoTakes
<1>9. "" \notin T
  BY DEF FeatureOptions
<1>11. Looked(s, T, Q)
  BY <1>0 DEF Looked
<1>1. /\ W \subseteq Before(s) /\ Together(s, W)
      /\ Q = {i \in Before(s) : s[i].name \in T}
      /\ NamedAt(s, W) \subseteq Q
      /\ Q \subseteq W
  <2> HIDE DEF T, Q
  <2> QED BY <1>11, WithValuesAre
<1>2. metadata_options(s) = u
  BY DEF metadata_options
<1> HIDE DEF W, Q
<1>3. Listed(u) /\ Units(u) = {Unit(s, i) : i \in NamedAt(s, W)}
  BY <1>1, PickIs
<1> HIDE DEF u
<1>4. \A i : Unit(s, i)[1] = s[i].name
  BY DEF Unit
<1>5. NamedAt(s, W) = Q
  BY <1>9, <1>1 DEF NamedAt
<1>6. {n \in Units(u) : n[1] \in T} = {n \in Units(s) : n[1] \in T}
  <2>1. ASSUME NEW n \in Units(u) PROVE n \in Units(s)
    BY <1>3, <1>1 DEF Units, NamedAt
  <2>2. ASSUME NEW n \in Units(s), n[1] \in T PROVE n \in Units(u)
    <3>1. PICK i \in NamedAt(s, Before(s)) : n = Unit(s, i)
      BY DEF Units
    <3>2. i \in Q
      BY <3>1, <1>1, <1>4, <2>2 DEF NamedAt
    <3> QED BY <3>1, <3>2, <1>3, <1>5
  <2> QED BY <2>1, <2>2
<1>7. Values(u, T) = Values(s, T)
  BY <1>6 DEF Values
<1>8. option_values(u, T) = Values(u, T)
  BY <1>0, <1>3, ValuesAre
<1> QED BY <1>2, <1>7, <1>8

(* A finite set in some order.                                              *)
LEMMA SetToSeqIs ==
  ASSUME NEW S, IsFiniteSet(S)
  PROVE  LET q == SetToSeq(S) IN
         /\ q \in Seq(S) /\ ToSet(q) = S /\ S = {q[k] : k \in 1 .. Len(q)}
         /\ (q = <<>> <=> S = {}) /\ (S # {} => Len(q) # 0)
<1> DEFINE N == Cardinality(S)
           Inj(f) == \A a, b \in DOMAIN f : f[a] = f[b] => a = b
           q == SetToSeq(S)
<1>0. N \in Nat
  BY FS_CardinalityType
<1>1. PICK f : f \in Bijection(1 .. N, S)
  <2>1. ExistsBijection(1 .. N, S)
    BY FS_CardinalityType
  <2> QED BY <2>1 DEF ExistsBijection
<1>2. f \in [1 .. N -> S] /\ IsInjective(f)
  BY <1>1 DEF Bijection, Injection
<1>3. q = CHOOSE g \in [1 .. N -> S] : IsInjective(g)
  BY DEF SetToSeq
<1>4. q \in [1 .. N -> S] /\ IsInjective(q)
  <2> HIDE DEF q
  <2> QED BY <1>2, <1>3
<1> HIDE DEF q
<1>5. q \in Injection(1 .. N, S)
  BY <1>4 DEF Injection
<1>6. q \in Surjection(1 .. N, S)
  <2>1. Cardinality(1 .. N) = N
    BY <1>0, FS_Interval
  <2> QED BY <1>5, <2>1, FS_Injection
<1>7. S = {q[k] : k \in 1 .. N}
  BY <1>4, <1>6 DEF Surjection
<1>8. q \in Seq(S) /\ Len(q) = N /\ DOMAIN q = 1 .. N
  BY <1>0, <1>4
<1>9. ToSet(q) = S
  BY <1>7, <1>8 DEF ToSet
<1>10. q = <<>> <=> N = 0
  BY <1>8, <1>0
<1>11. N = 0 <=> S = {}
  BY FS_EmptySet
<1> QED BY <1>7, <1>8, <1>9, <1>10, <1>11 DEF q

-----------------------------------------------------------------------------
(* The aliases: one expanded, and n of them, one after the other.           *)
Expand(given) ==
  IF NextAlias(given) = "" THEN given ELSE Splice(given, command_index(given), AliasOf(NextAlias(given)))
Expansions(f, n) == \A i \in 1 .. n : f[i] = Expand(f[i - 1])
Expands(q, n, x) == \E f : f[0] = q /\ f[n] = x /\ Expansions(f, n)

(* One alias more.                                                          *)
LEMMA ExpandsMore ==
  ASSUME NEW q, NEW n \in Nat, NEW x, Expands(q, n, x)
  PROVE  Expands(q, n + 1, Expand(x))
<1>1. PICK f : f[0] = q /\ f[n] = x /\ Expansions(f, n)
  BY DEF Expands
<1> DEFINE g == [i \in 0 .. (n + 1) |-> IF i = n + 1 THEN Expand(x) ELSE f[i]]
<1>2. /\ 0 \in 0 .. (n + 1) /\ 0 # n + 1 /\ n \in 0 .. (n + 1) /\ n # n + 1 /\ n + 1 \in 0 .. (n + 1)
      /\ (n + 1) - 1 = n
      /\ \A i \in 1 .. (n + 1) : i \in 0 .. (n + 1) /\ i - 1 \in 0 .. (n + 1) /\ i - 1 # n + 1
                                 /\ (i # n + 1 => i \in 1 .. n)
  OBVIOUS
<1>3. g[0] = q /\ g[n + 1] = Expand(x) /\ g[n] = x
  BY <1>1, <1>2
<1>4. Expansions(g, n + 1)
  <2> SUFFICES ASSUME NEW i \in 1 .. (n + 1) PROVE g[i] = Expand(g[i - 1])
    BY DEF Expansions
  <2>1. CASE i = n + 1
    BY <1>2, <1>3, <2>1
  <2>2. CASE i # n + 1
    <3>1. i \in 1 .. n /\ g[i] = f[i] /\ g[i - 1] = f[i - 1]
      BY <1>2, <2>2
    <3> HIDE DEF g
    <3> QED BY <1>1, <3>1 DEF Expansions
  <2> QED BY <2>1, <2>2
<1> HIDE DEF g
<1> QED BY <1>3, <1>4 DEF Expands

(* No alias at all.                                                         *)
LEMMA ExpandsNone ==
  ASSUME NEW q PROVE Expands(q, 0, q)
<1> DEFINE f == [i \in {0} |-> q]
<1>1. f[0] = q /\ 1 .. 0 = {}
  OBVIOUS
<1> QED BY <1>1 DEF Expands, Expansions

(* What Cargo expands, as a function of the number of aliases.              *)
LEMMA CargoFunction ==
  ASSUME NEW q, IsFiniteSet(AliasNames)
  PROVE  Expands(q, Cardinality(AliasNames) + 1, CargoExpands(q)) /\ Cardinality(AliasNames) \in Nat
<1> DEFINE L == Cardinality(DOMAIN Aliases \cup DOMAIN Environment) + 1
           Turn(f, n) == IF n = 0 THEN q
                         ELSE IF NextAlias(f[n - 1]) = "" THEN f[n - 1]
                         ELSE Splice(f[n - 1], command_index(f[n - 1]), AliasOf(NextAlias(f[n - 1])))
           Fits(n) == \E f : f = [i \in 0 .. n |-> Turn(f, i)]
           Bad == {n \in 0 .. L : ~Fits(n)}
<1>0. L \in Nat /\ L = Cardinality(AliasNames) + 1 /\ Cardinality(AliasNames) \in Nat
  BY FS_CardinalityType DEF AliasNames
<1> HIDE DEF L
<1>1. Fits(0)
  <2> DEFINE f == [i \in 0 .. 0 |-> q]
  <2>1. f = [i \in 0 .. 0 |-> Turn(f, i)]
    OBVIOUS
  <2> QED BY <2>1
<1>2. ASSUME NEW n \in 0 .. (L - 1), Fits(n) PROVE Fits(n + 1)
  <2>1. PICK f : f = [i \in 0 .. n |-> Turn(f, i)]
    BY <1>2
  <2> DEFINE g == [i \in 0 .. (n + 1) |-> IF i = n + 1 THEN Turn(f, i) ELSE f[i]]
  <2>2. n \in Nat /\ \A i \in 0 .. (n + 1) : i \in Nat /\ (i # n + 1 => i \in 0 .. n) /\ (i # 0 => i - 1 \in 0 .. n /\ i - 1 # n + 1 /\ i - 1 \in 0 .. (n + 1))
    BY <1>0
  <2>3. ASSUME NEW i \in 0 .. (n + 1) PROVE g[i] = Turn(g, i)
    <3>1. g[i] = Turn(f, i)
      <4>1. CASE i = n + 1
        <5> HIDE DEF Turn
        <5> QED BY <4>1
      <4>2. CASE i # n + 1
        <5>1. i \in 0 .. n
          BY <2>2, <4>2
        <5>2. f[i] = Turn(f, i)
          <6> HIDE DEF Turn
          <6> QED BY <2>1, <5>1
        <5> HIDE DEF Turn
        <5> QED BY <5>2, <4>2
      <4> QED BY <4>1, <4>2
    <3>2. i # 0 => g[i - 1] = f[i - 1]
      BY <2>2
    <3>3. Turn(f, i) = Turn(g, i)
      <4> HIDE DEF g
      <4> QED BY <3>2
    <3> HIDE DEF g, Turn
    <3> QED BY <3>1, <3>3
  <2>4. g = [i \in 0 .. (n + 1) |-> Turn(g, i)]
    <3>1. g = [i \in 0 .. (n + 1) |-> g[i]]
      OBVIOUS
    <3> HIDE DEF g, Turn
    <3> QED BY <2>3, <3>1
  <2> HIDE DEF Turn, g
  <2> QED BY <2>4
<1> HIDE DEF Fits
<1>3. Fits(L)
  <2>1. Bad = {}
    <3> SUFFICES ASSUME Bad # {} PROVE FALSE
      OBVIOUS
    <3>1. Bad \subseteq Nat
      BY <1>0
    <3>2. PICK m \in Bad : \A n \in Bad : m <= n
      <4> HIDE DEF Bad
      <4> QED BY <3>1, Least
    <3>3. m \in 0 .. L /\ ~Fits(m) /\ m # 0
      BY <1>1
    <3>4. m - 1 \in 0 .. (L - 1) /\ m - 1 \in 0 .. L /\ (m - 1) + 1 = m /\ ~(m <= m - 1)
      BY <1>0, <3>3
    <3>5. Fits(m - 1)
      BY <3>2, <3>4
    <3>6. Fits((m - 1) + 1)
      BY <1>2, <3>4, <3>5
    <3> QED BY <3>3, <3>4, <3>6
  <2> QED BY <2>1, <1>0
<1>4. \E f : f = [i \in 0 .. L |-> Turn(f, i)]
  BY <1>3 DEF Fits
<1> DEFINE F == CHOOSE f : f = [i \in 0 .. L |-> Turn(f, i)]
<1>5. F = [i \in 0 .. L |-> Turn(F, i)]
  <2> HIDE DEF Turn
  <2> QED BY <1>4
<1>6. CargoExpands(q) = F[L]
  BY DEF CargoExpands, L
<1> HIDE DEF F
<1>7. \A n \in 1 .. L : n \in 0 .. L /\ n # 0
  BY <1>0
<1>9. 0 \in 0 .. L
  BY <1>0
<1>8. F[0] = q /\ \A n \in 1 .. L : F[n] = Expand(F[n - 1])
  <2>1. \A n \in 0 .. L : F[n] = Turn(F, n)
    <3> HIDE DEF Turn
    <3> QED BY <1>5
  <2>2. F[0] = q
    BY <2>1, <1>9
  <2>3. ASSUME NEW n \in 1 .. L PROVE F[n] = Expand(F[n - 1])
    BY <2>1, <1>7 DEF Expand
  <2> QED BY <2>2, <2>3
<1>10. Expands(q, L, F[L])
  BY <1>8 DEF Expands, Expansions
<1> QED BY <1>6, <1>10, <1>0

(* Once there is no alias to expand nothing changes any more.               *)
LEMMA ExpandsOnce ==
  ASSUME NEW q, NEW n \in Nat, NEW m \in Nat, n <= m, NEW x, Expands(q, n, x), NEW y, Expands(q, m, y),
         Expand(x) = x
  PROVE  y = x
<1>1. PICK f : f[0] = q /\ f[n] = x /\ Expansions(f, n)
  BY DEF Expands
<1>2. PICK g : g[0] = q /\ g[m] = y /\ Expansions(g, m)
  BY DEF Expands
<1> DEFINE Fits(i) == (i <= n => g[i] = f[i]) /\ (n <= i => g[i] = x)
           Bad == {i \in 0 .. m : ~Fits(i)}
<1>3. ASSUME NEW i \in 1 .. m, Fits(i - 1) PROVE Fits(i)
  <2>1. g[i] = Expand(g[i - 1])
    BY <1>2 DEF Expansions
  <2>2. ASSUME i <= n PROVE g[i] = f[i]
    <3>1. i - 1 <= n /\ i \in 1 .. n
      BY <2>2
    <3>2. f[i] = Expand(f[i - 1])
      BY <1>1, <3>1 DEF Expansions
    <3> QED BY <1>3, <2>1, <3>1, <3>2
  <2>3. ASSUME n <= i PROVE g[i] = x
    <3>1. i = n \/ n <= i - 1
      BY <2>3
    <3>2. CASE i = n
      BY <2>2, <3>2, <1>1
    <3>3. CASE n <= i - 1
      BY <1>3, <2>1, <3>3
    <3> QED BY <3>1, <3>2, <3>3
  <2> QED BY <2>2, <2>3
<1>4. Fits(0)
  BY <1>1, <1>2
<1> HIDE DEF Fits
<1>5. Fits(m)
  <2>1. Bad = {}
    <3> SUFFICES ASSUME Bad # {} PROVE FALSE
      OBVIOUS
    <3>1. Bad \subseteq Nat
      OBVIOUS
    <3>2. PICK k \in Bad : \A i \in Bad : k <= i
      <4> HIDE DEF Bad
      <4> QED BY <3>1, Least
    <3>3. k \in 0 .. m /\ ~Fits(k) /\ k # 0
      BY <1>4
    <3>4. k \in 1 .. m /\ k - 1 \in 0 .. m /\ ~(k <= k - 1)
      BY <3>3
    <3>5. Fits(k - 1)
      BY <3>2, <3>4
    <3> QED BY <3>3, <3>4, <3>5, <1>3
  <2> QED BY <2>1
<1> QED BY <1>5, <1>2 DEF Fits

(* Cargo, which expands one alias more than are named, ends where any        *)
(* expansion that is no longer ends.                                        *)
LEMMA CargoExpandsIs ==
  ASSUME IsFiniteSet(AliasNames), NEW q, NEW n \in Nat, n <= Cardinality(AliasNames) + 1, NEW x, Expands(q, n, x),
         Expand(x) = x
  PROVE  CargoExpands(q) = x
<1> DEFINE K == Cardinality(AliasNames) + 1
<1>1. Expands(q, K, CargoExpands(q)) /\ K \in Nat
  BY CargoFunction
<1>3. n <= K
  OBVIOUS
<1> HIDE DEF K
<1> QED BY <1>1, <1>3, ExpandsOnce

(* What the default aliases stand for.                                      *)
DefaultTargets == {"build", "check", "doc", "run", "test", "remove"}
(* Two lists that Cargo reads alike, --config aside.                        *)
Bare(s) == {m \in Units(s) : m[1] # "--config"}
Like(q, s) == Regular(q) /\ Regular(s) /\ operation(q) = operation(s) /\ Bare(q) = Bare(s)
(* What is assumed of the aliases that are named.                           *)
TargetsFit == \A name \in AliasNames : Target(AliasOf(name)) \/ AliasOf(name) = <<>> \/ Shell(AliasOf(name))

(* What an alias may stand for has a command.                               *)
LEMMA TargetIs ==
  ASSUME NEW t, Target(t)
  PROVE  Regular(t) /\ Free(t) # {} /\ Leads(t, operation(t))
<1>1. Regular(t) /\ Free(t) # {}
  BY DEF Target
<1> QED BY <1>1, OperationIs

(* A built-in command may stand for an alias.                               *)
LEMMA WordIs ==
  ASSUME NEW w \in DefaultTargets
  PROVE  Target(<<Word(w)>>) /\ operation(<<Word(w)>>) = w /\ builtin(w)
<1> DEFINE t == <<Word(w)>>
<1>1. Word(w) \in Argument /\ Word(w).name = "" /\ Word(w) # Dashes /\ Word(w) # Toolchain
  <2>1. w \in Text
    BY TextIs DEF DefaultTargets
  <2>2. Word(w) \in Argument
    BY <2>1, TextIs
  <2> QED BY <2>2 DEF Word, Dashes, Toolchain, Opt, Joined
<1>2. t \in Arguments /\ Len(t) = 1 /\ t[1] = Word(w) /\ DOMAIN t = {1}
  <2>1. \A a \in Argument : <<a>> \in Seq(Argument) /\ Len(<<a>>) = 1 /\ <<a>>[1] = a /\ DOMAIN <<a>> = {1}
    OBVIOUS
  <2>2. Word(w) \in Argument
    BY <1>1
  <2> QED BY <2>1, <2>2 DEF Arguments
<1>3. ~Takes(CargoTakes, t[1]) /\ ~Takes(CargoTakes \ CommandTakes, t[1])
  BY <1>1, <1>2 DEF Takes, CargoTakes, CommandTakes, GlobalTakes, FeatureOptions, PackageTakes
<1>4. Before(t) = {1}
  <2>1. DashFree(t)
    BY <1>1, <1>2 DEF DashFree
  <2>2. t \in Seq(Argument)
    BY <1>2 DEF Arguments
  <2>3. Before(t) = 1 .. 1
    BY <2>1, <2>2, <1>2, DashFreeBefore
  <2> QED BY <2>3
<1>5. Free(t) = {1}
  BY <1>1, <1>2, <1>4 DEF Free
<1>6. Valued(t)
  BY <1>3, <1>4 DEF Valued
<1>7. Ordered(t) /\ ToolFirst(t)
  BY <1>3, <1>4 DEF Ordered, ToolFirst
<1>8. Target(t)
  BY <1>1, <1>2, <1>5, <1>6, <1>7 DEF Target, Regular, Listed
<1>9. Leads(t, w)
  <2>1. t[1].value = w
    BY <1>2, Fields
  <2>2. 1 <= 1
    OBVIOUS
  <2> QED BY <2>1, <2>2, <1>5 DEF Leads
<1>10. Regular(t)
  BY <1>8, TargetIs
<1>11. operation(t) = w
  BY <1>9, <1>10, OperationIs
<1>12. builtin(w)
  BY DEF builtin, kind, Kinds, DefaultTargets
<1> QED BY <1>8, <1>11, <1>12

(* So may what a default alias stands for.                                  *)
LEMMA DefaultIs ==
  ASSUME NEW name
  PROVE  DefaultAlias(name) = <<>>
         \/ (Target(DefaultAlias(name)) /\ builtin(operation(DefaultAlias(name))))
<1>1. DefaultAlias(name) = <<>> \/ \E w \in DefaultTargets : DefaultAlias(name) = <<Word(w)>>
  BY DEF DefaultAlias, DefaultTargets
<1>2. \A w \in DefaultTargets : Target(<<Word(w)>>) /\ builtin(operation(<<Word(w)>>))
  BY WordIs
<1> QED BY <1>1, <1>2

(* What an alias that is not refused stands for; unless it is named it is a  *)
(* default one, which ends the expansion.                                   *)
LEMMA AliasTarget ==
  ASSUME TargetsFit, NEW name, AliasOf(name) # <<>>, ~Shell(AliasOf(name))
  PROVE  /\ Target(AliasOf(name))
         /\ name \notin AliasNames => builtin(operation(AliasOf(name)))
<1>1. CASE name \in AliasNames
  BY <1>1 DEF TargetsFit
<1>2. CASE name \notin AliasNames
  <2>1. AliasOf(name) = DefaultAlias(name)
    BY <1>2 DEF AliasOf, AliasNames
  <2> QED BY <2>1, <1>2, DefaultIs
<1> QED BY <1>1, <1>2

(* One alias expanded, in terms of the units.                               *)
LEMMA ExpandIs ==
  ASSUME NEW q, Regular(q), NonEmpty(NextAlias(q)), NEW t, t = AliasOf(NextAlias(q)), Target(t)
  PROVE  /\ Regular(Expand(q)) /\ operation(Expand(q)) = operation(t)
         /\ Units(Expand(q)) = Units(q) \cup Units(t)
         /\ \A c : ConfigLast(q, c) => ConfigLast(Expand(q), c)
<1>1. Expand(q) = Splice(q, command_index(q), t)
  BY DEF Expand, NonEmpty
<1>2. NonEmpty(operation(q))
  BY DEF NextAlias, NonEmpty
<1>3. Free(q) # {}
  <2>1. Free(q) = {} => operation(q) = ""
    BY OperationIs
  <2> QED BY <1>2, <2>1 DEF NonEmpty
<1>4. First(q, command_index(q))
  BY <1>3, OperationIs
<1> DEFINE x == Splice(q, command_index(q), t)
<1>5. /\ Regular(x) /\ Units(x) = Units(q) \cup Units(t)
      /\ \A w : Leads(t, w) => Leads(x, w)
      /\ \A c : ConfigLast(q, c) => ConfigLast(x, c)
  BY <1>4, SpliceIs
<1>6. Leads(x, operation(t))
  BY <1>5, TargetIs
<1> HIDE DEF x
<1>7. operation(x) = operation(t)
  BY <1>5, <1>6, OperationIs
<1> QED BY <1>1, <1>5, <1>7 DEF x

(* Lists read alike stay so when an alias is expanded in both.              *)
LEMMA LikeExpand ==
  ASSUME NEW q, NEW s, Like(q, s), NonEmpty(NextAlias(s)), Target(AliasOf(NextAlias(s)))
  PROVE  /\ Like(Expand(q), Expand(s)) /\ Units(s) \subseteq Units(Expand(s))
         /\ operation(Expand(s)) = operation(AliasOf(NextAlias(s)))
         /\ \A c : ConfigLast(q, c) => ConfigLast(Expand(q), c)
<1> DEFINE t == AliasOf(NextAlias(s))
<1>1. NextAlias(q) = NextAlias(s)
  BY DEF Like, NextAlias
<1>2. t = AliasOf(NextAlias(q)) /\ NonEmpty(NextAlias(q)) /\ Target(t)
  BY <1>1
<1>3. Regular(q) /\ Regular(s) /\ Bare(q) = Bare(s)
  BY DEF Like
<1>4. t = AliasOf(NextAlias(s))
  OBVIOUS
<1> HIDE DEF t
<1>5. /\ Regular(Expand(q)) /\ operation(Expand(q)) = operation(t)
      /\ Units(Expand(q)) = Units(q) \cup Units(t)
      /\ \A c : ConfigLast(q, c) => ConfigLast(Expand(q), c)
  BY <1>2, <1>3, ExpandIs
<1>6. /\ Regular(Expand(s)) /\ operation(Expand(s)) = operation(t)
      /\ Units(Expand(s)) = Units(s) \cup Units(t)
  BY <1>2, <1>3, <1>4, ExpandIs
<1>7. Bare(Expand(q)) = Bare(Expand(s))
  BY <1>3, <1>5, <1>6 DEF Bare
<1> QED BY <1>5, <1>6, <1>7 DEF Like, t

(* Options that the likeness of two lists covers: all but --config.         *)
Aside(N) == N \subseteq CargoTakes /\ "--config" \notin N
AsideOption(n) == n # "" /\ n # "--config"

(* Lists read alike have the same values of any option but --config,        *)
LEMMA LikeValues ==
  ASSUME NEW q, NEW s, Bare(q) = Bare(s), NEW N, Aside(N)
  PROVE  Values(q, N) = Values(s, N)
<1>1. ASSUME NEW z PROVE {m \in Units(z) : m[1] \in N} = {m \in Bare(z) : m[1] \in N}
  BY DEF Bare, Aside
<1>2. {m \in Units(q) : m[1] \in N} = {m \in Units(s) : m[1] \in N}
  BY <1>1
<1> QED BY <1>2 DEF Values

(* the same options,                                                        *)
LEMMA LikeOptions ==
  ASSUME NEW q, NEW s, Listed(q), Listed(s), Bare(q) = Bare(s), NEW n, AsideOption(n)
  PROVE  n \in CargoOptions(q) <=> has_option(s, n)
<1>1. NonEmpty(n)
  BY DEF NonEmpty, AsideOption
<1>2. n \in CargoOptions(q) <=> \E m \in Units(q) : m[1] = n
  BY <1>1, OptionsAre
<1>3. has_option(s, n) <=> \E m \in Units(s) : m[1] = n
  BY <1>1, OptionsAre
<1>4. ASSUME NEW z PROVE (\E m \in Units(z) : m[1] = n) <=> \E m \in Bare(z) : m[1] = n
  BY DEF Bare, AsideOption
<1> QED BY <1>2, <1>3, <1>4

(* and so select the same packages: what Cargo reads in a command line is    *)
(* what telekio read in one like it.                                        *)
LEMMA CargoReads ==
  ASSUME NEW q, NEW s, Like(q, s)
  PROVE  /\ CargoSelects(q) = selected_packages(s)
         /\ CargoBuilds(q) <=> /\ package_selects_workspace(operation(s))
                               /\ ~has_option(s, "--help") /\ ~has_option(s, "-h")
         /\ CargoValues(q, FeatureOptions) # <<>> <=> option_values(metadata_options(s), FeatureOptions) # {}
<1>1. Regular(q) /\ Regular(s) /\ operation(q) = operation(s) /\ Bare(q) = Bare(s) /\ Listed(q) /\ Listed(s)
  BY DEF Like, Regular
<1>2. Aside({"-p", "--package"}) /\ Aside({"--exclude"}) /\ Aside(FeatureOptions)
  BY DEF Aside, CargoTakes, CommandTakes, GlobalTakes, FeatureOptions, PackageTakes
<1>3. ASSUME NEW N, Aside(N)
      PROVE  /\ ToSet(CargoValues(q, N)) = option_values(s, N)
             /\ CargoValues(q, N) = <<>> <=> option_values(s, N) = {}
             /\ option_values(s, N) = Values(s, N)
  <2>1. N \subseteq CargoTakes
    BY <1>3 DEF Aside
  <2>2. Values(q, N) = Values(s, N)
    BY <1>1, <1>3, LikeValues
  <2>3. option_values(s, N) = Values(s, N)
    BY <1>1, <2>1, ValuesAre
  <2>4. ToSet(CargoValues(q, N)) = Values(q, N) /\ (CargoValues(q, N) = <<>> <=> Values(q, N) = {})
    BY <1>1, <2>1, CargoValuesAre
  <2> QED BY <2>2, <2>3, <2>4
<1>4. \A n : AsideOption(n) => (n \in CargoOptions(q) <=> has_option(s, n))
  BY <1>1, LikeOptions
<1>5. AsideOption("--workspace") /\ AsideOption("--all") /\ AsideOption("--help") /\ AsideOption("-h")
  BY DEF AsideOption
<1>6. CargoOptions(q) \cap {"--workspace", "--all"} # {} <=> AllMembers(s)
  BY <1>4, <1>5 DEF AllMembers
<1>7. CargoOptions(q) \cap {"--help", "-h"} = {} <=> ~has_option(s, "--help") /\ ~has_option(s, "-h")
  BY <1>4, <1>5
<1>8. CargoSelects(q) = selected_packages(s)
  <2>1. {"--package", "-p"} = {"-p", "--package"}
    OBVIOUS
  <2>2. ToSet(CargoValues(q, {"-p", "--package"})) = option_values(s, {"--package", "-p"})
    BY <1>2, <1>3, <2>1
  <2>3. ToSet(CargoValues(q, {"--exclude"})) = option_values(s, {"--exclude"})
    BY <1>2, <1>3
  <2>4. (CargoOptions(q) \cap {"--workspace", "--all"} # {}) = AllMembers(s)
    BY <1>6 DEF AllMembers, has_option
  <2> QED BY <2>2, <2>3, <2>4 DEF CargoSelects, selected_packages
<1>9. CargoValues(q, FeatureOptions) # <<>> <=> option_values(metadata_options(s), FeatureOptions) # {}
  <2>1. option_values(metadata_options(s), FeatureOptions) = Values(s, FeatureOptions)
    BY <1>1, MetadataIs
  <2> QED BY <1>2, <1>3, <2>1
<1> QED BY <1>1, <1>7, <1>8, <1>9 DEF CargoBuilds

(* A package that uses Tokio has it among what it is found to depend on.    *)
LEMMA UsesReaches ==
  ASSUME graph \in Graphs, NEW q, NEW s, Like(q, s), NEW p, UsesTokio(q, p), NEW S, S \subseteq Nodes, p \in S
  PROVE  Tokio \in reachable_packages(Dependencies(metadata_options(s)), S)
<1> DEFINE edges == Dependencies(metadata_options(s))
           R == reachable_packages(edges, S)
<1>1. edges = graph.always \cup IF CargoValues(q, FeatureOptions) # <<>> THEN graph.net ELSE {}
  BY CargoReads DEF Dependencies
<1>2. edges \subseteq Nodes \X Nodes
  BY <1>1, CommandLineAssumption
<1>3. IsFiniteSet(Nodes)
  <2>1. IsFiniteSet(Members)
    BY CommandLineAssumption
  <2>2. IsFiniteSet(Members \cup {Library})
    BY <2>1, FS_AddElement
  <2>3. IsFiniteSet((Members \cup {Library}) \cup {Tokio})
    BY <2>2, FS_AddElement
  <2>4. Nodes = (Members \cup {Library}) \cup {Tokio}
    BY DEF Nodes
  <2> QED BY <2>3, <2>4
<1> HIDE DEF edges
<1>4. S \subseteq R /\ R \subseteq Nodes /\ \A e \in edges : e[1] \in R => e[2] \in R
  BY <1>2, <1>3, ReachableIs
<1> HIDE DEF R
<1>5. R \in SUBSET Nodes /\ p \in R
  BY <1>4
<1>6. \A nodes \in SUBSET Nodes : p \in nodes /\ (\A e \in edges : e[1] \in nodes => e[2] \in nodes) => Tokio \in nodes
  BY <1>1 DEF UsesTokio
<1>7. Tokio \in R
  BY <1>4, <1>5, <1>6
<1> QED BY <1>7 DEF R, edges

-----------------------------------------------------------------------------
(* The commands: what the property asks of one, which packages telekio       *)
(* takes for its own, and what it queues.                                   *)
Built(given) ==
  {p \in Members : /\ CargoBuilds(given) /\ origin = "crates.io"
                   /\ p \in CargoSelects(given) /\ UsesTokio(given, p)}
RightConfig(given) == \A p \in Built(given) : CargoConfig(given) = PatchOf(package_role(p), Mixed)
(* Before it runs the command telekio sees that its packages use Tokio.     *)
Notices(job, given) ==
  \A p \in Built(given) :
    /\ operation(job.interpreted) # "update"
    /\ Tokio \in reachable_packages(Dependencies(metadata_options(job.interpreted)), job.packages)

(* A package of the workspace that Cargo builds is one of those that         *)
(* telekio selects.                                                         *)
LEMMA SelectedIs ==
  ASSUME MembersOrNone, defaults \subseteq Members, NEW p \in Members, p \in selected_packages(expanded),
         package_selects_workspace(operation(expanded))
  PROVE  /\ p \in SelectedMembers(expanded)
         /\ workspace_selection(expanded)
<1> DEFINE X == expanded
           P == option_values(X, {"-p", "--package"})
           E == option_values(X, {"--exclude"})
<1>1. option_values(X, {"--package", "-p"}) = P
  <2>1. {"--package", "-p"} = {"-p", "--package"}
    OBVIOUS
  <2> QED BY <2>1
<1>2. selected_packages(X) = IF AllMembers(X) THEN Members \ E
                             ELSE IF E # {} THEN {} ELSE IF P # {} THEN P ELSE defaults
  BY <1>1 DEF selected_packages, Tree
<1> HIDE DEF P, E
<1>3. P \subseteq Members \/ P \cap Members = {}
  BY DEF MembersOrNone, P
<1>4. selected_packages(X) \subseteq Members
  BY <1>2, <1>3
<1>5. ByName(X) <=> has_option(X, "--exclude") \/ P # {}
  BY DEF ByName, P
<1>6. ~has_option(X, "--exclude") => E = {}
  BY DEF has_option, option_values, E
<1>7. CASE ByName(X)
  <2>1. workspace_selection(X)
    BY <1>4, <1>7 DEF workspace_selection
  <2> QED BY <2>1, <1>7 DEF SelectedMembers
<1>8. CASE ~ByName(X)
  <2>1. E = {} /\ P = {}
    BY <1>5, <1>6, <1>8
  <2>2. selected_packages(X) = IF AllMembers(X) THEN Members ELSE defaults
    BY <1>2, <2>1
  <2>3. SelectedMembers(X) = IF AllMembers(X) THEN Members ELSE defaults
    BY <1>8 DEF SelectedMembers
  <2>4. workspace_selection(X)
    BY <1>8 DEF workspace_selection
  <2> QED BY <2>2, <2>3, <2>4
<1> QED BY <1>7, <1>8

(* telekio selects packages of the workspace only.                          *)
LEMMA SelectedMembersAre ==
  ASSUME defaults \subseteq Members PROVE SelectedMembers(expanded) \subseteq Members
<1>1. workspace_selection(expanded) /\ ByName(expanded) => selected_packages(expanded) \subseteq Members
  BY DEF workspace_selection
<1> QED BY <1>1 DEF SelectedMembers

(* The packages of one role in some order.                                  *)
LEMMA GroupIs ==
  ASSUME defaults \subseteq Members, NEW r
  PROVE  LET q == Group(expanded, r)
             S == {p \in SelectedMembers(expanded) : package_role(p) = r}
         IN  /\ q \in Seq(Members) /\ ToSet(q) = S /\ S = {q[k] : k \in 1 .. Len(q)}
             /\ (q = <<>> <=> S = {}) /\ (q # <<>> => Len(q) # 0)
<1> DEFINE S == {p \in SelectedMembers(expanded) : package_role(p) = r}
           q == SetToSeq(S)
<1>1. S \subseteq Members
  BY SelectedMembersAre
<1>2. IsFiniteSet(S)
  BY <1>1, CommandLineAssumption, FS_Subset
<1>3. Group(expanded, r) = q
  BY DEF Group
<1> HIDE DEF S
<1>4. /\ q \in Seq(S) /\ ToSet(q) = S /\ S = {q[k] : k \in 1 .. Len(q)}
      /\ (q = <<>> <=> S = {}) /\ (S # {} => Len(q) # 0)
  BY <1>2, SetToSeqIs
<1> HIDE DEF q
<1>5. q \in Seq(Members)
  BY <1>1, <1>4
<1>6. /\ q \in Seq(Members) /\ ToSet(q) = S /\ S = {q[k] : k \in 1 .. Len(q)}
      /\ (q = <<>> <=> S = {}) /\ (q # <<>> => Len(q) # 0)
  BY <1>4, <1>5
<1> QED BY <1>3, <1>6 DEF S

(* What the table of commands says of those the proofs name.                *)
LEMMA OperationKinds ==
  /\ ~package_selects_workspace("install") /\ ~package_selects_workspace("")
  /\ ~package_selects_workspace("update")
  /\ kind("tree") = "Packages" /\ package_selects_workspace("tree")
  /\ \A w : kind(w) \in {"", "Plain", "Workspace"} => ~package_selects_workspace(w)
  /\ \A w : kind(w) = "Packages" => w # "update" /\ w # "install"
  /\ \A w : package_selects_workspace(w) => w # "update"
  /\ kind("") = ""
<1>1. DOMAIN Kinds = {"Packages", "Workspace", "Single", "Output", "Plain"}
  BY DEF Kinds
<1>2. kind("update") = "Workspace" /\ kind("install") = "Single" /\ kind("tree") = "Packages"
  <2>1. \A k \in DOMAIN Kinds : "update" \in Kinds[k] <=> k = "Workspace"
    BY <1>1 DEF Kinds
  <2>2. \A k \in DOMAIN Kinds : "install" \in Kinds[k] <=> k = "Single"
    BY <1>1 DEF Kinds
  <2>3. \A k \in DOMAIN Kinds : "tree" \in Kinds[k] <=> k = "Packages"
    BY <1>1 DEF Kinds
  <2>4. "Workspace" \in DOMAIN Kinds /\ "Single" \in DOMAIN Kinds /\ "Packages" \in DOMAIN Kinds
    BY <1>1
  <2> QED BY <2>1, <2>2, <2>3, <2>4 DEF kind
<1>3. kind("") = ""
  <2>2. /\ "" \notin Kinds.Packages /\ "" \notin Kinds.Workspace /\ "" \notin Kinds.Single
        /\ "" \notin Kinds.Output /\ "" \notin Kinds.Plain
    BY DEF Kinds
  <2>1. \A k \in DOMAIN Kinds : "" \notin Kinds[k]
    BY <1>1, <2>2
  <2> QED BY <2>1 DEF kind
<1>4. \A w : kind(w) \in {"", "Plain", "Workspace"} => ~package_selects_workspace(w)
  BY DEF package_selects_workspace
<1>5. \A w : kind(w) = "Packages" => w # "update" /\ w # "install"
  BY <1>2
<1>6. ~package_selects_workspace("install") /\ ~package_selects_workspace("update") /\ package_selects_workspace("tree")
  BY <1>2 DEF package_selects_workspace
<1>7. \A w : package_selects_workspace(w) => w # "update"
  BY <1>6
<1>8. ~package_selects_workspace("")
  <2>1. kind("") \notin {"Packages", "Single"}
    BY <1>3
  <2> QED BY <2>1 DEF package_selects_workspace
<1> QED BY <1>2, <1>3, <1>4, <1>5, <1>6, <1>7, <1>8

(* Whatever is read like the user's arguments Cargo expands to what is read  *)
(* like telekio's expansion of them; and it leaves expanded ones alone.     *)
CargoLike ==
  \A q : Like(q, arguments) =>
    /\ Like(CargoExpands(q), expanded)
    /\ \A c : ConfigLast(q, c) => ConfigLast(CargoExpands(q), c)
CargoKeeps == \A q : Regular(q) /\ operation(q) = operation(expanded) => CargoExpands(q) = q
(* What is known of the workspace and the arguments once the aliases are     *)
(* expanded.                                                                *)
Clear ==
  /\ graph \in Graphs /\ defaults \subseteq Members /\ MembersOrNone
  /\ Regular(arguments) /\ Regular(expanded) /\ Units(arguments) \subseteq Units(expanded)
  /\ CargoLike /\ CargoKeeps

(* A regular list is read as itself.                                        *)
LEMMA LikeItself ==
  ASSUME NEW s, Regular(s) PROVE Like(s, s)
BY DEF Like

(* status changes nothing of how a list is read but its configuration.      *)
LEMMA StatusLike ==
  ASSUME NEW s, Regular(s), NEW c \in Patches
  PROVE  Like(status(s, c), s) /\ ConfigLast(status(s, c), c)
<1> DEFINE q == status(s, c)
<1>1. /\ Regular(q) /\ ConfigLast(q, c)
      /\ Units(q) = Units(s) \cup {<<"--config", c>>}
      /\ Free(s) = {} => Free(q) = {}
      /\ \A w : Leads(s, w) => Leads(q, w)
  BY StatusIs
<1> HIDE DEF q
<1>2. Bare(q) = Bare(s)
  BY <1>1 DEF Bare
<1>3. operation(q) = operation(s)
  <2>1. CASE Free(s) = {}
    <3>1. operation(s) = ""
      BY <2>1, OperationIs
    <3>2. operation(q) = ""
      BY <1>1, <2>1, OperationIs
    <3> QED BY <3>1, <3>2
  <2>2. CASE Free(s) # {}
    <3>1. Leads(s, operation(s))
      BY <2>2, OperationIs
    <3>2. Leads(q, operation(s))
      BY <1>1, <3>1
    <3> QED BY <1>1, <3>2, OperationIs
  <2> QED BY <2>1, <2>2
<1> QED BY <1>1, <1>2, <1>3 DEF Like, q

(* What the property asks about is a member that telekio sees selected.     *)
LEMMA BuiltReads ==
  ASSUME NEW q, NEW s, Like(q, s), NEW p \in Built(q)
  PROVE  /\ p \in Members /\ origin = "crates.io" /\ UsesTokio(q, p)
         /\ package_selects_workspace(operation(s))
         /\ ~has_option(s, "--help") /\ ~has_option(s, "-h")
         /\ p \in selected_packages(s)
<1>1. /\ p \in Members /\ origin = "crates.io" /\ UsesTokio(q, p)
      /\ CargoBuilds(q) /\ p \in CargoSelects(q)
  BY DEF Built
<1> QED BY <1>1, CargoReads

(* Cargo takes the configuration that was put last.                         *)
LEMMA ConfigIs ==
  ASSUME NEW q, NEW s, Like(q, s), NEW c \in Patches, ConfigLast(q, c)
  PROVE  CargoConfig(q) = c
<1>1. Listed(q)
  BY DEF Like, Regular
<1> QED BY <1>1, ConfigCounts

(* Every role has a patch.                                                  *)
LEMMA PatchOfIs ==
  ASSUME NEW r, NEW m PROVE PatchOf(r, m) \in Patches /\ PatchOf(r, m) # NoPatch
BY DEF PatchOf, Patches, NoPatch

(* The commands that get no patch, or that of a package outside of the       *)
(* workspace, build no package of it that uses Tokio.                       *)
LEMMA UnpatchedJob ==
  ASSUME Clear, NEW c, c \in Patches \/ c = NoPatch,
         Plain \/ NoManifest \/ ~uses_tokio(expanded)
  PROVE  Built(CargoExpands(Given(Job(arguments, c, {})))) = {}
<1> DEFINE q == Given(Job(arguments, c, {}))
           y == CargoExpands(q)
<1>1. Like(q, arguments)
  <2>1. q = IF c = NoPatch THEN arguments ELSE status(arguments, c)
    BY DEF Given, Job
  <2>2. CASE c = NoPatch
    BY <2>1, <2>2, LikeItself DEF Clear
  <2>3. CASE c # NoPatch
    BY <2>1, <2>3, StatusLike DEF Clear
  <2> QED BY <2>2, <2>3
<1>2. Like(y, expanded)
  BY <1>1 DEF Clear, CargoLike
<1> HIDE DEF y
<1> SUFFICES ASSUME NEW p \in Built(y) PROVE FALSE
  BY DEF y
<1>3. /\ p \in Members /\ origin = "crates.io" /\ UsesTokio(y, p)
      /\ package_selects_workspace(operation(expanded))
      /\ ~has_option(expanded, "--help") /\ ~has_option(expanded, "-h")
  BY <1>2, BuiltReads
<1>4. ~NoManifest
  BY <1>3, OperationKinds DEF NoManifest
<1>5. ~Plain
  <2>1. \A n : NonEmpty(n) /\ has_option(arguments, n) => has_option(expanded, n)
    <3>1. Listed(arguments) /\ Listed(expanded) /\ Units(arguments) \subseteq Units(expanded)
      BY DEF Clear, Regular
    <3> QED BY <3>1, OptionsAre
  <2>2. NonEmpty("--help") /\ NonEmpty("-h")
    BY DEF NonEmpty
  <2>3. ~has_option(arguments, "--help") /\ ~has_option(arguments, "-h")
    BY <1>3, <2>1, <2>2
  <2>4. ~(operation(expanded) = "" \/ kind(operation(expanded)) = "Plain")
    <3>1. ASSUME operation(expanded) = "" PROVE FALSE
      <4>1. ~package_selects_workspace("")
        BY OperationKinds
      <4> QED BY <1>3, <3>1, <4>1
    <3>2. ASSUME kind(operation(expanded)) = "Plain" PROVE FALSE
      <4>1. kind(operation(expanded)) \in {"Packages", "Single"}
        BY <1>3 DEF package_selects_workspace
      <4> QED BY <3>2, <4>1
    <3> QED BY <3>1, <3>2
  <2> QED BY <2>3, <2>4 DEF Plain
<1>6. uses_tokio(expanded)
  <2>1. Members \subseteq Nodes
    BY DEF Nodes
  <2>2. Tokio \in reachable_packages(Dependencies(metadata_options(expanded)), Members)
    BY <1>2, <1>3, <2>1, UsesReaches DEF Clear
  <2> QED BY <1>3, <2>2 DEF uses_tokio
<1> QED BY <1>4, <1>5, <1>6

(* One command for packages of one role is given their patch.               *)
LEMMA OneRoleJob ==
  ASSUME Clear, NEW r \in PackageRoles, \A s \in PackageRoles : (Group(expanded, s) # <<>>) = (s = r),
         NEW job, job = Job(arguments, PatchOf(r, Mixed), ToSet(Group(expanded, r))),
         NEW y, y = CargoExpands(Given(job))
  PROVE  RightConfig(y) /\ Notices(job, y)
<1> DEFINE c == PatchOf(r, Mixed)
<1>1. /\ job.arguments = arguments /\ job.config = c /\ job.interpreted = expanded
      /\ job.packages = ToSet(Group(expanded, r))
  BY DEF Job
<1>2. c \in Patches /\ c # NoPatch
  BY PatchOfIs
<1>3. Given(job) = status(arguments, c)
  BY <1>1, <1>2 DEF Given
<1>4. Like(y, expanded) /\ CargoConfig(y) = c
  <2>1. Like(status(arguments, c), arguments) /\ ConfigLast(status(arguments, c), c)
    BY <1>2, StatusLike DEF Clear
  <2>2. Like(y, expanded) /\ ConfigLast(y, c)
    BY <1>3, <2>1 DEF Clear, CargoLike
  <2> QED BY <1>2, <2>2, ConfigIs
<1> HIDE DEF c
<1>5. ASSUME NEW p \in Built(y)
      PROVE  package_role(p) = r /\ p \in job.packages /\ p \in Members /\ UsesTokio(y, p)
             /\ operation(expanded) # "update"
  <2>1. /\ p \in Members /\ UsesTokio(y, p) /\ package_selects_workspace(operation(expanded))
        /\ p \in selected_packages(expanded)
    BY <1>4, BuiltReads
  <2>2. p \in SelectedMembers(expanded)
    BY <2>1, SelectedIs DEF Clear
  <2>3. package_role(p) \in PackageRoles
    BY DEF package_role, PackageRoles
  <2>4. \A s \in PackageRoles : ToSet(Group(expanded, s)) = {m \in SelectedMembers(expanded) : package_role(m) = s}
                         /\ (Group(expanded, s) = <<>> <=> {m \in SelectedMembers(expanded) : package_role(m) = s} = {})
    BY GroupIs DEF Clear
  <2>5. p \in {m \in SelectedMembers(expanded) : package_role(m) = package_role(p)}
    BY <2>2
  <2>6. Group(expanded, package_role(p)) # <<>>
    BY <2>3, <2>4, <2>5
  <2>7. package_role(p) = r
    BY <2>3, <2>6
  <2>8. p \in job.packages
    BY <1>1, <2>4, <2>5, <2>7
  <2> QED BY <2>1, <2>7, <2>8, OperationKinds
<1>6. RightConfig(y)
  BY <1>4, <1>5 DEF RightConfig, c
<1>7. Notices(job, y)
  <2> SUFFICES ASSUME NEW p \in Built(y)
               PROVE  /\ operation(expanded) # "update"
                      /\ Tokio \in reachable_packages(Dependencies(metadata_options(expanded)), job.packages)
    BY <1>1 DEF Notices
  <2>1. job.packages \subseteq Nodes
    BY <1>1, GroupIs, SelectedMembersAre DEF Clear, Nodes
  <2>2. Tokio \in reachable_packages(Dependencies(metadata_options(expanded)), job.packages)
    BY <1>4, <1>5, <2>1, UsesReaches DEF Clear
  <2> QED BY <1>5, <2>2
<1> QED BY <1>6, <1>7

(* What the command of a group is given.                                    *)
LEMMA GroupJobIs ==
  ASSUME NEW r
  PROVE  /\ LET job == GroupJob(r, TRUE)
                given == package_arguments(expanded, Group(expanded, r))
            IN  /\ job.interpreted = given /\ job.packages = ToSet(Group(expanded, r))
                /\ Given(job) = status(given, PatchOf(r, TRUE))
         /\ Given(GroupJob(r, FALSE)) = status(expanded, PatchOf(r, TRUE))
<1>1. PatchOf(r, TRUE) # NoPatch
  BY PatchOfIs
<1>2. LET job == GroupJob(r, TRUE)
          given == package_arguments(expanded, Group(expanded, r))
      IN  /\ job.arguments = given /\ job.interpreted = given /\ job.config = PatchOf(r, TRUE)
          /\ job.packages = ToSet(Group(expanded, r))
  BY DEF GroupJob, Job
<1>3. GroupJob(r, FALSE).arguments = expanded /\ GroupJob(r, FALSE).config = PatchOf(r, TRUE)
  BY DEF GroupJob, Job
<1> QED BY <1>1, <1>2, <1>3 DEF Given

(* A command for both roles is run in a workspace that has both.            *)
LEMMA MixedIs ==
  ASSUME defaults \subseteq Members, Group(expanded, "Host") # <<>>, Group(expanded, "Guest") # <<>>
  PROVE  Mixed
<1>1. ASSUME NEW r, Group(expanded, r) # <<>> PROVE \E p \in Members : package_role(p) = r
  <2>1. {p \in SelectedMembers(expanded) : package_role(p) = r} # {}
    BY <1>1, GroupIs
  <2> QED BY <2>1, SelectedMembersAre
<1> QED BY <1>1 DEF Mixed, PackageRoles

(* What telekio selects with the packages of one role is these packages.    *)
LEMMA GroupSelects ==
  ASSUME MembersNamed, NEW s, Regular(s), NEW o, Leads(s, o), NEW q \in Seq(Members), Len(q) # 0,
         NEW given, given = package_arguments(s, q)
  PROVE  selected_packages(given) = {q[k] : k \in 1 .. Len(q)}
<1> DEFINE S == {q[k] : k \in 1 .. Len(q)}
<1>1. /\ Regular(given)
      /\ Units(given) = {m \in Units(s) : m[1] \notin PackageNames} \cup {<<"--package", q[k]>> : k \in 1 .. Len(q)}
  BY PackageArgumentsIs
<1>2. Listed(given)
  BY <1>1 DEF Regular
<1>3. \A m \in Units(given) : m[1] \in PackageNames => m[1] = "--package" /\ m[2] \in S
  <2>1. \A k \in 1 .. Len(q) : <<"--package", q[k]>>[1] = "--package" /\ <<"--package", q[k]>>[2] \in S
    OBVIOUS
  <2> HIDE DEF S
  <2> QED BY <1>1, <2>1
<1>4. ~AllMembers(given)
  <2>1. NonEmpty("--workspace") /\ NonEmpty("--all")
    BY DEF NonEmpty
  <2>2. \A m \in Units(given) : m[1] # "--workspace" /\ m[1] # "--all"
    BY <1>3 DEF PackageNames
  <2>3. ~has_option(given, "--workspace")
    BY <1>2, <2>1, <2>2, OptionsAre
  <2>4. ~has_option(given, "--all")
    BY <1>2, <2>1, <2>2, OptionsAre
  <2> QED BY <2>3, <2>4 DEF AllMembers
<1>5. option_values(given, {"--exclude"}) = {}
  <2>1. {"--exclude"} \subseteq CargoTakes
    BY DEF CargoTakes, PackageTakes
  <2>2. \A m \in Units(given) : m[1] \notin {"--exclude"}
    BY <1>3 DEF PackageNames, PackageTakes
  <2>3. Values(given, {"--exclude"}) = {}
    BY <2>2 DEF Values
  <2> QED BY <1>2, <2>1, <2>3, ValuesAre
<1>6. option_values(given, {"--package", "-p"}) = S
  <2> DEFINE N == {"--package", "-p"}
  <2>1. N \subseteq CargoTakes
    BY DEF CargoTakes, PackageTakes
  <2>2. \A m \in Units(given) : m[1] \in N => m[2] \in S
    BY <1>3 DEF PackageNames, PackageTakes
  <2>3. \A k \in 1 .. Len(q) : \E m \in Units(given) : m[1] \in N /\ m[2] = q[k]
    <3>1. \A k \in 1 .. Len(q) : <<"--package", q[k]>> \in Units(given)
      BY <1>1
    <3>2. \A k \in 1 .. Len(q) : <<"--package", q[k]>>[1] \in N /\ <<"--package", q[k]>>[2] = q[k]
      OBVIOUS
    <3> QED BY <3>1, <3>2
  <2> HIDE DEF N
  <2>4. Values(given, N) = S
    BY <2>2, <2>3 DEF Values
  <2>5. option_values(given, N) = S
    BY <1>2, <2>1, <2>4, ValuesAre
  <2> QED BY <2>5 DEF N
<1>7. S # {}
  <2>1. 1 \in 1 .. Len(q)
    OBVIOUS
  <2> QED BY <2>1
<1> HIDE DEF S
<1>8. selected_packages(given) = S
  BY <1>4, <1>5, <1>6, <1>7 DEF selected_packages, Tree
<1> QED BY <1>8 DEF S

(* A command for the packages of one role is given their patch.             *)
LEMMA SelectingJob ==
  ASSUME Clear, MembersNamed, NEW r \in PackageRoles, Mixed, SelectsGroups, Group(expanded, r) # <<>>,
         NEW job, job = GroupJob(r, TRUE), NEW y, y = CargoExpands(Given(job))
  PROVE  RightConfig(y) /\ Notices(job, y)
<1> DEFINE q == Group(expanded, r)
           given == package_arguments(expanded, q)
           c == PatchOf(r, TRUE)
           o == operation(expanded)
<1>1. /\ job.interpreted = given /\ job.packages = ToSet(q) /\ Given(job) = status(given, c)
  BY GroupJobIs
<1>2. c \in Patches
  BY PatchOfIs
<1>3. /\ q \in Seq(Members) /\ Len(q) # 0 /\ ToSet(q) = {q[k] : k \in 1 .. Len(q)}
      /\ ToSet(q) = {p \in SelectedMembers(expanded) : package_role(p) = r}
  BY GroupIs DEF Clear
<1>4. Regular(expanded) /\ kind(o) = "Packages"
  BY DEF Clear, SelectsGroups
<1>5. Leads(expanded, o)
  <2>1. Free(expanded) # {}
    <3> SUFFICES ASSUME Free(expanded) = {} PROVE FALSE
      OBVIOUS
    <3>1. o = ""
      BY <1>4, OperationIs
    <3>2. kind(o) = ""
      BY <3>1, OperationKinds
    <3> QED BY <3>2, <1>4
  <2> QED BY <1>4, <2>1, OperationIs
<1> HIDE DEF q, c, o
<1>6. Regular(given) /\ Leads(given, o)
  BY <1>3, <1>4, <1>5, PackageArgumentsIs
<1>7. selected_packages(given) = ToSet(q)
  <2>1. selected_packages(given) = {q[k] : k \in 1 .. Len(q)}
    BY <1>3, <1>4, <1>5, GroupSelects
  <2> QED BY <1>3, <2>1
<1> HIDE DEF given
<1>8. operation(given) = o
  BY <1>6, OperationIs
<1>9. Like(status(given, c), given) /\ ConfigLast(status(given, c), c)
  BY <1>2, <1>6, StatusLike
<1>10. y = status(given, c)
  <2>1. Regular(status(given, c)) /\ operation(status(given, c)) = operation(expanded)
    BY <1>8, <1>9 DEF Like, o
  <2>2. CargoExpands(status(given, c)) = status(given, c)
    BY <2>1 DEF Clear, CargoKeeps
  <2> QED BY <1>1, <2>2
<1>11. Like(y, given) /\ CargoConfig(y) = c
  <2>1. Like(y, given) /\ ConfigLast(y, c)
    BY <1>9, <1>10
  <2> QED BY <2>1, <1>2, ConfigIs
<1>12. ASSUME NEW p \in Built(y)
       PROVE  package_role(p) = r /\ p \in job.packages /\ UsesTokio(y, p)
  <2>1. p \in selected_packages(given) /\ UsesTokio(y, p)
    BY <1>11, BuiltReads
  <2> QED BY <1>1, <1>3, <1>7, <2>1
<1>13. RightConfig(y)
  BY <1>11, <1>12 DEF RightConfig, PatchOf, c
<1>14. operation(given) # "update"
  BY <1>4, <1>8, OperationKinds
<1>15. ASSUME NEW p \in Built(y)
       PROVE  Tokio \in reachable_packages(Dependencies(metadata_options(given)), job.packages)
  <2>1. job.packages \subseteq Nodes
    BY <1>1, <1>3, SelectedMembersAre DEF Clear, Nodes
  <2>2. graph \in Graphs
    BY DEF Clear
  <2> QED BY <1>11, <1>12, <2>1, <2>2, UsesReaches
<1>16. Notices(job, y)
  BY <1>1, <1>14, <1>15 DEF Notices
<1> QED BY <1>13, <1>16

(* A command of which both roles get a copy builds nothing.                 *)
LEMMA KeepingJob ==
  ASSUME Clear, NEW r, ~SelectsGroups, KeepsGroups, NEW job, job = GroupJob(r, FALSE)
  PROVE  Built(CargoExpands(Given(job))) = {}
<1> DEFINE c == PatchOf(r, TRUE)
           y == CargoExpands(Given(job))
<1>1. Given(job) = status(expanded, c)
  BY GroupJobIs
<1>2. Like(y, expanded)
  <2>1. Like(status(expanded, c), expanded)
    BY PatchOfIs, StatusLike DEF Clear
  <2>2. CargoExpands(status(expanded, c)) = status(expanded, c)
    BY <2>1 DEF Clear, CargoKeeps, Like
  <2> QED BY <1>1, <2>1, <2>2
<1> HIDE DEF y
<1> SUFFICES ASSUME NEW p \in Built(y) PROVE FALSE
  BY DEF y
<1>3. p \in Members /\ p \in selected_packages(expanded) /\ package_selects_workspace(operation(expanded))
  BY <1>2, BuiltReads
<1>4. workspace_selection(expanded)
  BY <1>3, SelectedIs DEF Clear
<1>5. kind(operation(expanded)) # "Packages"
  BY <1>4 DEF SelectsGroups
<1>6. operation(expanded) # "tree"
  BY <1>5, OperationKinds
<1>7. kind(operation(expanded)) = "Workspace"
  BY <1>6 DEF KeepsGroups
<1> QED BY <1>3, <1>7 DEF package_selects_workspace

-----------------------------------------------------------------------------
(* The invariant.  ArgumentAssumption, in the terms of the lemmas.          *)
Lawful == (\A s \in Requests : Regular(s)) /\ TargetsFit /\ IsFiniteSet(AliasNames) /\ MembersNamed

(* As many aliases as telekio has expanded of its arguments, expanded of     *)
(* what is read like them, leave what is read like the result.              *)
Chained ==
  \A q : Like(q, arguments) =>
    \E x : /\ Expands(q, Cardinality(visited), x) /\ Like(x, expanded)
           /\ \A c : ConfigLast(q, c) => ConfigLast(x, c)
(* No alias is expanded twice, and none after a default one.                *)
Bounded ==
  /\ IsFiniteSet(visited)
  /\ \/ visited \subseteq AliasNames
     \/ builtin(operation(expanded)) /\ \E name : visited \subseteq AliasNames \cup {name}
ExpansionInv ==
  /\ Regular(arguments) /\ Regular(expanded) /\ Units(arguments) \subseteq Units(expanded)
  /\ Chained /\ Bounded

(* So Cargo, which goes on as long as there are names, has expanded them all. *)
LEMMA BoundedIs ==
  ASSUME Lawful, Bounded
  PROVE  Cardinality(visited) \in Nat /\ Cardinality(visited) <= Cardinality(AliasNames) + 1
<1>1. IsFiniteSet(AliasNames) /\ IsFiniteSet(visited)
  BY DEF Lawful, Bounded
<1>2. PICK name : visited \subseteq AliasNames \cup {name}
  BY DEF Bounded
<1>3. /\ IsFiniteSet(AliasNames \cup {name})
      /\ Cardinality(AliasNames \cup {name}) = IF name \in AliasNames THEN Cardinality(AliasNames) ELSE Cardinality(AliasNames) + 1
      /\ Cardinality(AliasNames) \in Nat /\ Cardinality(visited) \in Nat
  BY <1>1, FS_AddElement, FS_CardinalityType
<1>4. Cardinality(visited) <= Cardinality(AliasNames \cup {name})
  BY <1>2, <1>3, FS_Subset
<1> QED BY <1>3, <1>4

(* At first nothing is expanded.                                            *)
LEMMA ExpansionInit ==
  ASSUME Lawful, CommandInit PROVE ExpansionInv
<1>1. /\ arguments \in Requests /\ expanded = arguments /\ visited = {}
  BY DEF CommandInit
<1>2. Regular(arguments) /\ Regular(expanded)
  BY <1>1 DEF Lawful
<1>3. Bounded
  BY <1>1, FS_EmptySet DEF Bounded
<1>4. Chained
  <2> SUFFICES ASSUME NEW q, Like(q, arguments)
               PROVE  /\ Expands(q, Cardinality(visited), q) /\ Like(q, expanded)
                      /\ \A c : ConfigLast(q, c) => ConfigLast(q, c)
    BY DEF Chained
  <2>1. Cardinality(visited) = 0
    BY <1>1, FS_EmptySet
  <2> QED BY <1>1, <2>1, ExpandsNone
<1> QED BY <1>1, <1>2, <1>3, <1>4 DEF ExpansionInv

(* One alias more.                                                          *)
LEMMA ExpansionStep ==
  ASSUME Lawful, ExpansionInv, ExpandAlias PROVE ExpansionInv'
<1> DEFINE name == NextAlias(expanded)
           t == AliasOf(name)
<1>1. /\ NonEmpty(name) /\ ~Refused(name) /\ visited' = visited \cup {name} /\ arguments' = arguments
      /\ expanded' = Splice(expanded, command_index(expanded), t)
  BY DEF ExpandAlias, NonEmpty, workspace
<1>2. expanded' = Expand(expanded)
  BY <1>1 DEF Expand, NonEmpty
<1>3. name \notin visited /\ t # <<>> /\ ~Shell(t)
  BY <1>1 DEF Refused, Recursive
<1>4. Target(t) /\ (name \notin AliasNames => builtin(operation(t)))
  BY <1>3, AliasTarget DEF Lawful
<1>5. ~builtin(operation(expanded))
  BY <1>1 DEF NextAlias, NonEmpty
<1> HIDE DEF t, name
<1>6. Regular(arguments) /\ Regular(expanded) /\ Units(arguments) \subseteq Units(expanded)
  BY DEF ExpansionInv
<1>7. /\ Like(Expand(expanded), Expand(expanded)) /\ Units(expanded) \subseteq Units(Expand(expanded))
      /\ operation(Expand(expanded)) = operation(t)
  BY <1>1, <1>4, <1>6, LikeItself, LikeExpand DEF t, name
<1>8. Regular(expanded') /\ Units(arguments') \subseteq Units(expanded') /\ Regular(arguments')
      /\ operation(expanded') = operation(t)
  BY <1>1, <1>2, <1>6, <1>7 DEF Like
<1>9. IsFiniteSet(visited) /\ Cardinality(visited) \in Nat /\ Cardinality(visited') = Cardinality(visited) + 1
      /\ IsFiniteSet(visited')
  <2>1. IsFiniteSet(visited)
    BY DEF ExpansionInv, Bounded
  <2> QED BY <2>1, <1>1, <1>3, FS_AddElement, FS_CardinalityType
<1>10. Bounded'
  <2>1. visited \subseteq AliasNames
    BY <1>5 DEF ExpansionInv, Bounded
  <2>2. visited' \subseteq AliasNames \/ (builtin(operation(expanded')) /\ visited' \subseteq AliasNames \cup {name})
    BY <2>1, <1>1, <1>4, <1>8
  <2> QED BY <2>2, <1>9 DEF Bounded
<1>11. ASSUME NEW q, Like(q, arguments)
       PROVE  \E x : /\ Expands(q, Cardinality(visited) + 1, x) /\ Like(x, Expand(expanded))
                     /\ \A c : ConfigLast(q, c) => ConfigLast(x, c)
  <2>1. PICK x : /\ Expands(q, Cardinality(visited), x) /\ Like(x, expanded)
                 /\ \A c : ConfigLast(q, c) => ConfigLast(x, c)
    BY <1>11 DEF ExpansionInv, Chained
  <2>2. Expands(q, Cardinality(visited) + 1, Expand(x))
    BY <1>9, <2>1, ExpandsMore
  <2>3. Like(Expand(x), Expand(expanded)) /\ \A c : ConfigLast(x, c) => ConfigLast(Expand(x), c)
    BY <1>1, <1>4, <2>1, LikeExpand DEF t, name
  <2> QED BY <2>1, <2>2, <2>3
<1>12. Chained'
  BY <1>1, <1>2, <1>9, <1>11 DEF Chained
<1> QED BY <1>8, <1>10, <1>12 DEF ExpansionInv

(* There is nothing left to expand.                                         *)
NoAlias == NextAlias(expanded) = ""

(* Then Cargo's expansion and telekio's agree.                              *)
LEMMA KnownIs ==
  ASSUME Lawful, ExpansionInv, NoAlias, graph \in Graphs, defaults \subseteq Members, MembersOrNone
  PROVE  Clear
<1> DEFINE n == Cardinality(visited)
<1>1. n \in Nat /\ n <= Cardinality(AliasNames) + 1 /\ IsFiniteSet(AliasNames)
  BY BoundedIs DEF ExpansionInv, Lawful
<1>2. ASSUME NEW q, operation(q) = operation(expanded) PROVE Expand(q) = q
  <2>1. NextAlias(q) = NextAlias(expanded)
    BY <1>2 DEF NextAlias
  <2> QED BY <2>1 DEF Expand, NoAlias
<1> HIDE DEF n
<1>3. CargoLike
  <2> SUFFICES ASSUME NEW q, Like(q, arguments)
               PROVE  /\ Like(CargoExpands(q), expanded)
                      /\ \A c : ConfigLast(q, c) => ConfigLast(CargoExpands(q), c)
    BY DEF CargoLike
  <2>1. PICK x : /\ Expands(q, n, x) /\ Like(x, expanded)
                 /\ \A c : ConfigLast(q, c) => ConfigLast(x, c)
    BY DEF ExpansionInv, Chained, n
  <2>2. Expand(x) = x
    BY <1>2, <2>1 DEF Like
  <2>3. CargoExpands(q) = x
    BY <1>1, <2>1, <2>2, CargoExpandsIs
  <2> QED BY <2>1, <2>3
<1>4. CargoKeeps
  <2> SUFFICES ASSUME NEW q, operation(q) = operation(expanded) PROVE CargoExpands(q) = q
    BY DEF CargoKeeps
  <2>1. Expand(q) = q /\ Expands(q, 0, q)
    BY <1>2, ExpandsNone
  <2>2. 0 \in Nat /\ 0 <= Cardinality(AliasNames) + 1
    <3>1. Cardinality(AliasNames) \in Nat
      BY <1>1, FS_CardinalityType
    <3>2. \A m \in Nat : 0 <= m + 1
      OBVIOUS
    <3> QED BY <3>1, <3>2
  <2> QED BY <1>1, <2>1, <2>2, CargoExpandsIs
<1> QED BY <1>3, <1>4 DEF Clear, ExpansionInv

(* A command that is right in what it is given, one for which the lockfile   *)
(* is settled too, and one that has run so.                                 *)
Right(job) ==
  LET given == CargoExpands(Given(job)) IN RightConfig(given) /\ Notices(job, given)
Settled(job) ==
  LET given == CargoExpands(Given(job)) IN RightConfig(given) /\ (Built(given) # {} => locked = "patch")
Served(given, tokio) == RightConfig(given) /\ (Built(given) # {} => tokio = "patch")

WorkspaceInv == graph \in Graphs /\ defaults \subseteq Members /\ locked \in {"patch", "another"}
(* What waits is right, and settled once it is ready to run.                *)
QueueInv ==
  /\ phase = "interpreted" => NoAlias
  /\ phase \in {"preparing", "ready"} => (\E j : todo = <<j>>) \/ (\E i, j : todo = <<i, j>>)
  /\ phase = "preparing" => \A j : (\E n \in DOMAIN todo : j = todo[n]) => Right(j)
  /\ phase = "ready" => /\ \A j : j = todo[1] => Settled(j)
                        /\ \A j : (\E n \in DOMAIN todo : n # 1 /\ j = todo[n]) => Right(j)
RunsInv ==
  /\ \E S : runs \in Seq(S)
  /\ \A r : (\E k \in DOMAIN runs : r = runs[k]) => Served(CargoExpands(r.arguments), r.locked)

(* What is asked of a command depends on the workspace and nothing else.    *)
LEMMA Frozen ==
  ASSUME workspace' = workspace
  PROVE  /\ \A g : Built(g)' = Built(g)
         /\ \A g : RightConfig(g)' <=> RightConfig(g)
         /\ \A j, g : Notices(j, g)' <=> Notices(j, g)
<1>1. graph' = graph /\ origin' = origin /\ defaults' = defaults /\ telekio' = telekio
  BY DEF workspace
<1>2. \A g, p : UsesTokio(g, p)' <=> UsesTokio(g, p)
  BY <1>1 DEF UsesTokio
<1>3. \A g : CargoSelects(g)' = CargoSelects(g)
  BY <1>1 DEF CargoSelects, Tree
<1>4. \A g : Built(g)' = Built(g)
  BY <1>1, <1>2, <1>3 DEF Built
<1>5. \A p : package_role(p)' = package_role(p)
  BY <1>1 DEF package_role
<1>6. Mixed' <=> Mixed
  BY <1>5 DEF Mixed
<1>7. \A g : RightConfig(g)' <=> RightConfig(g)
  BY <1>4, <1>5, <1>6 DEF RightConfig, PatchOf
<1>8. \A g : Dependencies(g)' = Dependencies(g)
  BY <1>1 DEF Dependencies
<1>9. \A j, g : Notices(j, g)' <=> Notices(j, g)
  BY <1>4, <1>8 DEF Notices
<1> QED BY <1>4, <1>7, <1>9

(* A command once right stays so; the lockfile is never taken back.         *)
LEMMA FrozenJobs ==
  ASSUME workspace' = workspace
  PROVE  /\ \A j : Right(j)' <=> Right(j)
         /\ \A j : locked' = locked \/ locked' = "patch" => (Settled(j) => Settled(j)')
         /\ \A g, t : Served(g, t)' <=> Served(g, t)
<1>1. \A j : Right(j)' <=> Right(j)
  BY Frozen DEF Right
<1>2. \A j : locked' = locked \/ locked' = "patch" => (Settled(j) => Settled(j)')
  BY Frozen DEF Settled
<1>3. \A g, t : Served(g, t)' <=> Served(g, t)
  BY Frozen DEF Served
<1> QED BY <1>1, <1>2, <1>3

(* The commands that ran, when none more runs.                              *)
LEMMA RunsKept ==
  ASSUME RunsInv, workspace' = workspace, runs' = runs PROVE RunsInv'
<1>1. \E S : runs' \in Seq(S)
  BY DEF RunsInv
<1>2. \A r : (\E k \in DOMAIN runs' : r = runs'[k]) => Served(CargoExpands(r.arguments), r.locked)'
  <2> SUFFICES ASSUME NEW r, \E k \in DOMAIN runs : r = runs[k]
               PROVE  Served(CargoExpands(r.arguments), r.locked)'
    OBVIOUS
  <2>1. Served(CargoExpands(r.arguments), r.locked)
    BY DEF RunsInv
  <2> QED BY <2>1, FrozenJobs
<1> QED BY <1>1, <1>2 DEF RunsInv

(* The command runs that is at the head of the queue.                       *)
LEMMA RunsMore ==
  ASSUME RunsInv, workspace' = workspace, NEW job, Settled(job), locked \in {"patch", "another"}, NEW b,
         runs' = Append(runs, [arguments |-> Given(job), locked |-> locked, succeeded |-> b])
  PROVE  RunsInv'
<1> DEFINE e == [arguments |-> Given(job), locked |-> locked, succeeded |-> b]
<1>1. PICK S : runs \in Seq(S)
  BY DEF RunsInv
<1>2. runs' = Append(runs, e)
  OBVIOUS
<1>7. e.arguments = Given(job) /\ e.locked = locked
  OBVIOUS
<1> HIDE DEF e
<1>3. runs \in Seq(S \cup {e}) /\ e \in S \cup {e}
  <2>1. S \subseteq S \cup {e}
    OBVIOUS
  <2> QED BY <1>1, <2>1
<1>4. /\ runs' \in Seq(S \cup {e}) /\ DOMAIN runs' = 1 .. Len(runs) + 1
      /\ \A k \in DOMAIN runs' : runs'[k] = e \/ (k \in DOMAIN runs /\ runs'[k] = runs[k])
  BY <1>2, <1>3
<1>5. Served(CargoExpands(e.arguments), e.locked)
  BY <1>7 DEF Settled, Served
<1>6. \A r : (\E k \in DOMAIN runs' : r = runs'[k]) => Served(CargoExpands(r.arguments), r.locked)'
  <2> SUFFICES ASSUME NEW r, \E k \in DOMAIN runs' : r = runs'[k]
               PROVE  Served(CargoExpands(r.arguments), r.locked)'
    OBVIOUS
  <2>1. r = e \/ \E k \in DOMAIN runs : r = runs[k]
    BY <1>4
  <2>2. Served(CargoExpands(r.arguments), r.locked)
    BY <2>1, <1>5 DEF RunsInv
  <2> QED BY <2>2, FrozenJobs
<1> QED BY <1>4, <1>6 DEF RunsInv

(* The commands that ran are those the property asks about.                 *)
LEMMA RunsServe ==
  ASSUME RunsInv PROVE EveryTokioIsItsRoles
<1> SUFFICES ASSUME NEW k \in DOMAIN runs, CargoBuilds(CargoExpands(runs[k].arguments)), origin = "crates.io",
                    NEW p \in CargoSelects(CargoExpands(runs[k].arguments)) \cap Members,
                    UsesTokio(CargoExpands(runs[k].arguments), p)
             PROVE  /\ CargoConfig(CargoExpands(runs[k].arguments)) = PatchOf(package_role(p), Mixed)
                    /\ runs[k].locked = "patch"
  BY DEF EveryTokioIsItsRoles
<1>1. Served(CargoExpands(runs[k].arguments), runs[k].locked)
  BY DEF RunsInv
<1>2. p \in Built(CargoExpands(runs[k].arguments))
  BY DEF Built
<1> QED BY <1>1, <1>2 DEF Served, RightConfig

(* A command that serves no package of the workspace may run as it is.      *)
LEMMA QueueOne ==
  ASSUME workspace' = workspace, locked' = locked, NEW job, Built(CargoExpands(Given(job))) = {},
         todo' = <<job>>, phase' = "ready"
  PROVE  QueueInv'
<1>1. Settled(job)
  BY DEF Settled, RightConfig
<1>2. Settled(job)'
  BY <1>1, FrozenJobs
<1>3. phase' # "interpreted" /\ phase' # "preparing"
  OBVIOUS
<1>4. todo'[1] = job /\ DOMAIN todo' = {1}
  OBVIOUS
<1>5. \A j : j = todo'[1] => Settled(j)'
  BY <1>2, <1>4
<1>6. \A j : ~\E n \in DOMAIN todo' : n # 1 /\ j = todo'[n]
  BY <1>4
<1>7. \E j : todo' = <<j>>
  OBVIOUS
<1> QED BY <1>3, <1>5, <1>6, <1>7 DEF QueueInv

(* One or two commands queued for the lockfile to be settled first.         *)
LEMMA QueuePrepared ==
  ASSUME workspace' = workspace, NEW i, NEW j, Right(i), Right(j), todo' = <<i>> \/ todo' = <<i, j>>,
         phase' = "preparing"
  PROVE  QueueInv'
<1>1. Right(i)' /\ Right(j)'
  BY FrozenJobs
<1>2. phase' # "interpreted" /\ phase' # "ready"
  OBVIOUS
<1>3. \A n \in DOMAIN todo' : todo'[n] = i \/ todo'[n] = j
  OBVIOUS
<1>4. \A k : (\E n \in DOMAIN todo' : k = todo'[n]) => Right(k)'
  BY <1>1, <1>3
<1>5. (\E k : todo' = <<k>>) \/ (\E k, l : todo' = <<k, l>>)
  OBVIOUS
<1> QED BY <1>2, <1>4, <1>5 DEF QueueInv

(* The inductive invariant.                                                 *)
CommandInv == WorkspaceInv /\ ExpansionInv /\ QueueInv /\ RunsInv

(* What is known when telekio decides.                                      *)
LEMMA InterpretedIs ==
  ASSUME Lawful, CommandInv, MembersOrNone, phase = "interpreted" PROVE Clear
<1>1. NoAlias
  BY DEF CommandInv, QueueInv
<1> QED BY <1>1, KnownIs DEF CommandInv, WorkspaceInv

(* Nothing is asked of the queue before that and after the end.             *)
LEMMA QueueAside ==
  ASSUME phase' \notin {"interpreted", "preparing", "ready"} PROVE QueueInv'
BY DEF QueueInv

(* What is said of the expansion, when it stands still.                     *)
LEMMA ExpansionKept ==
  ASSUME ExpansionInv, arguments' = arguments, expanded' = expanded, visited' = visited PROVE ExpansionInv'
BY DEF ExpansionInv, Chained, Bounded

(* A command without a patch.                                               *)
LEMMA UnpatchedStep ==
  ASSUME Lawful, CommandInv, MembersOrNone, PassThrough \/ InstallPackage \/ WithoutTokio PROVE QueueInv'
<1>1. phase = "interpreted" /\ workspace' = workspace /\ locked' = locked /\ phase' = "ready"
  BY DEF PassThrough, InstallPackage, WithoutTokio, Inspects, Run
<1>2. \E c : /\ c \in Patches \/ c = NoPatch
             /\ todo' = <<Job(arguments, c, {})>> /\ (Plain \/ NoManifest \/ ~uses_tokio(expanded))
  <2>1. "host" \in Patches
    BY DEF Patches
  <2> QED BY <2>1 DEF PassThrough, InstallPackage, WithoutTokio, Run
<1>3. PICK c : /\ c \in Patches \/ c = NoPatch
               /\ todo' = <<Job(arguments, c, {})>> /\ (Plain \/ NoManifest \/ ~uses_tokio(expanded))
  BY <1>2
<1>4. Built(CargoExpands(Given(Job(arguments, c, {})))) = {}
  BY <1>1, <1>3, InterpretedIs, UnpatchedJob
<1> QED BY <1>1, <1>3, <1>4, QueueOne

(* One command with a patch.                                                *)
LEMMA OneRoleStep ==
  ASSUME Lawful, CommandInv, MembersOrNone, OneRole PROVE QueueInv'
<1>1. phase = "interpreted" /\ workspace' = workspace /\ phase' = "preparing"
  BY DEF OneRole, Patched, Inspects, Run
<1>2. PICK r \in PackageRoles :
        /\ \A s \in PackageRoles : (Group(expanded, s) # <<>>) = (s = r)
        /\ todo' = <<Job(arguments, PatchOf(r, Mixed), ToSet(Group(expanded, r)))>>
  BY DEF OneRole, Run
<1> DEFINE job == Job(arguments, PatchOf(r, Mixed), ToSet(Group(expanded, r)))
<1>3. Clear
  BY <1>1, InterpretedIs
<1>4. RightConfig(CargoExpands(Given(job))) /\ Notices(job, CargoExpands(Given(job)))
  BY <1>2, <1>3, OneRoleJob
<1>5. Right(job)
  BY <1>4 DEF Right
<1>6. todo' = <<job>>
  BY <1>2
<1> HIDE DEF job
<1> QED BY <1>1, <1>5, <1>6, QueuePrepared

(* Two commands, each with its patch.                                       *)
LEMMA TwoRolesStep ==
  ASSUME Lawful, CommandInv, MembersOrNone, TwoRoles PROVE QueueInv'
<1>1. /\ phase = "interpreted" /\ workspace' = workspace /\ phase' = "preparing"
      /\ Host # <<>> /\ Guest # <<>> /\ (SelectsGroups \/ KeepsGroups)
      /\ todo' = <<GroupJob("Host", SelectsGroups), GroupJob("Guest", SelectsGroups)>>
  BY DEF TwoRoles, Patched, Inspects, Run
<1>2. Clear /\ MembersNamed
  BY <1>1, InterpretedIs DEF Lawful
<1>3. Group(expanded, "Host") # <<>> /\ Group(expanded, "Guest") # <<>>
  BY <1>1 DEF Host, Guest
<1>4. Mixed
  BY <1>2, <1>3, MixedIs DEF Clear
<1>5. ASSUME NEW r \in PackageRoles, SelectsGroups PROVE Right(GroupJob(r, TRUE))
  <2>1. Group(expanded, r) # <<>>
    BY <1>3 DEF PackageRoles
  <2> DEFINE job == GroupJob(r, TRUE)
  <2>2. RightConfig(CargoExpands(Given(job))) /\ Notices(job, CargoExpands(Given(job)))
    BY <1>2, <1>4, <1>5, <2>1, SelectingJob
  <2> QED BY <2>2 DEF Right
<1>6. ASSUME NEW r \in PackageRoles, ~SelectsGroups PROVE Right(GroupJob(r, FALSE))
  <2>1. KeepsGroups
    BY <1>1, <1>6
  <2> DEFINE job == GroupJob(r, FALSE)
  <2>2. Built(CargoExpands(Given(job))) = {}
    BY <1>2, <1>6, <2>1, KeepingJob
  <2> HIDE DEF job
  <2>3. Right(job)
    BY <2>2 DEF Right, RightConfig, Notices
  <2> QED BY <2>3 DEF job
<1>7. "Host" \in PackageRoles /\ "Guest" \in PackageRoles
  BY DEF PackageRoles
<1>8. CASE SelectsGroups
  <2>1. todo' = <<GroupJob("Host", TRUE), GroupJob("Guest", TRUE)>>
    BY <1>1, <1>8
  <2>2. Right(GroupJob("Host", TRUE)) /\ Right(GroupJob("Guest", TRUE))
    BY <1>5, <1>7, <1>8
  <2> QED BY <1>1, <2>1, <2>2, QueuePrepared
<1>9. CASE ~SelectsGroups
  <2>0. SelectsGroups = FALSE
    BY <1>9 DEF SelectsGroups
  <2>1. todo' = <<GroupJob("Host", FALSE), GroupJob("Guest", FALSE)>>
    BY <1>1, <2>0
  <2>2. Right(GroupJob("Host", FALSE)) /\ Right(GroupJob("Guest", FALSE))
    BY <1>6, <1>7, <1>9
  <2> QED BY <1>1, <2>1, <2>2, QueuePrepared
<1> QED BY <1>8, <1>9

(* The lockfile is settled for the command at the head of the queue.        *)
LEMMA PrepareStep ==
  ASSUME CommandInv, PrepareGraph PROVE QueueInv' /\ locked' \in {"patch", "another"}
<1>1. /\ phase = "preparing" /\ phase' = "ready" /\ workspace' = workspace /\ todo' = todo
      /\ locked' = IF Held(Head(todo)) THEN "patch" ELSE locked
  BY DEF PrepareGraph
<1>2. locked \in {"patch", "another"} /\ locked' \in {"patch", "another"}
  BY <1>1 DEF CommandInv, WorkspaceInv
<1>3. /\ (\E j : todo = <<j>>) \/ (\E i, j : todo = <<i, j>>)
      /\ \A j : (\E n \in DOMAIN todo : j = todo[n]) => Right(j)
  BY <1>1 DEF CommandInv, QueueInv
<1>4. 1 \in DOMAIN todo /\ Head(todo) = todo[1]
  BY <1>3
<1>5. Right(todo[1])
  BY <1>3, <1>4
<1>6. ASSUME NEW job, job = todo[1] PROVE Settled(job)'
  <2> DEFINE given == CargoExpands(Given(job))
  <2>1. RightConfig(given) /\ Notices(job, given)
    BY <1>5, <1>6 DEF Right
  <2>2. ASSUME NEW p \in Built(given) PROVE locked' = "patch"
    <3>1. /\ operation(job.interpreted) # "update"
          /\ Tokio \in reachable_packages(Dependencies(metadata_options(job.interpreted)), job.packages)
      BY <2>1 DEF Notices
    <3>2. origin = "crates.io"
      BY DEF Built
    <3>3. Held(job) \/ locked = "patch"
      BY <1>2, <3>1, <3>2 DEF Held
    <3> QED BY <1>1, <1>4, <1>6, <3>3
  <2> HIDE DEF given
  <2>3. RightConfig(given)' /\ Built(given)' = Built(given)
    BY <1>1, <2>1, Frozen
  <2>4. RightConfig(given)' /\ (Built(given)' # {} => locked' = "patch")
    BY <2>2, <2>3
  <2> QED BY <2>4 DEF Settled, given
<1>7. \A j : (\E n \in DOMAIN todo' : j = todo'[n]) => Right(j)'
  BY <1>1, <1>3, FrozenJobs
<1>8. \A j : j = todo'[1] => Settled(j)'
  BY <1>1, <1>6
<1>9. (\E j : todo' = <<j>>) \/ (\E i, j : todo' = <<i, j>>)
  BY <1>1, <1>3
<1> QED BY <1>1, <1>2, <1>7, <1>8, <1>9 DEF QueueInv

(* The command at the head of the queue runs, and the next is prepared.     *)
LEMMA RunStep ==
  ASSUME CommandInv, NEW succeeded \in BOOLEAN, RunCargo(succeeded) PROVE QueueInv' /\ RunsInv'
<1>1. /\ phase = "ready" /\ workspace' = workspace /\ locked' = locked /\ todo' = Tail(todo)
      /\ runs' = Append(runs, [arguments |-> Given(Head(todo)), locked |-> locked, succeeded |-> succeeded])
      /\ phase' = "exited" \/ (Tail(todo) # <<>> /\ phase' = "preparing")
  BY DEF RunCargo, Exit
<1>2. /\ (\E j : todo = <<j>>) \/ (\E i, j : todo = <<i, j>>)
      /\ \A j : j = todo[1] => Settled(j)
      /\ \A j : (\E n \in DOMAIN todo : n # 1 /\ j = todo[n]) => Right(j)
  BY <1>1 DEF CommandInv, QueueInv
<1>3. Head(todo) = todo[1]
  BY <1>2
<1>4. RunsInv'
  <2>1. Settled(Head(todo)) /\ locked \in {"patch", "another"} /\ RunsInv
    BY <1>2, <1>3 DEF CommandInv, WorkspaceInv
  <2> QED BY <1>1, <2>1, RunsMore
<1>5. CASE phase' = "exited"
  <2>1. QueueInv'
    BY <1>5, QueueAside
  <2> QED BY <1>4, <2>1
<1>6. CASE Tail(todo) # <<>> /\ phase' = "preparing"
  <2>0. \A i : todo = <<i>> => Tail(todo) = <<>>
    OBVIOUS
  <2>1. PICK i, j : todo = <<i, j>>
    BY <1>2, <1>6, <2>0
  <2>2. 2 \in DOMAIN todo /\ todo[2] = j
    BY <2>1
  <2>3. Right(j)
    BY <1>2, <2>2
  <2>4. todo' = <<j>>
    BY <1>1, <2>1
  <2>5. QueueInv'
    BY <1>1, <1>6, <2>3, <2>4, QueuePrepared
  <2> QED BY <1>4, <2>5
<1> QED BY <1>1, <1>5, <1>6

(* The invariant holds at first,                                            *)
LEMMA CommandInvInit ==
  ASSUME Lawful, CommandInit PROVE CommandInv
<1>1. WorkspaceInv
  BY DEF CommandInit, WorkspaceInv
<1>2. ExpansionInv
  BY ExpansionInit
<1>3. phase \notin {"interpreted", "preparing", "ready"} /\ runs = <<>>
  BY DEF CommandInit
<1>4. QueueInv
  BY <1>3 DEF QueueInv
<1>5. RunsInv
  <2>1. runs \in Seq({})
    BY <1>3
  <2>2. DOMAIN runs = {}
    BY <1>3
  <2> QED BY <2>1, <2>2 DEF RunsInv
<1> QED BY <1>1, <1>2, <1>4, <1>5 DEF CommandInv

(* An action that leaves the queue and the runs alone.                      *)
LEMMA AsideStep ==
  ASSUME CommandInv, RefuseAlias \/ AskingFails \/ RefuseRoles \/ Interpret \/ ExpandAlias
  PROVE  QueueInv' /\ runs' = runs /\ locked' = locked /\ workspace' = workspace
<1>1. runs' = runs /\ locked' = locked /\ workspace' = workspace
  BY DEF RefuseAlias, AskingFails, RefuseRoles, Interpret, ExpandAlias
<1>2. ASSUME RefuseAlias \/ AskingFails \/ RefuseRoles PROVE QueueInv'
  <2>1. phase' = "exited"
    BY <1>2 DEF RefuseAlias, AskingFails, RefuseRoles, Exit
  <2> QED BY <2>1, QueueAside
<1>3. ASSUME ExpandAlias PROVE QueueInv'
  <2>1. phase' = "expanding"
    BY <1>3 DEF ExpandAlias
  <2> QED BY <2>1, QueueAside
<1>4. ASSUME Interpret PROVE QueueInv'
  <2>1. phase' = "interpreted" /\ expanded' = expanded /\ NextAlias(expanded) = ""
    BY <1>4 DEF Interpret
  <2>2. NoAlias'
    BY <2>1 DEF NoAlias
  <2> QED BY <2>1, <2>2 DEF QueueInv
<1> QED BY <1>1, <1>2, <1>3, <1>4

(* and every step keeps it.                                                 *)
LEMMA CommandInvStep ==
  ASSUME Lawful, CommandInv, MembersOrNone, [CommandNext]_commandVars PROVE CommandInv'
<1>0. WorkspaceInv /\ ExpansionInv /\ QueueInv /\ RunsInv
  BY DEF CommandInv
<1>1. ASSUME workspace' = workspace, locked' = locked PROVE WorkspaceInv'
  BY <1>0, <1>1 DEF WorkspaceInv, workspace
<1>2. ASSUME workspace' = workspace, runs' = runs PROVE RunsInv'
  BY <1>0, <1>2, RunsKept
<1>3. ASSUME workspace' = workspace, expanded' = expanded, visited' = visited PROVE ExpansionInv'
  <2>1. arguments' = arguments
    BY <1>3 DEF workspace
  <2> QED BY <1>0, <1>3, <2>1, ExpansionKept
<1>4. ASSUME ExpandAlias PROVE CommandInv'
  <2>1. QueueInv' /\ runs' = runs /\ locked' = locked /\ workspace' = workspace
    BY <1>4, AsideStep
  <2>2. ExpansionInv'
    BY <1>0, <1>4, ExpansionStep
  <2> QED BY <1>1, <1>2, <2>1, <2>2 DEF CommandInv
<1>5. ASSUME RefuseAlias \/ AskingFails \/ RefuseRoles \/ Interpret PROVE CommandInv'
  <2>1. QueueInv' /\ runs' = runs /\ locked' = locked /\ workspace' = workspace
    BY <1>5, AsideStep
  <2>2. expanded' = expanded /\ visited' = visited
    BY <1>5 DEF RefuseAlias, AskingFails, RefuseRoles, Interpret
  <2> QED BY <1>1, <1>2, <1>3, <2>1, <2>2 DEF CommandInv
<1>6. ASSUME PassThrough \/ InstallPackage \/ WithoutTokio \/ OneRole \/ TwoRoles PROVE CommandInv'
  <2>1. QueueInv'
    BY <1>6, UnpatchedStep, OneRoleStep, TwoRolesStep
  <2>2. /\ runs' = runs /\ locked' = locked /\ workspace' = workspace
        /\ expanded' = expanded /\ visited' = visited
    BY <1>6 DEF PassThrough, InstallPackage, WithoutTokio, OneRole, TwoRoles, Run
  <2> QED BY <1>1, <1>2, <1>3, <2>1, <2>2 DEF CommandInv
<1>7. ASSUME PrepareGraph PROVE CommandInv'
  <2>1. QueueInv' /\ locked' \in {"patch", "another"}
    BY <1>7, PrepareStep
  <2>2. runs' = runs /\ workspace' = workspace /\ expanded' = expanded /\ visited' = visited
    BY <1>7 DEF PrepareGraph
  <2>3. WorkspaceInv'
    BY <1>0, <2>1, <2>2 DEF WorkspaceInv, workspace
  <2> QED BY <1>2, <1>3, <2>1, <2>2, <2>3 DEF CommandInv
<1>8. ASSUME NEW succeeded \in BOOLEAN, RunCargo(succeeded) PROVE CommandInv'
  <2>1. QueueInv' /\ RunsInv'
    BY <1>8, RunStep
  <2>2. locked' = locked /\ workspace' = workspace /\ expanded' = expanded /\ visited' = visited
    BY <1>8 DEF RunCargo
  <2> QED BY <1>1, <1>3, <2>1, <2>2 DEF CommandInv
<1>9. ASSUME UNCHANGED commandVars PROVE CommandInv'
  <2>1. /\ workspace' = workspace /\ locked' = locked /\ phase' = phase /\ expanded' = expanded
        /\ visited' = visited /\ todo' = todo /\ runs' = runs
    BY <1>9 DEF commandVars
  <2>2. QueueInv'
    <3>1. \A j : Right(j) => Right(j)'
      BY <2>1, FrozenJobs
    <3>2. \A j : Settled(j) => Settled(j)'
      BY <2>1, FrozenJobs
    <3>3. NoAlias' <=> NoAlias
      BY <2>1 DEF NoAlias
    <3> QED BY <1>0, <2>1, <3>1, <3>2, <3>3 DEF QueueInv
  <2> QED BY <1>1, <1>2, <1>3, <2>1, <2>2 DEF CommandInv
<1>10. CASE CommandNext
  BY <1>4, <1>5, <1>6, <1>7, <1>8, <1>10 DEF CommandNext
<1> QED BY <1>9, <1>10

(* What is assumed of the arguments and the aliases is what the lemmas ask.  *)
LEMMA LawfulIs == Lawful
<1>1. TargetsFit
  BY ArgumentAssumption DEF TargetsFit
<1>2. MembersNamed
  BY ArgumentAssumption DEF MembersNamed, NonEmpty
<1> QED BY <1>1, <1>2, ArgumentAssumption DEF Lawful

(* The inductive invariant holds: the workspace stays as it was, the aliases  *)
(* are expanded as Cargo expands them, and what waits and what ran is right.  *)
THEOREM CommandInvariant == CommandSpec /\ []MembersOrNone => []CommandInv
<1>1. CommandInit => CommandInv
  BY LawfulIs, CommandInvInit
<1>2. CommandInv /\ MembersOrNone /\ [CommandNext]_commandVars => CommandInv'
  BY LawfulIs, CommandInvStep
<1> QED BY <1>1, <1>2, PTL DEF CommandSpec

(* Every package of the workspace that one of the Cargo commands builds and  *)
(* that uses Tokio gets the generated Tokio of its own role: for any          *)
(* workspace, any aliases and any regular arguments, as long as -p names      *)
(* packages of the workspace or none of them (project.rs:224-241).          *)
THEOREM CommandServes == CommandSpec /\ []MembersOrNone => []EveryTokioIsItsRoles
<1>1. CommandInv => EveryTokioIsItsRoles
  BY RunsServe DEF CommandInv
<1> QED BY <1>1, CommandInvariant, PTL

(* telekio has expanded as many aliases of its arguments as it has visited,  *)
(* and goes on while there is one.                                          *)
Alike ==
  /\ ExpansionInv /\ Expands(arguments, Cardinality(visited), expanded)
  /\ phase = "interpreted" => NoAlias

(* At first it has expanded none.                                           *)
LEMMA AlikeInit ==
  ASSUME CommandInit PROVE Alike
<1>1. ExpansionInv
  BY LawfulIs, ExpansionInit
<1>2. Expands(arguments, 0, arguments)
  BY ExpandsNone
<1>3. expanded = arguments /\ Cardinality(visited) = 0 /\ phase # "interpreted"
  BY FS_EmptySet DEF CommandInit
<1> QED BY <1>1, <1>2, <1>3 DEF Alike

(* Only ExpandAlias goes on, and by one.                                    *)
LEMMA AlikeStep ==
  ASSUME Alike, [CommandNext]_commandVars PROVE Alike'
<1>1. CASE ExpandAlias
  <2>1. ExpansionInv'
    BY <1>1, LawfulIs, ExpansionStep DEF Alike
  <2>2. /\ visited' = visited \cup {NextAlias(expanded)} /\ NextAlias(expanded) \notin visited
        /\ expanded' = Expand(expanded) /\ arguments' = arguments /\ phase' = "expanding"
    BY <1>1 DEF ExpandAlias, Refused, Recursive, Expand, workspace
  <2>3. IsFiniteSet(visited)
    BY DEF Alike, ExpansionInv, Bounded
  <2>4. Cardinality(visited) \in Nat /\ Cardinality(visited') = Cardinality(visited) + 1
    BY <2>2, <2>3, FS_AddElement, FS_CardinalityType
  <2>5. Expands(arguments, Cardinality(visited) + 1, Expand(expanded))
    BY <2>4, ExpandsMore DEF Alike
  <2> QED BY <2>1, <2>2, <2>4, <2>5 DEF Alike
<1>2. CASE ~ExpandAlias
  <2>1. /\ arguments' = arguments /\ expanded' = expanded /\ visited' = visited
        /\ phase' = "interpreted" => phase = "interpreted" \/ NoAlias
    <3>1. ASSUME RefuseAlias \/ AskingFails \/ RefuseRoles \/ Interpret PROVE <2>1!:
      BY <3>1 DEF RefuseAlias, AskingFails, RefuseRoles, Interpret, Exit, NoAlias, workspace
    <3>2. ASSUME PassThrough \/ InstallPackage \/ WithoutTokio PROVE <2>1!:
      BY <3>2 DEF PassThrough, InstallPackage, WithoutTokio, Run, workspace
    <3>3. ASSUME OneRole \/ TwoRoles PROVE <2>1!:
      BY <3>3 DEF OneRole, TwoRoles, Run, workspace
    <3>4. ASSUME PrepareGraph \/ \E succeeded \in BOOLEAN : RunCargo(succeeded) PROVE <2>1!:
      BY <3>4 DEF PrepareGraph, RunCargo, Exit, workspace
    <3>5. ASSUME UNCHANGED commandVars PROVE <2>1!:
      BY <3>5 DEF commandVars, workspace
    <3> QED BY <1>2, <3>1, <3>2, <3>3, <3>4, <3>5 DEF CommandNext
  <2>2. ExpansionInv'
    BY <2>1, ExpansionKept DEF Alike
  <2>3. NoAlias' <=> NoAlias
    BY <2>1 DEF NoAlias
  <2> QED BY <2>1, <2>2, <2>3 DEF Alike
<1> QED BY <1>1, <1>2

(* When telekio reads the command it has expanded the aliases as Cargo will. *)
LEMMA AlikeExpands ==
  ASSUME Alike, phase = "interpreted" PROVE CargoExpands(arguments) = expanded
<1>1. Expand(expanded) = expanded
  BY DEF Alike, NoAlias, Expand
<1>2. Bounded /\ Lawful
  BY LawfulIs DEF Alike, ExpansionInv
<1>3. Cardinality(visited) \in Nat /\ Cardinality(visited) <= Cardinality(AliasNames) + 1
  BY <1>2, BoundedIs
<1>4. IsFiniteSet(AliasNames) /\ Expands(arguments, Cardinality(visited), expanded)
  BY <1>2 DEF Lawful, Alike
<1> QED BY <1>1, <1>3, <1>4, CargoExpandsIs

(* What telekio decides on is what Cargo will make of the user's arguments:  *)
(* the same aliases expanded, to the same arguments.                        *)
THEOREM CargoAgrees ==
  CommandSpec => [](phase = "interpreted" => CargoExpands(arguments) = expanded)
<1>1. CommandInit => Alike
  BY AlikeInit
<1>2. Alike /\ [CommandNext]_commandVars => Alike'
  BY AlikeStep
<1>3. Alike => (phase = "interpreted" => CargoExpands(arguments) = expanded)
  BY AlikeExpands
<1> QED BY <1>1, <1>2, <1>3, PTL DEF CommandSpec

-----------------------------------------------------------------------------
(* What the commands leave of the arguments that they do not rewrite: the    *)
(* user's other arguments are the same in each, in the same order.            *)

(* Two lists of what s has at the same places, in the same order, agree as    *)
(* far as both go, and neither ends before the other.                       *)
LEMMA PicksAgree ==
  ASSUME NEW s, NEW P, P \subseteq Nat, NEW u, NEW w, Len(u) \in Nat, Len(w) \in Nat,
         NEW h, Picks(h, s, P, u), NEW g, Picks(g, s, P, w)
  PROVE  \A k \in 1 .. Len(u) : k \in 1 .. Len(w) /\ h[k] = g[k]
<1> DEFINE Bad == {k \in 1 .. Len(u) : ~(k \in 1 .. Len(w) /\ h[k] = g[k])}
<1>1. ASSUME NEW k \in Bad, \A n \in Bad : k <= n PROVE FALSE
  <2>1. k \in 1 .. Len(u) /\ h[k] \in P /\ h[k] \in Nat
    BY DEF Picks
  <2>2. PICK j \in 1 .. Len(w) : g[j] = h[k]
    BY <2>1 DEF Picks
  <2>3. ASSUME NEW i \in 1 .. Len(u), i < k PROVE i \in 1 .. Len(w) /\ h[i] = g[i]
    <3>1. ~(k <= i)
      BY <2>1, <2>3
    <3> QED BY <3>1, <1>1
  <2>4. ~(j < k)
    <3> SUFFICES ASSUME j < k PROVE FALSE
      OBVIOUS
    <3>1. j \in 1 .. Len(u)
      BY <2>1
    <3>2. h[j] = g[j] /\ h[j] < h[k]
      BY <3>1, <2>1, <2>3 DEF Picks
    <3> QED BY <3>2, <2>1, <2>2
  <2>5. k \in 1 .. Len(w)
    BY <2>1, <2>4
  <2>6. g[k] \in P /\ g[k] \in Nat /\ (k < j => g[k] < g[j])
    BY <2>5 DEF Picks
  <2>7. PICK i \in 1 .. Len(u) : h[i] = g[k]
    BY <2>6 DEF Picks
  <2>8. ~(i < k)
    <3> SUFFICES ASSUME i < k PROVE FALSE
      OBVIOUS
    <3>1. h[i] = g[i] /\ i \in 1 .. Len(w)
      BY <2>3
    <3>2. g[i] < g[k]
      BY <3>1, <2>5 DEF Picks
    <3> QED BY <3>1, <3>2, <2>6, <2>7
  <2>9. k < i => h[k] < h[i]
    BY <2>1 DEF Picks
  <2>10. k = j \/ k < j
    BY <2>1, <2>4
  <2>11. k = i \/ k < i
    BY <2>1, <2>8
  <2>12. h[k] # g[k]
    BY <2>5
  <2>13. k # j /\ k # i
    BY <2>12, <2>2, <2>7
  <2>14. g[k] < h[k]
    BY <2>6, <2>10, <2>13, <2>2
  <2>15. h[k] < g[k]
    BY <2>9, <2>11, <2>13, <2>7
  <2> QED BY <2>14, <2>15, <2>1, <2>6
<1>2. Bad = {}
  <2>1. Bad \subseteq Nat
    OBVIOUS
  <2> HIDE DEF Bad
  <2> QED BY <1>1, <2>1, Least
<1> QED BY <1>2

(* So there is one list only.                                               *)
LEMMA PicksUnique ==
  ASSUME NEW S, NEW s, NEW P, P \subseteq Nat, NEW u \in Seq(S), NEW w \in Seq(S),
         NEW h, Picks(h, s, P, u), NEW g, Picks(g, s, P, w)
  PROVE  u = w
<1>0. Len(u) \in Nat /\ Len(w) \in Nat
  OBVIOUS
<1>1. \A k \in 1 .. Len(u) : k \in 1 .. Len(w) /\ h[k] = g[k]
  BY <1>0, PicksAgree
<1>2. \A k \in 1 .. Len(w) : k \in 1 .. Len(u)
  BY <1>0, PicksAgree
<1>3. Len(u) = Len(w)
  <2>1. ~(Len(u) < Len(w))
    <3> SUFFICES ASSUME Len(u) < Len(w) PROVE FALSE
      OBVIOUS
    <3>1. Len(w) \in 1 .. Len(w) /\ Len(w) \notin 1 .. Len(u)
      BY <1>0
    <3> QED BY <3>1, <1>2
  <2>2. ~(Len(w) < Len(u))
    <3> SUFFICES ASSUME Len(w) < Len(u) PROVE FALSE
      OBVIOUS
    <3>1. Len(u) \in 1 .. Len(u) /\ Len(u) \notin 1 .. Len(w)
      BY <1>0
    <3> QED BY <3>1, <1>1
  <2> QED BY <2>1, <2>2, <1>0
<1>4. \A k \in 1 .. Len(u) : u[k] = w[k]
  <2> TAKE k \in 1 .. Len(u)
  <2>1. u[k] = s[h[k]] /\ w[k] = s[g[k]]
    BY <1>1 DEF Picks
  <2> QED BY <2>1, <1>1
<1> QED BY <1>3, <1>4

(* What At takes is known from any way to take it.                          *)
LEMMA AtUnique ==
  ASSUME NEW S, NEW s \in Seq(S), NEW P, P \subseteq DOMAIN s, NEW u \in Seq(S), NEW h, Picks(h, s, P, u)
  PROVE  At(s, P) = u
<1>1. P \subseteq Nat
  OBVIOUS
<1>2. At(s, P) \in Seq(S) /\ \E g : Picks(g, s, P, At(s, P))
  BY AtIs
<1>3. PICK g : Picks(g, s, P, At(s, P))
  BY <1>2
<1> DEFINE w == At(s, P)
<1> HIDE DEF w
<1>4. w \in Seq(S) /\ Picks(g, s, P, w)
  BY <1>2, <1>3 DEF w
<1>5. w = u
  BY <1>1, <1>4, PicksUnique
<1> QED BY <1>5 DEF w

(* Everything, and nothing.                                                 *)
LEMMA AtAll ==
  ASSUME NEW S, NEW s \in Seq(S)
  PROVE  At(s, DOMAIN s) = s /\ At(s, {}) = <<>>
<1> DEFINE h == [i \in 1 .. Len(s) |-> i]
           g == [i \in 1 .. Len(<<>>) |-> i]
<1>1. Picks(h, s, DOMAIN s, s)
  BY DEF Picks
<1>2. Picks(g, s, {}, <<>>)
  BY DEF Picks
<1>3. <<>> \in Seq(S)
  OBVIOUS
<1> HIDE DEF h, g
<1> QED BY <1>1, <1>2, <1>3, AtUnique

(* R is what h finds at Q.                                                  *)
Found(R, h, Q) == \A i : i \in R <=> \E k \in Q : i = h[k]
TakenAt(s, P, h, Q, R) ==
  P \subseteq DOMAIN s /\ Picks(h, s, P, At(s, P)) /\ Q \subseteq 1 .. Len(At(s, P)) /\ Found(R, h, Q)

(* What is taken of what was taken.                                         *)
LEMMA AtOfAt ==
  ASSUME NEW S, NEW s \in Seq(S), NEW P, NEW h, NEW Q, NEW R, TakenAt(s, P, h, Q, R)
  PROVE  At(At(s, P), Q) = At(s, R)
<1> DEFINE u == At(s, P)
<1>15. /\ P \subseteq DOMAIN s /\ Picks(h, s, P, At(s, P)) /\ Q \subseteq 1 .. Len(At(s, P))
       /\ \A i : i \in R <=> \E k \in Q : i = h[k]
  BY DEF TakenAt, Found
<1>0. \A i : i \in R <=> \E k \in Q : i = h[k]
  BY <1>15
<1>1. u \in Seq(S)
  BY <1>15, AtIs
<1>2. Len(u) \in Nat /\ DOMAIN u = 1 .. Len(u) /\ Picks(h, s, P, u) /\ Q \subseteq 1 .. Len(u)
  <2>1. Picks(h, s, P, u) /\ Q \subseteq 1 .. Len(u)
    BY <1>15
  <2> HIDE DEF u
  <2> QED BY <1>1, <2>1
<1> HIDE DEF u
<1>3. At(u, Q) \in Seq(S) /\ \E g : Picks(g, u, Q, At(u, Q))
  BY <1>1, <1>2, AtIs
<1> DEFINE w == At(u, Q)
<1>4. PICK g : Picks(g, u, Q, w)
  BY <1>3
<1>5. w \in Seq(S) /\ Len(w) \in Nat
  BY <1>3
<1> HIDE DEF w
<1> DEFINE f == [k \in 1 .. Len(w) |-> h[g[k]]]
<1>6. \A k \in 1 .. Len(w) : g[k] \in Q /\ g[k] \in 1 .. Len(u)
  BY <1>2, <1>4 DEF Picks
<1>7. f \in [1 .. Len(w) -> R]
  <2>1. \A k \in 1 .. Len(w) : h[g[k]] \in R
    BY <1>0, <1>6
  <2> QED BY <2>1
<1>8. \A j, k \in 1 .. Len(w) : j < k => f[j] < f[k]
  <2> SUFFICES ASSUME NEW j \in 1 .. Len(w), NEW k \in 1 .. Len(w), j < k PROVE f[j] < f[k]
    OBVIOUS
  <2>1. g[j] < g[k]
    BY <1>4 DEF Picks
  <2>2. h[g[j]] < h[g[k]]
    BY <2>1, <1>6, <1>2 DEF Picks
  <2> QED BY <2>2
<1>9. \A i \in R : \E k \in 1 .. Len(w) : f[k] = i
  <2> SUFFICES ASSUME NEW i \in R PROVE \E k \in 1 .. Len(w) : f[k] = i
    OBVIOUS
  <2>1. PICK m \in Q : i = h[m]
    BY <1>0
  <2>2. PICK k \in 1 .. Len(w) : g[k] = m
    BY <1>4 DEF Picks
  <2> QED BY <2>1, <2>2
<1>10. \A k \in 1 .. Len(w) : w[k] = s[f[k]]
  <2> TAKE k \in 1 .. Len(w)
  <2>1. w[k] = u[g[k]]
    BY <1>4 DEF Picks
  <2>2. u[g[k]] = s[h[g[k]]]
    BY <1>2, <1>6 DEF Picks
  <2> QED BY <2>1, <2>2
<1> HIDE DEF f
<1>11. Picks(f, s, R, w)
  BY <1>7, <1>8, <1>9, <1>10 DEF Picks
<1>12. R \subseteq DOMAIN s
  <2>1. \A k \in Q : h[k] \in P
    BY <1>2 DEF Picks
  <2> QED BY <2>1, <1>0, <1>15
<1>13. At(s, R) = w
  BY <1>5, <1>11, <1>12, AtUnique
<1> QED BY <1>13 DEF w, u

(* What is taken at some places followed by what is taken at later ones.    *)
LEMMA PicksJoin ==
  ASSUME NEW S, NEW s, NEW P, P \subseteq Nat, NEW Q, Q \subseteq Nat, \A i \in P : \A j \in Q : i < j,
         NEW u \in Seq(S), NEW w \in Seq(S), NEW h, Picks(h, s, P, u), NEW g, Picks(g, s, Q, w)
  PROVE  \E f : Picks(f, s, P \cup Q, u \o w)
<1> DEFINE n == Len(u)
           m == Len(w)
           x == u \o w
           f == [k \in 1 .. Len(x) |-> IF k \in 1 .. n THEN h[k] ELSE g[k - n]]
<1>0. n \in Nat /\ m \in Nat /\ Len(x) = n + m /\ x \in Seq(S)
  OBVIOUS
<1>1. /\ \A k \in 1 .. n : h[k] \in P /\ h[k] \in Nat /\ u[k] = s[h[k]] /\ x[k] = u[k]
      /\ \A k \in 1 .. m : g[k] \in Q /\ g[k] \in Nat /\ w[k] = s[g[k]]
      /\ \A j, k \in 1 .. n : j < k => h[j] < h[k]
      /\ \A j, k \in 1 .. m : j < k => g[j] < g[k]
  <2>1. \A k \in 1 .. n : x[k] = u[k]
    OBVIOUS
  <2> HIDE DEF x
  <2> QED BY <2>1 DEF Picks
<1>2. \A k \in 1 .. (n + m) : k \notin 1 .. n => k - n \in 1 .. m /\ x[k] = w[k - n]
  OBVIOUS
<1>3. \A k \in 1 .. (n + m) : f[k] = IF k \in 1 .. n THEN h[k] ELSE g[k - n]
  <2> HIDE DEF x
  <2> QED BY <1>0
<1>4. f = [k \in 1 .. (n + m) |-> f[k]]
  <2> HIDE DEF x
  <2> QED BY <1>0
<1> HIDE DEF f, x, n, m
<1>5. \A k \in 1 .. (n + m) : f[k] \in P \cup Q /\ x[k] = s[f[k]]
  <2> TAKE k \in 1 .. (n + m)
  <2>1. CASE k \in 1 .. n
    BY <2>1, <1>1, <1>3
  <2>2. CASE k \notin 1 .. n
    <3>1. k - n \in 1 .. m /\ x[k] = w[k - n] /\ f[k] = g[k - n]
      BY <2>2, <1>2, <1>3
    <3> QED BY <3>1, <1>1
  <2> QED BY <2>1, <2>2
<1>6. \A j, k \in 1 .. (n + m) : j < k => f[j] < f[k]
  <2> SUFFICES ASSUME NEW j \in 1 .. (n + m), NEW k \in 1 .. (n + m), j < k PROVE f[j] < f[k]
    OBVIOUS
  <2>1. CASE k \in 1 .. n
    <3>1. j \in 1 .. n
      BY <2>1, <1>0
    <3> QED BY <3>1, <2>1, <1>1, <1>3
  <2>2. CASE k \notin 1 .. n /\ j \in 1 .. n
    <3>1. k - n \in 1 .. m /\ f[k] = g[k - n] /\ f[j] = h[j]
      BY <2>2, <1>2, <1>3
    <3> QED BY <3>1, <2>2, <1>1
  <2>3. CASE k \notin 1 .. n /\ j \notin 1 .. n
    <3>1. k - n \in 1 .. m /\ f[k] = g[k - n] /\ j - n \in 1 .. m /\ f[j] = g[j - n]
      BY <2>3, <1>2, <1>3
    <3>2. j - n < k - n
      BY <1>0
    <3> QED BY <3>1, <3>2, <1>1
  <2> QED BY <2>1, <2>2, <2>3
<1>7. \A i \in P \cup Q : \E k \in 1 .. (n + m) : f[k] = i
  <2> SUFFICES ASSUME NEW i \in P \cup Q PROVE \E k \in 1 .. (n + m) : f[k] = i
    OBVIOUS
  <2>1. CASE i \in P
    <3>1. PICK k \in 1 .. n : h[k] = i
      BY <2>1 DEF Picks, n
    <3>2. k \in 1 .. (n + m)
      BY <1>0
    <3> QED BY <3>1, <3>2, <1>3
  <2>2. CASE i \in Q
    <3>1. PICK k \in 1 .. m : g[k] = i
      BY <2>2 DEF Picks, m
    <3>2. n + k \in 1 .. (n + m) /\ n + k \notin 1 .. n /\ (n + k) - n = k
      BY <1>0
    <3> QED BY <3>1, <3>2, <1>3
  <2> QED BY <2>1, <2>2
<1>8. f \in [1 .. (n + m) -> P \cup Q]
  BY <1>4, <1>5
<1>9. Picks(f, s, P \cup Q, x)
  BY <1>0, <1>5, <1>6, <1>7, <1>8 DEF Picks
<1> QED BY <1>9 DEF x

(* So what is taken from one list can be taken in two parts,                *)
LEMMA AtSplit ==
  ASSUME NEW S, NEW s \in Seq(S), NEW P, P \subseteq DOMAIN s, NEW Q, Q \subseteq DOMAIN s,
         \A i \in P : \A j \in Q : i < j
  PROVE  At(s, P \cup Q) = At(s, P) \o At(s, Q)
<1> DEFINE u == At(s, P)
           w == At(s, Q)
<1>1. u \in Seq(S) /\ w \in Seq(S) /\ (\E h : Picks(h, s, P, u)) /\ (\E g : Picks(g, s, Q, w))
  BY AtIs
<1> HIDE DEF u, w
<1>2. P \subseteq Nat /\ Q \subseteq Nat
  OBVIOUS
<1>3. PICK h, g : Picks(h, s, P, u) /\ Picks(g, s, Q, w)
  BY <1>1
<1>4. \E f : Picks(f, s, P \cup Q, u \o w)
  BY <1>1, <1>2, <1>3, PicksJoin
<1>5. u \o w \in Seq(S)
  BY <1>1
<1> DEFINE x == u \o w
<1> HIDE DEF x
<1>6. At(s, P \cup Q) = x
  BY <1>4, <1>5, AtUnique DEF x
<1> QED BY <1>6 DEF x, u, w

(* R is P in a list, and Q in the list behind its first n arguments.        *)
Behind(R, P, Q, n) == \A i : i \in R <=> i \in P \/ \E k \in Q : i = n + k

(* and what is taken from two lists is taken from one after the other.      *)
LEMMA AtConcat ==
  ASSUME NEW S, NEW u \in Seq(S), NEW v \in Seq(S), NEW P, P \subseteq DOMAIN u, NEW Q, Q \subseteq DOMAIN v,
         NEW R, Behind(R, P, Q, Len(u))
  PROVE  At(u \o v, R) = At(u, P) \o At(v, Q)
<1> DEFINE n == Len(u)
           x == u \o v
           a == At(u, P)
           b == At(v, Q)
           T == {n + k : k \in Q}
<1>0. /\ n \in Nat /\ Len(v) \in Nat /\ x \in Seq(S) /\ Len(x) = n + Len(v)
      /\ \A k \in 1 .. n : x[k] = u[k]
      /\ \A k \in 1 .. Len(v) : x[n + k] = v[k]
      /\ P \subseteq 1 .. n /\ Q \subseteq 1 .. Len(v)
  OBVIOUS
<1>1. a \in Seq(S) /\ b \in Seq(S) /\ (\E h : Picks(h, u, P, a)) /\ (\E g : Picks(g, v, Q, b))
  BY AtIs
<1>9. R = P \cup T
  BY DEF Behind
<1> HIDE DEF a, b, n, x
<1>2. PICK h, g : Picks(h, u, P, a) /\ Picks(g, v, Q, b)
  BY <1>1
<1>3. Picks(h, x, P, a)
  <2>1. \A k \in 1 .. Len(a) : h[k] \in P /\ a[k] = u[h[k]]
    BY <1>2 DEF Picks
  <2>2. \A k \in 1 .. Len(a) : a[k] = x[h[k]]
    BY <2>1, <1>0
  <2> QED BY <1>2, <2>2 DEF Picks
<1> DEFINE f == [k \in 1 .. Len(b) |-> n + g[k]]
<1>4. Picks(f, x, T, b)
  <2>1. \A k \in 1 .. Len(b) : g[k] \in Q /\ b[k] = v[g[k]] /\ g[k] \in Nat
    BY <1>0, <1>2 DEF Picks
  <2>2. \A k \in 1 .. Len(b) : f[k] \in T /\ b[k] = x[f[k]]
    BY <2>1, <1>0
  <2>3. f \in [1 .. Len(b) -> T]
    BY <2>2
  <2>4. \A j, k \in 1 .. Len(b) : j < k => f[j] < f[k]
    <3> SUFFICES ASSUME NEW j \in 1 .. Len(b), NEW k \in 1 .. Len(b), j < k PROVE f[j] < f[k]
      OBVIOUS
    <3>1. g[j] < g[k] /\ g[j] \in Nat /\ g[k] \in Nat
      BY <2>1, <1>2 DEF Picks
    <3> QED BY <3>1, <1>0
  <2>5. \A i \in T : \E k \in 1 .. Len(b) : f[k] = i
    <3> SUFFICES ASSUME NEW i \in Q PROVE \E k \in 1 .. Len(b) : f[k] = n + i
      OBVIOUS
    <3>1. PICK k \in 1 .. Len(b) : g[k] = i
      BY <1>2 DEF Picks
    <3> QED BY <3>1
  <2> HIDE DEF f, T
  <2> QED BY <2>2, <2>3, <2>4, <2>5 DEF Picks
<1>5. P \subseteq Nat /\ T \subseteq Nat /\ \A i \in P : \A j \in T : i < j
  BY <1>0
<1>6. P \cup T \subseteq DOMAIN x
  <2>1. DOMAIN x = 1 .. n + Len(v)
    BY <1>0
  <2> QED BY <2>1, <1>0
<1> HIDE DEF f, T
<1>7. \E e : Picks(e, x, P \cup T, a \o b)
  BY <1>1, <1>3, <1>4, <1>5, PicksJoin
<1>8. a \o b \in Seq(S)
  BY <1>1
<1> DEFINE ab == a \o b
<1> HIDE DEF ab
<1>10. At(x, R) = ab
  BY <1>0, <1>6, <1>7, <1>8, <1>9, AtUnique DEF ab
<1> QED BY <1>10 DEF ab, a, b, x

(* Whose an argument before "--" is: an option's value is the option's.     *)
Owned(s, i) == i # 1 /\ Takes(CargoTakes, s[i - 1])
Owner(s, i) == IF Owned(s, i) THEN s[i - 1].name ELSE s[i].name
PickedPlaces(s, D) == {i \in Before(s) : <<Owner(s, i), s[i].value>> \in D}
Picked(s, D) == At(s, PickedPlaces(s, D))

(* An option and its value have the same owner.                             *)
LEMMA OwnerIs ==
  ASSUME NEW s, Listed(s), NEW i \in Before(s)
  PROVE  /\ s[i].name # "" \/ i \in Free(s) => Owner(s, i) = s[i].name
         /\ Takes(CargoTakes, s[i]) => Owner(s, i + 1) = s[i].name /\ Owner(s, i) = s[i].name
<1>1. ASSUME s[i].name # "" \/ i \in Free(s) PROVE Owner(s, i) = s[i].name
  BY <1>1, NamedHead DEF Owner, Owned
<1>2. ASSUME Takes(CargoTakes, s[i]) PROVE Owner(s, i + 1) = s[i].name /\ s[i].name # ""
  <2>1. s[i].name # ""
    BY <1>2, OptionTakes
  <2>2. (i + 1) - 1 = i /\ i + 1 # 1
    BY Places
  <2> DEFINE k == i + 1
  <2>3. k - 1 = i /\ k # 1
    BY <2>2
  <2> HIDE DEF k
  <2>4. Owner(s, k) = s[i].name
    BY <1>2, <2>3 DEF Owner, Owned
  <2> QED BY <2>1, <2>4 DEF k
<1> QED BY <1>1, <1>2

(* Every argument before "--" is a free word, an option, or an option's      *)
(* value; so its owner is the name of a unit, and it has the unit's value.  *)
LEMMA OwnerUnit ==
  ASSUME NEW s, Listed(s), NEW i \in Before(s), i \notin Free(s)
  PROVE  /\ \E m \in Units(s) : m[1] = Owner(s, i) /\ (s[i].value = "" \/ s[i].value = m[2])
         /\ Owner(s, i) # ""
<1>1. CASE s[i].name # ""
  <2>1. Owner(s, i) = s[i].name
    BY <1>1, OwnerIs
  <2>2. Unit(s, i) \in Units(s) /\ Unit(s, i)[1] = s[i].name
    BY <1>1 DEF Units, NamedAt, Unit
  <2>3. s[i].value = "" \/ s[i].value = Unit(s, i)[2]
    BY DEF Unit, Takes
  <2> QED BY <1>1, <2>1, <2>2, <2>3
<1>2. CASE s[i].name = ""
  <2>1. i # 1 /\ Takes(CargoTakes, s[i - 1])
    BY <1>2, FreeAt
  <2>2. i - 1 \in Before(s) /\ (i - 1) + 1 = i
    BY <2>1, Places
  <2> DEFINE k == i - 1
  <2>3. k \in Before(s) /\ k + 1 = i /\ Takes(CargoTakes, s[k])
    BY <2>1, <2>2
  <2> HIDE DEF k
  <2>4. Owner(s, i) = s[k].name /\ s[k].name # ""
    BY <2>3, OwnerIs, OptionTakes
  <2>5. Unit(s, k) \in Units(s) /\ Unit(s, k)[1] = s[k].name /\ Unit(s, k)[2] = s[i].value
    BY <2>3, <2>4 DEF Units, NamedAt, Unit
  <2> QED BY <2>4, <2>5
<1> QED BY <1>1, <1>2

(* Nothing is picked from a list that has nothing to pick.                  *)
LEMMA NothingPicked ==
  ASSUME NEW s, Listed(s), NEW D, \A m \in Units(s) : <<m[1], m[2]>> \notin D /\ <<m[1], "">> \notin D,
         Free(s) = {} \/ \A v : <<"", v>> \notin D
  PROVE  PickedPlaces(s, D) = {} /\ Picked(s, D) = <<>>
<1>1. ASSUME NEW i \in PickedPlaces(s, D) PROVE FALSE
  <2>1. i \in Before(s) /\ <<Owner(s, i), s[i].value>> \in D
    BY DEF PickedPlaces
  <2>2. CASE i \in Free(s)
    <3>1. Owner(s, i) = ""
      BY <2>1, <2>2, OwnerIs DEF Free
    <3> QED BY <2>1, <2>2, <3>1
  <2>3. CASE i \notin Free(s)
    <3>1. PICK m \in Units(s) : m[1] = Owner(s, i) /\ (s[i].value = "" \/ s[i].value = m[2])
      BY <2>1, <2>3, OwnerUnit
    <3> QED BY <2>1, <3>1
  <2> QED BY <2>2, <2>3
<1>2. PickedPlaces(s, D) = {}
  BY <1>1
<1>3. s \in Seq(Argument)
  BY DEF Listed, Arguments
<1> QED BY <1>2, <1>3, AtAll DEF Picked

(* What is picked from two lists is picked from one after the other.        *)
LEMMA PickedConcat ==
  ASSUME NEW u, Listed(u), DashFree(u), NEW v, Listed(v), NEW D
  PROVE  Picked(u \o v, D) = Picked(u, D) \o Picked(v, D)
<1> DEFINE x == u \o v
           n == Len(u)
           P == PickedPlaces(u, D)
           Q == PickedPlaces(v, D)
           R == PickedPlaces(x, D)
<1>1. /\ n \in Nat /\ Len(v) \in Nat
      /\ \A i \in 1 .. n : x[i] = u[i] /\ i \in Before(u) /\ i \in Before(x)
      /\ \A i \in 1 .. Len(v) : x[n + i] = v[i]
      /\ \A i \in Before(v) : i \in 1 .. Len(v) /\ n + i \in Before(x)
      /\ \A k \in Before(x) : k \in 1 .. n \/ \E i \in Before(v) : k = n + i
  BY ConcatPlaces DEF Listed
<1>2. Before(u) = 1 .. n
  BY DashFreeBefore DEF Listed, Arguments
<1> HIDE DEF x
<1>3. ASSUME NEW i \in 1 .. n PROVE Owner(x, i) = Owner(u, i)
  <2>1. i # 1 => x[i - 1] = u[i - 1]
    <3>1. i # 1 => i - 1 \in 1 .. n
      BY <1>1
    <3> QED BY <3>1, <1>1
  <2>2. x[i] = u[i]
    BY <1>1
  <2> QED BY <2>1, <2>2 DEF Owner, Owned
<1>4. ASSUME NEW i \in Before(v) PROVE Owner(x, n + i) = Owner(v, i)
  <2> DEFINE k == n + i
  <2>1. i \in 1 .. Len(v) /\ x[k] = v[i]
    BY <1>1
  <2>2. CASE i # 1
    <3>1. k - 1 = n + (i - 1) /\ i - 1 \in 1 .. Len(v) /\ k # 1
      BY <1>1, <2>1, <2>2
    <3>2. x[k - 1] = v[i - 1]
      BY <1>1, <3>1
    <3> HIDE DEF k
    <3>3. Owner(x, k) = Owner(v, i)
      BY <2>1, <2>2, <3>1, <3>2 DEF Owner, Owned
    <3> QED BY <3>3 DEF k
  <2>3. CASE i = 1
    <3>1. n # 0 => ~Takes(CargoTakes, x[n])
      <4> SUFFICES ASSUME n # 0, Takes(CargoTakes, x[n]) PROVE FALSE
        OBVIOUS
      <4>1. n \in 1 .. n /\ x[n] = u[n]
        BY <1>1
      <4>2. n + 1 \in 1 .. n
        BY <1>2, <4>1 DEF Listed, Valued
      <4> QED BY <4>2, <1>1
    <3>2. k - 1 = n /\ (k = 1 <=> n = 0)
      BY <1>1, <2>3
    <3> HIDE DEF k
    <3>3. ~Owned(x, k) /\ ~Owned(v, i)
      BY <2>3, <3>1, <3>2 DEF Owned
    <3>4. Owner(x, k) = Owner(v, i)
      BY <2>1, <3>3 DEF Owner
    <3> QED BY <3>4 DEF k
  <2> QED BY <2>2, <2>3
<1>5. u \in Seq(Argument) /\ v \in Seq(Argument)
  BY DEF Listed, Arguments
<1>6. P \subseteq DOMAIN u /\ Q \subseteq DOMAIN v
  BY DEF PickedPlaces, Before
<1>7. ASSUME NEW i PROVE i \in R <=> i \in P \/ \E k \in Q : i = n + k
  <2>1. CASE i \in 1 .. n
    <3>1. i \in R <=> i \in P
      BY <1>1, <1>3, <2>1 DEF PickedPlaces
    <3>2. \A k \in Q : i # n + k
      <4>1. \A k \in Q : k \in 1 .. Len(v)
        BY <1>1 DEF PickedPlaces
      <4> QED BY <4>1, <1>1, <2>1
    <3> QED BY <3>1, <3>2
  <2>2. CASE i \notin 1 .. n
    <3>1. i \notin P
      BY <1>2, <2>2 DEF PickedPlaces
    <3>2. ASSUME i \in R PROVE \E k \in Q : i = n + k
      <4>1. i \in Before(x) /\ <<Owner(x, i), x[i].value>> \in D
        BY <3>2 DEF PickedPlaces
      <4>2. PICK k \in Before(v) : i = n + k
        BY <1>1, <2>2, <4>1
      <4>3. x[i] = v[k] /\ Owner(x, i) = Owner(v, k)
        BY <1>1, <1>4, <4>2
      <4> QED BY <4>1, <4>2, <4>3 DEF PickedPlaces
    <3>3. ASSUME NEW k \in Q, i = n + k PROVE i \in R
      <4>1. k \in Before(v) /\ <<Owner(v, k), v[k].value>> \in D
        BY DEF PickedPlaces
      <4>2. i \in Before(x) /\ x[i] = v[k] /\ Owner(x, i) = Owner(v, k)
        BY <1>1, <1>4, <3>3, <4>1
      <4> QED BY <4>1, <4>2 DEF PickedPlaces
    <3> QED BY <3>1, <3>2, <3>3
  <2> QED BY <2>1, <2>2
<1> HIDE DEF P, Q, R
<1>9. Behind(R, P, Q, Len(u))
  BY <1>7 DEF Behind
<1>8. At(u \o v, R) = At(u, P) \o At(v, Q)
  BY <1>5, <1>6, <1>9, AtConcat, SMTT(60)
<1> QED BY <1>8 DEF Picked, P, Q, R, x

(* What follows "--" in a list is what follows it at the end of another.    *)
LEMMA AfterConcat ==
  ASSUME NEW u, Listed(u), DashFree(u), NEW v, Listed(v)
  PROVE  AfterDashes(u \o v) = AfterDashes(v)
<1> DEFINE x == u \o v
           n == Len(u)
           Q == DOMAIN v \ Before(v)
           R == DOMAIN x \ Before(x)
<1>1. /\ n \in Nat /\ Len(v) \in Nat /\ x \in Arguments /\ Len(x) = n + Len(v)
      /\ \A i \in 1 .. n : x[i] = u[i] /\ i \in Before(u) /\ i \in Before(x)
      /\ \A i \in Before(v) : i \in 1 .. Len(v) /\ n + i \in Before(x)
      /\ \A k \in Before(x) : k \in 1 .. n \/ \E i \in Before(v) : k = n + i
  BY ConcatPlaces DEF Listed
<1>2. u \in Seq(Argument) /\ v \in Seq(Argument) /\ DOMAIN v = 1 .. Len(v)
  BY DEF Listed, Arguments
<1> HIDE DEF x
<1>3. DOMAIN x = 1 .. (n + Len(v))
  BY <1>1 DEF Arguments
<1>4. ASSUME NEW i PROVE i \in R <=> i \in {} \/ \E k \in Q : i = n + k
  <2>1. ASSUME i \in R PROVE \E k \in Q : i = n + k
    <3>1. i \in 1 .. (n + Len(v)) /\ i \notin 1 .. n /\ i \notin Before(x)
      BY <1>1, <1>3, <2>1
    <3>2. i - n \in 1 .. Len(v) /\ i = n + (i - n)
      BY <3>1, <1>1
    <3>3. i - n \notin Before(v)
      BY <3>1, <3>2, <1>1
    <3> QED BY <3>2, <3>3, <1>2
  <2>2. ASSUME NEW k \in Q, i = n + k PROVE i \in R
    <3>1. k \in 1 .. Len(v) /\ k \notin Before(v)
      BY <1>2
    <3>2. i \in 1 .. (n + Len(v)) /\ i \notin 1 .. n
      BY <3>1, <2>2, <1>1
    <3>3. i \notin Before(x)
      <4> SUFFICES ASSUME i \in Before(x) PROVE FALSE
        OBVIOUS
      <4>1. PICK j \in Before(v) : i = n + j
        BY <3>2, <1>1
      <4>2. j = k
        BY <4>1, <2>2, <3>1, <1>1
      <4> QED BY <4>1, <4>2, <3>1
    <3> QED BY <3>2, <3>3, <1>3
  <2> QED BY <2>1, <2>2
<1>5. {} \subseteq DOMAIN u /\ Q \subseteq DOMAIN v
  OBVIOUS
<1> HIDE DEF Q, R
<1>10. Behind(R, {}, Q, Len(u))
  BY <1>4 DEF Behind
<1>6. At(u \o v, R) = At(u, {}) \o At(v, Q)
  BY <1>2, <1>5, <1>10, AtConcat
<1>7. At(u, {}) = <<>>
  BY <1>2, AtAll
<1>8. At(v, Q) \in Seq(Argument)
  BY <1>2, <1>5, AtIs
<1>9. <<>> \o At(v, Q) = At(v, Q)
  BY <1>8
<1> QED BY <1>6, <1>7, <1>9 DEF AfterDashes, Q, R, x

(* What is behind "--" has nothing else behind it, and nothing to pick.     *)
LEMMA RestPicked ==
  ASSUME NEW s, Listed(s)
  PROVE  LET r == AfterDashes(s) IN AfterDashes(r) = r /\ \A D : Picked(r, D) = <<>>
<1> DEFINE r == AfterDashes(s)
<1>1. Listed(r) /\ Before(r) = {}
  BY RestIs
<1> HIDE DEF r
<1>2. r \in Seq(Argument)
  BY <1>1 DEF Listed, Arguments
<1>3. \A D : PickedPlaces(r, D) = {}
  BY <1>1 DEF PickedPlaces
<1>4. DOMAIN r \ Before(r) = DOMAIN r
  BY <1>1
<1>5. At(r, DOMAIN r) = r /\ At(r, {}) = <<>>
  BY <1>2, AtAll
<1> QED BY <1>3, <1>4, <1>5 DEF AfterDashes, Picked, r

(* What is picked from what was taken.                                      *)
LEMMA PickedAt ==
  ASSUME NEW s, Listed(s), NEW P, P \subseteq Before(s), Together(s, P), NEW D
  PROVE  Picked(At(s, P), D) = At(s, P \cap PickedPlaces(s, D))
<1> DEFINE u == At(s, P)
           Q == PickedPlaces(u, D)
           R == P \cap PickedPlaces(s, D)
<1>1. u \in Arguments /\ DashFree(u) /\ Valued(u)
  BY PickFacts
<1>2. PICK h : /\ Picks(h, s, P, u)
               /\ \A k \in 1 .. Len(u) : Unit(u, k) = Unit(s, h[k]) /\ (k \in Free(u) <=> h[k] \in Free(s))
  BY PickFacts
<1> HIDE DEF u
<1>3. Before(u) = 1 .. Len(u) /\ Len(u) \in Nat /\ Listed(u)
  BY <1>1, DashFreeBefore DEF Arguments, Listed
<1>4. /\ \A k \in 1 .. Len(u) : h[k] \in P /\ u[k] = s[h[k]]
      /\ \A i \in P : \E k \in 1 .. Len(u) : h[k] = i
  BY <1>2 DEF Picks
<1>5. ASSUME NEW k \in 1 .. Len(u) PROVE Owner(u, k) = Owner(s, h[k])
  <2>0. h[k] \in Before(s) /\ h[k] \in P /\ u[k] = s[h[k]]
    BY <1>4
  <2>1. CASE u[k].name # "" \/ k \in Free(u)
    <3>1. Owner(u, k) = u[k].name
      BY <1>3, <2>1, OwnerIs
    <3>2. s[h[k]].name # "" \/ h[k] \in Free(s)
      BY <1>2, <2>0, <2>1
    <3>3. Owner(s, h[k]) = s[h[k]].name
      BY <2>0, <3>2, OwnerIs
    <3> QED BY <2>0, <3>1, <3>3
  <2>2. CASE u[k].name = "" /\ k \notin Free(u)
    <3>1. h[k] \notin Free(s) /\ s[h[k]].name = ""
      BY <1>2, <2>0, <2>2
    <3>2. h[k] # 1 /\ Takes(CargoTakes, s[h[k] - 1])
      BY <2>0, <3>1, FreeAt
    <3>3. h[k] - 1 \in Before(s) /\ (h[k] - 1) + 1 = h[k]
      BY <2>0, <3>2, Places
    <3> DEFINE g == h[k] - 1
    <3>4. g \in Before(s) /\ g + 1 = h[k] /\ Takes(CargoTakes, s[g])
      BY <3>2, <3>3
    <3> HIDE DEF g
    <3>5. Owner(s, h[k]) = s[g].name /\ g \in P
      BY <2>0, <3>4, OwnerIs DEF Together
    <3>6. k # 1 /\ Takes(CargoTakes, u[k - 1])
      BY <1>3, <2>2, FreeAt
    <3>7. k - 1 \in 1 .. Len(u) /\ k - 1 < k
      BY <1>3, <3>6
    <3> DEFINE j == k - 1
    <3>8. j \in 1 .. Len(u) /\ j < k /\ Takes(CargoTakes, u[j]) /\ j + 1 = k
      BY <3>6, <3>7
    <3> HIDE DEF j
    <3>9. Owner(u, k) = u[j].name
      BY <1>3, <3>8, OwnerIs
    <3>10. h[j] = g
      <4>1. h[j] \in P /\ h[j] \in Before(s) /\ Takes(CargoTakes, s[h[j]]) /\ h[j] < h[k]
        BY <1>2, <1>4, <3>8 DEF Picks
      <4>2. Before(s) \subseteq Nat
        BY Places
      <4>3. PICK m \in 1 .. Len(u) : h[m] = g
        BY <1>4, <3>5
      <4>4. ~(j < m)
        <5> SUFFICES ASSUME j < m PROVE FALSE
          OBVIOUS
        <5>1. ~(m < k)
          BY <1>3, <3>8
        <5>2. m # k
          BY <4>2, <4>3, <3>4, <2>0
        <5>3. k < m
          BY <1>3, <5>1, <5>2
        <5>4. h[k] < h[m]
          BY <1>2, <5>3 DEF Picks
        <5> QED BY <5>4, <4>2, <4>3, <3>4, <2>0
      <4>5. ~(m < j)
        <5> SUFFICES ASSUME m < j PROVE FALSE
          OBVIOUS
        <5>1. h[m] < h[j]
          BY <1>2, <3>8 DEF Picks
        <5> QED BY <5>1, <4>1, <4>2, <4>3, <3>4, <2>0
      <4>6. m = j
        BY <4>4, <4>5, <1>3, <3>8
      <4> QED BY <4>3, <4>6
    <3> QED BY <3>5, <3>8, <3>9, <3>10, <1>4
  <2> QED BY <2>1, <2>2
<1>6. ASSUME NEW i PROVE i \in R <=> \E k \in Q : i = h[k]
  <2>1. ASSUME i \in R PROVE \E k \in Q : i = h[k]
    <3>1. PICK k \in 1 .. Len(u) : h[k] = i
      BY <1>4, <2>1
    <3>2. Owner(u, k) = Owner(s, i) /\ u[k] = s[i]
      BY <1>4, <1>5, <3>1
    <3>3. k \in Q
      BY <1>3, <2>1, <3>2 DEF PickedPlaces
    <3> QED BY <3>1, <3>3
  <2>2. ASSUME NEW k \in Q, i = h[k] PROVE i \in R
    <3>1. k \in 1 .. Len(u) /\ <<Owner(u, k), u[k].value>> \in D
      BY <1>3 DEF PickedPlaces
    <3>2. Owner(u, k) = Owner(s, i) /\ u[k] = s[i] /\ i \in P
      BY <1>4, <1>5, <2>2, <3>1
    <3> QED BY <3>1, <3>2 DEF PickedPlaces
  <2> QED BY <2>1, <2>2
<1>7. s \in Seq(Argument) /\ P \subseteq DOMAIN s /\ Q \subseteq 1 .. Len(u)
  BY <1>3 DEF Listed, Arguments, Before, PickedPlaces
<1> HIDE DEF Q, R
<1>9. Found(R, h, Q)
  BY <1>6 DEF Found
<1>10. Picks(h, s, P, At(s, P))
  BY <1>2 DEF u
<1>11. Q \subseteq 1 .. Len(At(s, P))
  BY <1>7 DEF u
<1>12. TakenAt(s, P, h, Q, R)
  BY <1>7, <1>9, <1>10, <1>11 DEF TakenAt
<1>13. s \in Seq(Argument)
  BY <1>7
<1>8. At(At(s, P), Q) = At(s, R)
  BY <1>12, <1>13, AtOfAt
<1> QED BY <1>8 DEF Picked, Q, R, u

(* What the Cargo commands have in common, by owner and value.              *)
Rewritten == PackageNames \cup {"--config"}
OtherPicks == {d \in Text \X Text : d[1] \notin Rewritten}
ConfigPicks == {d \in Text \X Text : d[1] = "--config" /\ d[2] \notin Patches /\ d[2] # ""}

(* What belongs to which of the two.                                        *)
LEMMA PicksAre ==
  ASSUME NEW x, NEW y
  PROVE  /\ <<x, y>> \in OtherPicks <=> x \in Text /\ y \in Text /\ x \notin Rewritten
         /\ <<x, y>> \in ConfigPicks <=> x \in Text /\ y \in Text /\ x = "--config" /\ y \notin Patches /\ y # ""
<1> DEFINE d == <<x, y>>
<1>1. d[1] = x /\ d[2] = y /\ (d \in Text \X Text <=> x \in Text /\ y \in Text)
  OBVIOUS
<1> HIDE DEF d
<1>2. d \in OtherPicks <=> x \in Text /\ y \in Text /\ x \notin Rewritten
  BY <1>1 DEF OtherPicks
<1>3. d \in ConfigPicks <=> x \in Text /\ y \in Text /\ x = "--config" /\ y \notin Patches /\ y # ""
  BY <1>1 DEF ConfigPicks
<1> QED BY <1>2, <1>3 DEF d

(* Names, values and owners are text.                                       *)
LEMMA TextAt ==
  ASSUME NEW s, Listed(s), NEW i \in Before(s)
  PROVE  s[i].name \in Text /\ s[i].value \in Text /\ Owner(s, i) \in Text
<1>1. \A k \in Before(s) : s[k] \in Argument
  <2>1. s \in Seq(Argument) /\ Before(s) \subseteq DOMAIN s
    BY Places DEF Listed, Arguments
  <2> QED BY <2>1
<1>2. \A k \in Before(s) : s[k].name \in Text /\ s[k].value \in Text
  BY <1>1 DEF Argument
<1>3. i # 1 => i - 1 \in Before(s)
  BY Places
<1>4. Owner(s, i) \in Text
  BY <1>2, <1>3 DEF Owner, Owned
<1> QED BY <1>2, <1>4

(* The options of Others with their values, and its free words.             *)
LEMMA OthersAt ==
  ASSUME NEW s, Listed(s), NEW kept, kept = {i \in Heads(s, CargoTakes) : s[i].name \notin Rewritten}
  PROVE  WithValues(s, CargoTakes, kept) = PickedPlaces(s, OtherPicks)
<1>0. s \in Arguments /\ Valued(s)
  BY DEF Listed
<1>1. Heads(s, CargoTakes) = {i \in Before(s) : ~Owned(s, i)}
  <2>1. CargoTakes \in SUBSET CargoTakes
    OBVIOUS
  <2>2. Heads(s, CargoTakes) = {i \in Before(s) : i = 1 \/ ~Takes(CargoTakes, s[i - 1])}
    BY <1>0, <2>1, HeadsAre
  <2> QED BY <2>2 DEF Owned
<1>2. ASSUME NEW i \in kept, Takes(CargoTakes, s[i]) PROVE i + 1 \in Before(s) /\ i + 1 \in DOMAIN s
  <2>1. i \in Before(s)
    BY <1>1
  <2>2. i + 1 \in Before(s)
    BY <1>2, <2>1, ValueAfter
  <2> QED BY <2>2, Places
<1> DEFINE next == {i + 1 : i \in {j \in kept : Takes(CargoTakes, s[j])}}
<1>3. WithValues(s, CargoTakes, kept) = kept \cup next /\ next \subseteq Before(s) /\ kept \subseteq Before(s)
  BY <1>1, <1>2 DEF WithValues
<1>4. ASSUME NEW i \in Before(s) PROVE i \in kept \cup next <=> Owner(s, i) \notin Rewritten
  <2>1. CASE ~Owned(s, i)
    <3>1. Owner(s, i) = s[i].name
      BY <2>1 DEF Owner
    <3>2. i \notin next
      <4> SUFFICES ASSUME NEW j \in kept, Takes(CargoTakes, s[j]), i = j + 1 PROVE FALSE
        OBVIOUS
      <4>1. j \in Before(s)
        BY <1>1
      <4>2. i - 1 = j /\ i # 1
        BY <4>1, Places
      <4> QED BY <2>1, <4>2 DEF Owned
    <3>3. i \in kept <=> s[i].name \notin Rewritten
      BY <1>1, <2>1
    <3> QED BY <3>1, <3>2, <3>3
  <2>2. CASE Owned(s, i)
    <3>1. i # 1 /\ Takes(CargoTakes, s[i - 1]) /\ Owner(s, i) = s[i - 1].name
      BY <2>2 DEF Owner, Owned
    <3>2. i - 1 \in Before(s) /\ (i - 1) + 1 = i
      BY <3>1, Places
    <3> DEFINE j == i - 1
    <3>3. j \in Before(s) /\ j + 1 = i /\ Takes(CargoTakes, s[j]) /\ Owner(s, i) = s[j].name
      BY <3>1, <3>2
    <3> HIDE DEF j
    <3>4. j \in kept <=> s[j].name \notin Rewritten
      <4>1. s[j].name # ""
        BY <3>3, OptionTakes
      <4>2. ~Owned(s, j)
        BY <3>3, <4>1, NamedHead DEF Owned
      <4> QED BY <1>1, <3>3, <4>2
    <3>5. i \notin kept
      BY <1>1, <2>2
    <3>6. i \in next <=> j \in kept
      <4>1. j \in kept => i \in next
        BY <3>3
      <4>2. ASSUME i \in next PROVE j \in kept
        <5>1. PICK k \in kept : i = k + 1
          BY <4>2
        <5>2. k \in Nat /\ j \in Nat
          BY <1>3, <3>3, Places
        <5>3. k = j
          BY <3>3, <5>1, <5>2
        <5> QED BY <5>3
      <4> QED BY <4>1, <4>2
    <3> QED BY <3>3, <3>4, <3>5, <3>6
  <2> QED BY <2>1, <2>2
<1>5. \A i \in Before(s) : <<Owner(s, i), s[i].value>> \in OtherPicks <=> Owner(s, i) \notin Rewritten
  BY TextAt, PicksAre
<1> HIDE DEF next
<1>6. kept \cup next = PickedPlaces(s, OtherPicks)
  BY <1>3, <1>4, <1>5 DEF PickedPlaces
<1> QED BY <1>3, <1>6

(* The configurations that are no patch of telekio's.                       *)
LEMMA ConfigsAt ==
  ASSUME NEW s, Listed(s)
  PROVE  {i \in CargoPlaces(s, {"--config"}) : s[i].value \notin Patches} = PickedPlaces(s, ConfigPicks)
<1> DEFINE N == {"--config"}
<1>1. N \subseteq CargoTakes /\ "--config" # ""
  BY DEF CargoTakes, CommandTakes, GlobalTakes
<1>2. ValuePlaces(s, N) \subseteq Before(s) /\ CargoPlaces(s, N) = ValuePlaces(s, N)
  BY <1>1, PlacesAre
<1>3. \A i \in Before(s) : <<Owner(s, i), s[i].value>> \in ConfigPicks
        <=> Owner(s, i) = "--config" /\ s[i].value \notin Patches /\ s[i].value # ""
  BY TextAt, PicksAre
<1>4. ASSUME NEW i \in Before(s)
      PROVE  i \in ValuePlaces(s, N) <=> Owner(s, i) = "--config" /\ s[i].value # ""
  <2>1. ASSUME i \in ValuePlaces(s, N) PROVE Owner(s, i) = "--config" /\ s[i].value # ""
    <3>1. PICK j \in Before(s) : s[j].name = "--config" /\ i = ValuePlace(s, j)
      BY <2>1 DEF ValuePlaces
    <3>2. CASE s[j].value # ""
      <4>1. i = j
        BY <3>1, <3>2 DEF ValuePlace
      <4> QED BY <1>1, <3>1, <3>2, <4>1, OwnerIs
    <3>3. CASE s[j].value = ""
      <4>1. Takes(CargoTakes, s[j])
        BY <1>1, <3>1, <3>3 DEF Takes
      <4>2. i = j + 1
        BY <3>1, <3>3 DEF ValuePlace
      <4>3. s[j + 1].value # "" /\ Owner(s, j + 1) = s[j].name
        BY <4>1, ValueAfter, OwnerIs
      <4> QED BY <3>1, <4>2, <4>3
    <3> QED BY <3>2, <3>3
  <2>2. ASSUME Owner(s, i) = "--config", s[i].value # "" PROVE i \in ValuePlaces(s, N)
    <3>1. CASE ~Owned(s, i)
      <4>1. s[i].name = "--config" /\ ValuePlace(s, i) = i
        BY <2>2, <3>1 DEF Owner, ValuePlace
      <4> QED BY <4>1 DEF ValuePlaces
    <3>2. CASE Owned(s, i)
      <4>1. i # 1 /\ Takes(CargoTakes, s[i - 1]) /\ s[i - 1].name = "--config"
        BY <2>2, <3>2 DEF Owner, Owned
      <4>2. i - 1 \in Before(s) /\ (i - 1) + 1 = i
        BY <4>1, Places
      <4> DEFINE j == i - 1
      <4>3. j \in Before(s) /\ j + 1 = i /\ Takes(CargoTakes, s[j]) /\ s[j].name = "--config"
        BY <4>1, <4>2
      <4> HIDE DEF j
      <4>4. ValuePlace(s, j) = i
        BY <4>3, OptionTakes DEF ValuePlace
      <4> QED BY <4>3, <4>4 DEF ValuePlaces
    <3> QED BY <3>1, <3>2
  <2> QED BY <2>1, <2>2
<1>5. {i \in ValuePlaces(s, N) : s[i].value \notin Patches} = PickedPlaces(s, ConfigPicks)
  <2> DEFINE V == ValuePlaces(s, N)
  <2>1. V \subseteq Before(s) /\ \A i \in Before(s) : i \in V <=> Owner(s, i) = "--config" /\ s[i].value # ""
    BY <1>2, <1>4
  <2> HIDE DEF V
  <2>2. {i \in V : s[i].value \notin Patches} = PickedPlaces(s, ConfigPicks)
    BY <2>1, <1>3 DEF PickedPlaces
  <2> QED BY <2>2 DEF V
<1> QED BY <1>2, <1>5

(* The other arguments of a list: what is picked of it, and what is after "--".*)
LEMMA OthersAre ==
  ASSUME NEW s, Listed(s)
  PROVE  Others(s) = <<Picked(s, OtherPicks), Picked(s, ConfigPicks), AfterDashes(s)>>
<1>1. WithValues(s, CargoTakes, {i \in Heads(s, CargoTakes) : s[i].name \notin Rewritten})
        = PickedPlaces(s, OtherPicks)
  BY OthersAt
<1>2. {i \in CargoPlaces(s, {"--config"}) : s[i].value \notin Patches} = PickedPlaces(s, ConfigPicks)
  BY ConfigsAt
<1> QED BY <1>1, <1>2 DEF Others, Picked, Rewritten

(* What holds of an option holds of its value: places chosen by the names of *)
(* the options, together with their values, are those of their owners.      *)
LEMMA OwnerPlaces ==
  ASSUME NEW s, Listed(s), NEW P, P \subseteq Before(s), Together(s, P), NEW N,
         \A i \in Before(s) : s[i].name # "" => (i \in P <=> s[i].name \in N),
         ("" \in N /\ Free(s) \subseteq P) \/ ("" \notin N /\ P \cap Free(s) = {})
  PROVE  \A i \in Before(s) : i \in P <=> Owner(s, i) \in N
<1> TAKE i \in Before(s)
<1>1. CASE s[i].name # ""
  BY <1>1, OwnerIs
<1>2. CASE i \in Free(s)
  <2>1. Owner(s, i) = "" /\ (i \in P <=> "" \in N)
    <3>1. Owner(s, i) = s[i].name /\ s[i].name = ""
      BY <1>2, OwnerIs, FreeAt
    <3> QED BY <1>2, <3>1
  <2> QED BY <2>1
<1>3. CASE s[i].name = "" /\ i \notin Free(s)
  <2>1. i # 1 /\ Takes(CargoTakes, s[i - 1])
    BY <1>3, FreeAt
  <2>2. i - 1 \in Before(s) /\ (i - 1) + 1 = i
    BY <2>1, Places
  <2> DEFINE j == i - 1
  <2>3. j \in Before(s) /\ j + 1 = i /\ Takes(CargoTakes, s[j])
    BY <2>1, <2>2
  <2> HIDE DEF j
  <2>4. Owner(s, i) = s[j].name /\ s[j].name # ""
    BY <2>3, OwnerIs, OptionTakes
  <2>5. j \in P <=> i \in P
    BY <2>3 DEF Together
  <2> QED BY <2>3, <2>4, <2>5
<1> QED BY <1>1, <1>2, <1>3

(* Lists and what is picked from them, one after the other.                 *)
Chain(u, v) == u \o v

(* What is picked of two lists, one after the other.                        *)
LEMMA JoinPicks ==
  ASSUME NEW u, Listed(u), DashFree(u), NEW v, Listed(v), NEW D
  PROVE  LET x == Chain(u, v)
         IN  Listed(x) /\ Picked(x, D) = Chain(Picked(u, D), Picked(v, D)) /\ AfterDashes(x) = AfterDashes(v)
<1>1. Listed(u \o v)
  BY ConcatListed
<1>2. Picked(u \o v, D) = Picked(u, D) \o Picked(v, D)
  BY PickedConcat
<1>3. AfterDashes(u \o v) = AfterDashes(v)
  BY AfterConcat
<1> QED BY <1>1, <1>2, <1>3 DEF Chain

(* What status hands to Cargo is what it was given, but for the patch.       *)
Keeps(c, D) == \A v : <<"--config", v>> \in D => v # c /\ v # ""

(* What status leaves of what is picked, and where.                         *)
LEMMA StatusPicks ==
  ASSUME NEW s, Regular(s), NEW c \in Patches, NEW D, Keeps(c, D)
  PROVE  LET PP == PickedPlaces(s, D)
             PC == WithValues(s, {"--config"}, ConfigPlaces(s))
         IN  /\ Picked(status(s, c), D) = Chain(At(s, FirstTool(s) \cap PP), Chain(At(s, OtherPlaces(s) \cap PP), At(s, PC \cap PP)))
             /\ AfterDashes(status(s, c)) = AfterDashes(s)
<1> DEFINE PP == PickedPlaces(s, D)
           PA == FirstTool(s)
           PB == OtherPlaces(s)
           PC == WithValues(s, {"--config"}, ConfigPlaces(s))
           A == At(s, PA)
           B == At(s, PB)
           C == At(s, PC)
           p == <<Opt("--config"), Word(c)>>
           r == AfterDashes(s)
           T == Chain(p, r)
           CT == Chain(C, T)
           BCT == Chain(B, CT)
           q == Chain(A, BCT)
<1>0. Listed(s)
  BY DEF Regular
<1>1. PA \subseteq Before(s) /\ Listed(A) /\ DashFree(A) /\ Together(s, PA)
  BY ToolIs
<1>2. PB \subseteq Before(s) /\ Listed(B) /\ DashFree(B) /\ Together(s, PB)
  BY OthersIs
<1>3. PC \subseteq Before(s) /\ Listed(C) /\ DashFree(C) /\ Together(s, PC)
  BY ConfigsIs
<1>4. Listed(p) /\ DashFree(p) /\ Units(p) = {<<"--config", c>>} /\ Free(p) = {}
  <2>1. NonEmpty(c)
    BY DEF Patches, NonEmpty
  <2>2. c \in Text /\ "--config" \in Text
    <3>1. Patches \subseteq Text
      BY TextIs
    <3>2. "--config" \in Text
      BY TextIs
    <3> QED BY <3>1, <3>2
  <2>3. Word(c) \in Argument
    BY <2>2, TextIs
  <2>4. Opt("--config") \in Argument
    BY <2>2, TextIs
  <2> QED BY <2>1, <2>3, <2>4, PairIs
<1>5. Listed(r) /\ Before(r) = {}
  BY <1>0, RestIs
<1>6. AfterDashes(r) = r /\ Picked(r, D) = <<>>
  BY <1>0, RestPicked
<1>7. status(s, c) = q
  BY DEF status, FirstTool, ConfigPlaces, OtherPlaces, Chain
<1> HIDE DEF PA, PB, PC
<1>8. /\ Picked(A, D) = At(s, PA \cap PP)
      /\ Picked(B, D) = At(s, PB \cap PP)
      /\ Picked(C, D) = At(s, PC \cap PP)
  BY <1>0, <1>1, <1>2, <1>3, PickedAt
<1> DEFINE a == At(s, PA \cap PP)
           b == At(s, PB \cap PP)
           d == At(s, PC \cap PP)
<1>9. d \in Seq(Argument)
  <2>1. s \in Seq(Argument) /\ PC \cap PP \subseteq DOMAIN s
    BY <1>0, <1>3, Places DEF Listed, Arguments
  <2> HIDE DEF PP
  <2> QED BY <2>1, AtIs
<1> HIDE DEF PP, A, B, C, p, r
<1>10. Picked(p, D) = <<>>
  <2>1. <<"--config", c>> \notin D /\ <<"--config", "">> \notin D
    BY DEF Keeps
  <2>2. \A m \in Units(p) : m[1] = "--config" /\ m[2] = c
    BY <1>4
  <2>3. \A m \in Units(p) : <<m[1], m[2]>> \notin D /\ <<m[1], "">> \notin D
    BY <2>1, <2>2
  <2> QED BY <1>4, <2>3, NothingPicked
<1>11. Listed(T) /\ Picked(T, D) = Chain(Picked(p, D), Picked(r, D)) /\ AfterDashes(T) = AfterDashes(r)
  <2>1. T = Chain(p, r)
    OBVIOUS
  <2> HIDE DEF T
  <2> QED BY <1>4, <1>5, <2>1, JoinPicks
<1>12. Picked(T, D) = <<>>
  BY <1>6, <1>10, <1>11 DEF Chain
<1> HIDE DEF T
<1>13. Listed(CT) /\ Picked(CT, D) = Chain(Picked(C, D), Picked(T, D)) /\ AfterDashes(CT) = AfterDashes(T)
  <2>1. CT = Chain(C, T)
    OBVIOUS
  <2> HIDE DEF CT
  <2> QED BY <1>3, <1>11, <2>1, JoinPicks
<1> HIDE DEF CT
<1>14. Listed(BCT) /\ Picked(BCT, D) = Chain(Picked(B, D), Picked(CT, D)) /\ AfterDashes(BCT) = AfterDashes(CT)
  <2>1. BCT = Chain(B, CT)
    OBVIOUS
  <2> HIDE DEF BCT
  <2> QED BY <1>2, <1>13, <2>1, JoinPicks
<1> HIDE DEF BCT
<1>15. Listed(q) /\ Picked(q, D) = Chain(Picked(A, D), Picked(BCT, D)) /\ AfterDashes(q) = AfterDashes(BCT)
  <2>1. q = Chain(A, BCT)
    OBVIOUS
  <2> HIDE DEF q
  <2> QED BY <1>1, <1>14, <2>1, JoinPicks
<1> HIDE DEF q, a, b, d
<1>16. Chain(d, <<>>) = d
  BY <1>9 DEF Chain
<1>17. Picked(q, D) = Chain(a, Chain(b, d))
  BY <1>8, <1>12, <1>13, <1>14, <1>15, <1>16 DEF a, b, d
<1>18. AfterDashes(q) = r
  BY <1>6, <1>11, <1>13, <1>14, <1>15
<1> QED BY <1>7, <1>17, <1>18 DEF a, b, d, r, PA, PB, PC, PP

(* status changes nothing but the patch.                                    *)
LEMMA StatusOthers ==
  ASSUME NEW s, Regular(s), NEW c \in Patches
  PROVE  Others(status(s, c)) = Others(s)
<1> DEFINE PA == FirstTool(s)
           PB == OtherPlaces(s)
           PC == WithValues(s, {"--config"}, ConfigPlaces(s))
           P1 == PickedPlaces(s, OtherPicks)
           P2 == PickedPlaces(s, ConfigPicks)
           q == status(s, c)
<1>0. Listed(s) /\ Listed(q)
  BY StatusIs DEF Regular
<1>1. Keeps(c, OtherPicks) /\ Keeps(c, ConfigPicks)
  BY PicksAre DEF Keeps, Rewritten
<1>2. /\ Picked(q, OtherPicks) = Chain(At(s, PA \cap P1), Chain(At(s, PB \cap P1), At(s, PC \cap P1)))
      /\ Picked(q, ConfigPicks) = Chain(At(s, PA \cap P2), Chain(At(s, PB \cap P2), At(s, PC \cap P2)))
      /\ AfterDashes(q) = AfterDashes(s)
  BY <1>1, StatusPicks
<1> HIDE DEF q
<1>3. /\ PA \subseteq Before(s) /\ (\A i \in PA : i = 1 /\ s[i] = Toolchain) /\ Together(s, PA) /\ PA \cap Free(s) = {}
  BY ToolIs
<1>4. /\ PB \subseteq Before(s) /\ Together(s, PB) /\ Free(s) \subseteq PB
      /\ \A i \in Before(s) : s[i].name # "" => i \in PB \cup ConfigPlaces(s) \cup PA
  BY OthersIs
<1>5. /\ PC \subseteq Before(s) /\ Together(s, PC) /\ PC \cap Free(s) = {} /\ ConfigPlaces(s) \subseteq PC
      /\ \A i \in PC : i \in ConfigPlaces(s) \/ s[i].name = ""
      /\ ConfigPlaces(s) = {i \in Before(s) : s[i].name = "--config"}
  BY ConfigsIs
<1>6. PA \cap PB = {} /\ PB \cap ConfigPlaces(s) = {} /\ PA \cap ConfigPlaces(s) = {}
  BY DEF OtherPlaces, ConfigPlaces
<1> HIDE DEF PA, PB, PC
<1>7. \A i \in Before(s) : i \in PC <=> Owner(s, i) \in {"--config"}
  <2>1. \A i \in Before(s) : s[i].name # "" => (i \in PC <=> s[i].name \in {"--config"})
    BY <1>5
  <2>2. "" \notin {"--config"}
    OBVIOUS
  <2> DEFINE N == {"--config"}
  <2> HIDE DEF N
  <2> QED BY <1>0, <1>5, <2>1, <2>2, OwnerPlaces DEF N
<1>8. \A i \in Before(s) : i \in PA \cup PB <=> Owner(s, i) \in Text \ {"--config"}
  <2> DEFINE N == Text \ {"--config"}
             P == PA \cup PB
  <2>1. \A i \in Before(s) : s[i].name # "" => (i \in P <=> s[i].name \in N)
    <3>1. \A i \in Before(s) : s[i].name \in Text
      BY <1>0, TextAt
    <3>2. \A i \in Before(s) : s[i].name # "" => (i \in P <=> s[i].name # "--config")
      BY <1>4, <1>5, <1>6
    <3> QED BY <3>1, <3>2
  <2>2. "" \in N
    <3>1. "" \in Literals /\ Literals \subseteq Text
      <4>1. Literals \subseteq Text
        <5> HIDE DEF Literals
        <5> QED BY DEF Text
      <4> QED BY <4>1 DEF Literals
    <3> HIDE DEF Text
    <3> QED BY <3>1
  <2>3. P \subseteq Before(s) /\ Free(s) \subseteq P /\ Together(s, P)
    BY <1>3, <1>4 DEF Together
  <2> HIDE DEF N, P
  <2>4. \A i \in Before(s) : i \in P <=> Owner(s, i) \in N
    BY <1>0, <2>1, <2>2, <2>3, OwnerPlaces
  <2> QED BY <2>4 DEF N, P
<1>9. P1 \subseteq Before(s) /\ \A i \in P1 : Owner(s, i) \in Text \ {"--config"}
  <2>1. \A i \in P1 : i \in Before(s) /\ <<Owner(s, i), s[i].value>> \in OtherPicks
    BY DEF PickedPlaces
  <2> QED BY <2>1, PicksAre DEF Rewritten
<1>10. P2 \subseteq Before(s) /\ \A i \in P2 : Owner(s, i) \in {"--config"}
  <2>1. \A i \in P2 : i \in Before(s) /\ <<Owner(s, i), s[i].value>> \in ConfigPicks
    BY DEF PickedPlaces
  <2> QED BY <2>1, PicksAre
<1> HIDE DEF P1, P2
<1>11. PC \cap P1 = {} /\ P1 = (PA \cap P1) \cup (PB \cap P1)
  BY <1>7, <1>8, <1>9
<1>12. PA \cap P2 = {} /\ PB \cap P2 = {} /\ PC \cap P2 = P2
  BY <1>7, <1>8, <1>10
<1>13. s \in Seq(Argument) /\ Before(s) \subseteq DOMAIN s /\ Before(s) \subseteq Nat \ {0}
  BY <1>0, Places DEF Listed, Arguments
<1>14. \A i \in PA \cap P1 : \A j \in PB \cap P1 : i < j
  <2> SUFFICES ASSUME NEW i \in PA, NEW j \in PB PROVE i < j
    OBVIOUS
  <2>1. i = 1 /\ j # 1
    BY <1>3, <1>6
  <2>2. j \in Nat \ {0}
    BY <1>4, <1>13
  <2> QED BY <2>1, <2>2
<1>15. At(s, P1) = Chain(At(s, PA \cap P1), At(s, PB \cap P1))
  <2> DEFINE X == PA \cap P1
             Y == PB \cap P1
  <2>1. X \subseteq DOMAIN s /\ Y \subseteq DOMAIN s /\ (\A i \in X : \A j \in Y : i < j) /\ P1 = X \cup Y
    BY <1>9, <1>11, <1>13, <1>14
  <2> HIDE DEF X, Y
  <2>2. At(s, X \cup Y) = Chain(At(s, X), At(s, Y))
    BY <1>13, <2>1, AtSplit DEF Chain
  <2> QED BY <2>1, <2>2 DEF X, Y
<1>16. At(s, {}) = <<>>
  BY <1>13, AtAll
<1>17. At(s, PB \cap P1) \in Seq(Argument) /\ At(s, P2) \in Seq(Argument)
  <2>1. PB \cap P1 \subseteq DOMAIN s /\ P2 \subseteq DOMAIN s
    BY <1>9, <1>10, <1>13
  <2> QED BY <1>13, <2>1, AtIs
<1>18. Picked(q, OtherPicks) = At(s, P1)
  <2> DEFINE b == At(s, PB \cap P1)
  <2>1. Chain(b, <<>>) = b
    BY <1>17 DEF Chain
  <2> QED BY <1>2, <1>11, <1>15, <1>16, <2>1
<1>19. Picked(q, ConfigPicks) = At(s, P2)
  <2> DEFINE b == At(s, P2)
  <2>1. Chain(<<>>, Chain(<<>>, b)) = b
    <3>1. b \in Seq(Argument)
      BY <1>17
    <3> HIDE DEF b
    <3> QED BY <3>1 DEF Chain
  <2> QED BY <1>2, <1>12, <1>16, <2>1
<1> QED BY <1>0, <1>2, <1>18, <1>19, OthersAre DEF Picked, P1, P2, q

(* No text is text.                                                         *)
LEMMA EmptyText == "" \in Text
<1>1. Literals \subseteq Text
  <2> HIDE DEF Literals
  <2> QED BY DEF Text
<1>2. "" \in Literals
  BY DEF Literals
<1> HIDE DEF Text, Literals
<1> QED BY <1>1, <1>2

(* Neither does package_arguments change anything but the selection.        *)
LEMMA PackagePicks ==
  ASSUME MembersNamed, NEW s, Regular(s), NEW q \in Seq(Members), Len(q) # 0, NEW D,
         \A v : <<"--package", v>> \notin D,
         PickedPlaces(s, D) \subseteq KeptPlaces(s)
  PROVE  /\ Picked(package_arguments(s, q), D) = Picked(s, D)
         /\ AfterDashes(package_arguments(s, q)) = AfterDashes(s)
         /\ Listed(package_arguments(s, q))
<1> DEFINE P == KeptPlaces(s)
           PP == PickedPlaces(s, D)
           A == At(s, P)
           B == Pairs(q)
           C == AfterDashes(s)
           BC == Chain(B, C)
           r == Chain(A, BC)
<1>0. Listed(s)
  BY DEF Regular
<1>1. P \subseteq Before(s) /\ Listed(A) /\ DashFree(A) /\ Together(s, P)
  BY KeptIs
<1>2. Listed(B) /\ DashFree(B) /\ Free(B) = {} /\ Units(B) = {<<"--package", q[k]>> : k \in 1 .. Len(q)}
  BY PairsAre
<1>3. Listed(C) /\ AfterDashes(C) = C /\ Picked(C, D) = <<>>
  BY <1>0, RestIs, RestPicked
<1>4. package_arguments(s, q) = r
  BY DEF package_arguments, KeptPlaces, Pairs, PackagePair, Chain
<1> HIDE DEF P
<1>5. Picked(A, D) = At(s, P \cap PP)
  BY <1>0, <1>1, PickedAt
<1>6. At(s, P \cap PP) = Picked(s, D) /\ Picked(s, D) \in Seq(Argument)
  <2>1. P \cap PP = PP
    BY DEF P
  <2>2. s \in Seq(Argument) /\ PP \subseteq DOMAIN s
    BY <1>0, Places DEF Listed, Arguments, PickedPlaces
  <2>3. At(s, PP) \in Seq(Argument)
    <3> HIDE DEF PP
    <3> QED BY <2>2, AtIs
  <2> QED BY <2>1, <2>3 DEF Picked
<1> HIDE DEF PP, A, B, C
<1>7. Picked(B, D) = <<>>
  <2>1. \A m \in Units(B) : <<m[1], m[2]>> \notin D /\ <<m[1], "">> \notin D
    <3>1. \A m \in Units(B) : m[1] = "--package"
      BY <1>2
    <3> QED BY <3>1
  <2> QED BY <1>2, <2>1, NothingPicked
<1>8. Listed(BC) /\ Picked(BC, D) = Chain(Picked(B, D), Picked(C, D)) /\ AfterDashes(BC) = AfterDashes(C)
  BY <1>2, <1>3, JoinPicks
<1> HIDE DEF BC
<1>9. Listed(r) /\ Picked(r, D) = Chain(Picked(A, D), Picked(BC, D)) /\ AfterDashes(r) = AfterDashes(BC)
  BY <1>1, <1>8, JoinPicks
<1> HIDE DEF r
<1>10. Chain(<<>>, <<>>) = <<>> /\ \A z \in Seq(Argument) : Chain(z, <<>>) = z
  BY DEF Chain
<1>11. Picked(r, D) = Picked(s, D)
  BY <1>3, <1>5, <1>6, <1>7, <1>8, <1>9, <1>10
<1> QED BY <1>3, <1>4, <1>8, <1>9, <1>11 DEF C

(* package_arguments changes nothing but the selection.                     *)
LEMMA PackageOthers ==
  ASSUME MembersNamed, NEW s, Regular(s), NEW q \in Seq(Members), Len(q) # 0
  PROVE  Others(package_arguments(s, q)) = Others(s)
<1> DEFINE P == KeptPlaces(s)
           N == Text \ PackageNames
           r == package_arguments(s, q)
<1>0. Listed(s)
  BY DEF Regular
<1>1. /\ P \subseteq Before(s) /\ Together(s, P) /\ Free(s) \subseteq P
      /\ \A i \in Before(s) : s[i].name # "" => (i \in P <=> s[i].name \notin PackageNames)
  BY KeptIs
<1>2. "" \in N
  BY EmptyText DEF PackageNames, PackageTakes
<1>3. \A i \in Before(s) : s[i].name # "" => (i \in P <=> s[i].name \in N)
  BY <1>0, <1>1, TextAt
<1>4. \A i \in Before(s) : Owner(s, i) \in N => i \in P
  <2> HIDE DEF P, N
  <2> QED BY <1>0, <1>1, <1>2, <1>3, OwnerPlaces
<1>5. PickedPlaces(s, OtherPicks) \subseteq P
  <2>1. \A i \in PickedPlaces(s, OtherPicks) : i \in Before(s) /\ <<Owner(s, i), s[i].value>> \in OtherPicks
    BY DEF PickedPlaces
  <2>2. \A i \in PickedPlaces(s, OtherPicks) : Owner(s, i) \in Text /\ Owner(s, i) \notin Rewritten
    BY <2>1, PicksAre
  <2> QED BY <2>1, <2>2, <1>4 DEF Rewritten
<1>6. PickedPlaces(s, ConfigPicks) \subseteq P
  <2>1. \A i \in PickedPlaces(s, ConfigPicks) : i \in Before(s) /\ <<Owner(s, i), s[i].value>> \in ConfigPicks
    BY DEF PickedPlaces
  <2>2. \A i \in PickedPlaces(s, ConfigPicks) : Owner(s, i) \in Text /\ Owner(s, i) = "--config"
    BY <2>1, PicksAre
  <2>3. "--config" \notin PackageNames
    BY DEF PackageNames, PackageTakes
  <2> QED BY <2>1, <2>2, <2>3, <1>4
<1>7. \A v : <<"--package", v>> \notin OtherPicks /\ <<"--package", v>> \notin ConfigPicks
  BY PicksAre DEF Rewritten, PackageNames, PackageTakes
<1> HIDE DEF P
<1>8. Picked(r, OtherPicks) = Picked(s, OtherPicks) /\ AfterDashes(r) = AfterDashes(s) /\ Listed(r)
  BY <1>5, <1>7, PackagePicks DEF P
<1>9. Picked(r, ConfigPicks) = Picked(s, ConfigPicks)
  BY <1>6, <1>7, PackagePicks DEF P
<1> HIDE DEF r
<1> QED BY <1>0, <1>8, <1>9, OthersAre DEF r

(* An argument that is no option.                                           *)
Nameless(w) == w.name = ""

(* A free word by itself: it is picked, and is no configuration.            *)
LEMMA WordPicked ==
  ASSUME NEW w \in Argument, Nameless(w)
  PROVE  LET u == <<w>>
         IN  /\ Listed(u) /\ DashFree(u) /\ 1 \in Free(u)
             /\ Picked(u, OtherPicks) = u /\ Picked(u, ConfigPicks) = <<>>
<1> DEFINE u == <<w>>
<1>1. u \in Seq(Argument) /\ Len(u) = 1 /\ DOMAIN u = {1} /\ u[1] = w
  OBVIOUS
<1>2. w # Dashes /\ ~Takes(CargoTakes, w)
  <2>1. Dashes.name = "--"
    BY Fields
  <2>2. ~Takes(CargoTakes, w)
    BY OptionTakes DEF Nameless
  <2> QED BY <2>1, <2>2 DEF Nameless
<1> HIDE DEF u
<1>3. DashFree(u)
  BY <1>1, <1>2 DEF DashFree
<1>4. Before(u) = {1}
  <2>1. Before(u) = 1 .. Len(u)
    BY <1>1, <1>3, DashFreeBefore
  <2>2. 1 .. 1 = {1}
    OBVIOUS
  <2> QED BY <1>1, <2>1, <2>2
<1>5. Listed(u)
  BY <1>1, <1>2, <1>4 DEF Listed, Valued, Arguments
<1>6. 1 \in Free(u)
  BY <1>1, <1>4, FreeAt DEF Nameless
<1>7. Owner(u, 1) = "" /\ u[1].value \in Text
  <2>1. 1 \in Before(u)
    BY <1>4
  <2>2. Owner(u, 1) = u[1].name
    BY <1>5, <1>6, <2>1, OwnerIs
  <2> QED BY <1>1, <1>5, <2>1, <2>2, TextAt DEF Nameless
<1>8. PickedPlaces(u, OtherPicks) = {1}
  <2>1. "" \notin Rewritten
    BY DEF Rewritten, PackageNames, PackageTakes
  <2>2. <<Owner(u, 1), u[1].value>> \in OtherPicks
    BY <1>7, <2>1, EmptyText, PicksAre
  <2> QED BY <1>4, <2>2 DEF PickedPlaces
<1>9. PickedPlaces(u, ConfigPicks) = {}
  <2>1. <<Owner(u, 1), u[1].value>> \notin ConfigPicks
    BY <1>7, PicksAre
  <2> QED BY <1>4, <2>1 DEF PickedPlaces
<1>10. At(u, DOMAIN u) = u /\ At(u, {}) = <<>>
  BY <1>1, AtAll
<1> QED BY <1>1, <1>3, <1>5, <1>6, <1>8, <1>9, <1>10 DEF Picked, u

(* x is e and then f.                                                       *)
Parts(x, e, f) ==
  /\ Len(x) = Len(e) + Len(f) /\ Len(e) \in Nat /\ Len(f) \in Nat
  /\ \A k \in 1 .. Len(e) : x[k] = e[k]
  /\ \A k \in 1 .. Len(f) : x[Len(e) + k] = f[k]

(* What is where in two lists, one after the other.                         *)
LEMMA ConcatIs ==
  ASSUME NEW S, NEW e \in Seq(S), NEW f \in Seq(S), NEW x, x = Chain(e, f)
  PROVE  x \in Seq(S) /\ Parts(x, e, f)
<1>1. x = e \o f
  BY DEF Chain
<1>2. x \in Seq(S) /\ Len(x) = Len(e) + Len(f) /\ Len(e) \in Nat /\ Len(f) \in Nat
  BY <1>1
<1>3. \A k \in 1 .. Len(e) : x[k] = e[k]
  BY <1>1
<1>4. \A k \in 1 .. Len(f) : x[Len(e) + k] = f[k]
  BY <1>1
<1> QED BY <1>2, <1>3, <1>4 DEF Parts

(* A list is what comes before the command, the command and what follows.   *)
LEMMA FirstSplit ==
  ASSUME NEW s, Regular(s), NEW i, First(s, i)
  PROVE  /\ s = Chain(SubSeq(s, 1, i - 1), Chain(<<s[i]>>, SubSeq(s, i + 1, Len(s))))
         /\ s[i] \in Argument /\ Nameless(s[i])
<1> DEFINE u == SubSeq(s, 1, i - 1)
           v == SubSeq(s, i + 1, Len(s))
           w == <<s[i]>>
           x == u \o (w \o v)
<1>1. s \in Seq(Argument) /\ Listed(s) /\ DOMAIN s = 1 .. Len(s) /\ Len(s) \in Nat
  BY DEF Regular, Listed, Arguments
<1>2. i \in 1 .. Len(s) /\ Nameless(s[i])
  <2>1. i \in Before(s) /\ Nameless(s[i])
    BY DEF First, Free, Nameless
  <2> QED BY <1>1, <2>1, Places
<1>3. s[i] \in Argument
  BY <1>1, <1>2
<1>4. /\ u \in Seq(Argument) /\ Len(u) = i - 1 /\ \A k \in 1 .. (i - 1) : u[k] = s[k]
      /\ v \in Seq(Argument) /\ Len(v) = Len(s) - i /\ \A k \in 1 .. (Len(s) - i) : v[k] = s[i + k]
  BY <1>1, <1>2, SubSeqIs DEF Arguments
<1>5. w \in Seq(Argument) /\ Len(w) = 1 /\ w[1] = s[i]
  BY <1>3
<1> HIDE DEF u, v, w
<1> DEFINE wv == w \o v
<1>6. /\ wv \in Seq(Argument) /\ Len(wv) = 1 + (Len(s) - i) /\ wv[1] = s[i]
      /\ \A k \in 1 .. (Len(s) - i) : wv[1 + k] = s[i + k]
  <2>1. wv = Chain(w, v)
    BY DEF Chain
  <2> HIDE DEF wv
  <2>2. wv \in Seq(Argument) /\ Parts(wv, w, v)
    BY <1>4, <1>5, <2>1, ConcatIs
  <2>3. 1 \in 1 .. Len(w)
    BY <1>5
  <2> QED BY <1>4, <1>5, <2>2, <2>3 DEF Parts
<1> HIDE DEF wv
<1> DEFINE y == u \o wv
<1>7. /\ y \in Seq(Argument) /\ Len(y) = Len(s)
      /\ \A k \in 1 .. (i - 1) : y[k] = s[k]
      /\ \A k \in 1 .. (1 + (Len(s) - i)) : y[(i - 1) + k] = wv[k]
  <2>1. y = Chain(u, wv)
    BY DEF Chain
  <2> HIDE DEF y
  <2>2. y \in Seq(Argument) /\ Parts(y, u, wv)
    BY <1>4, <1>6, <2>1, ConcatIs
  <2> QED BY <1>1, <1>2, <1>4, <1>6, <2>2 DEF Parts
<1> HIDE DEF y
<1>8. \A k \in 1 .. Len(s) : y[k] = s[k]
  <2> TAKE k \in 1 .. Len(s)
  <2>1. CASE k \in 1 .. (i - 1)
    BY <2>1, <1>7
  <2>2. CASE k = i
    <3>1. 1 \in 1 .. (1 + (Len(s) - i)) /\ (i - 1) + 1 = k
      BY <2>2, <1>1, <1>2
    <3> QED BY <3>1, <2>2, <1>6, <1>7
  <2>3. CASE k \notin 1 .. (i - 1) /\ k # i
    <3>1. k - i \in 1 .. (Len(s) - i) /\ i + (k - i) = k
      BY <2>3, <1>1, <1>2
    <3>2. 1 + (k - i) \in 1 .. (1 + (Len(s) - i)) /\ (i - 1) + (1 + (k - i)) = k
      BY <2>3, <1>1, <1>2
    <3>3. y[k] = wv[1 + (k - i)] /\ wv[1 + (k - i)] = s[i + (k - i)]
      BY <3>1, <3>2, <1>6, <1>7
    <3> QED BY <3>1, <3>3
  <2> QED BY <2>1, <2>2, <2>3
<1>9. y = s
  BY <1>1, <1>7, <1>8
<1> QED BY <1>2, <1>3, <1>9 DEF Chain, y, wv, u, v, w

(* Two lists split at the same place have the same parts.                   *)
LEMMA SameParts ==
  ASSUME NEW S, NEW e \in Seq(S), NEW f \in Seq(S), NEW g \in Seq(S), NEW h \in Seq(S),
         Chain(e, f) = Chain(g, h), Len(e) = Len(g)
  PROVE  e = g /\ f = h
<1> DEFINE x == e \o f
           z == g \o h
<1>1. x = z /\ x = Chain(e, f) /\ z = Chain(g, h)
  BY DEF Chain
<1> HIDE DEF x, z
<1>2. Parts(x, e, f) /\ Parts(z, g, h)
  BY <1>1, ConcatIs
<1>3. Len(f) = Len(h)
  BY <1>1, <1>2 DEF Parts
<1>4. \A k \in 1 .. Len(e) : e[k] = g[k]
  BY <1>1, <1>2 DEF Parts
<1>5. \A k \in 1 .. Len(f) : f[k] = h[k]
  BY <1>1, <1>2, <1>3 DEF Parts
<1>6. e = g
  BY <1>4
<1>7. f = h
  BY <1>3, <1>5
<1> QED BY <1>6, <1>7

(* The first free word divides a list in one way.                           *)
LEMMA OneSplit ==
  ASSUME NEW a, Listed(a), DashFree(a), Free(a) = {}, NEW w \in Argument, Nameless(w), NEW b, Listed(b),
         NEW c, Listed(c), DashFree(c), Free(c) = {}, NEW y \in Argument, Nameless(y), NEW d, Listed(d),
         Chain(a, Chain(<<w>>, b)) = Chain(c, Chain(<<y>>, d))
  PROVE  a = c /\ b = d
<1>1. ASSUME NEW e, Listed(e), DashFree(e), Free(e) = {}, NEW z \in Argument, Nameless(z), NEW f, Listed(f)
      PROVE  LET x == Chain(e, Chain(<<z>>, f))
             IN  Len(e) + 1 \in Free(x) /\ \A k \in Free(x) : Len(e) + 1 <= k
  <2> DEFINE g == <<z>> \o f
             x == e \o g
  <2>1. Listed(<<z>>) /\ DashFree(<<z>>) /\ 1 \in Free(<<z>>)
    BY <1>1, WordPicked
  <2>2. Listed(g) /\ 1 \in Free(g)
    BY <1>1, <2>1, ConcatListed, ConcatFree
  <2>3. \A k \in Free(g) : k \in Nat \ {0}
    BY <2>2, Places DEF Free
  <2> HIDE DEF g
  <2>4. /\ Len(e) + 1 \in Free(x)
        /\ \A k \in Free(x) : \E j \in Free(g) : k = Len(e) + j
    BY <1>1, <2>2, ConcatFree
  <2>5. Len(e) \in Nat
    BY <1>1 DEF Listed, Arguments
  <2> HIDE DEF x
  <2>6. \A k \in Free(x) : Len(e) + 1 <= k
    BY <2>3, <2>4, <2>5
  <2> QED BY <2>4, <2>6 DEF Chain, x, g
<1>2. Len(a) = Len(c)
  <2> DEFINE x == Chain(a, Chain(<<w>>, b))
  <2>1. Len(a) + 1 \in Free(x) /\ \A k \in Free(x) : Len(a) + 1 <= k
    BY <1>1
  <2>2. Len(c) + 1 \in Free(x) /\ \A k \in Free(x) : Len(c) + 1 <= k
    BY <1>1
  <2>3. Len(a) \in Nat /\ Len(c) \in Nat
    BY DEF Listed, Arguments
  <2> HIDE DEF x
  <2> QED BY <2>1, <2>2, <2>3
<1>3. /\ a \in Seq(Argument) /\ b \in Seq(Argument) /\ c \in Seq(Argument) /\ d \in Seq(Argument)
      /\ <<w>> \in Seq(Argument) /\ <<y>> \in Seq(Argument) /\ Len(<<w>>) = 1 /\ Len(<<y>>) = 1
  BY DEF Listed, Arguments
<1>5. Chain(<<w>>, b) \in Seq(Argument) /\ Chain(<<y>>, d) \in Seq(Argument)
  BY <1>3 DEF Chain
<1>6. a = c /\ Chain(<<w>>, b) = Chain(<<y>>, d)
  BY <1>2, <1>3, <1>5, SameParts
<1>7. b = d
  <2> DEFINE e == <<w>>
             g == <<y>>
  <2>1. e \in Seq(Argument) /\ g \in Seq(Argument) /\ Len(e) = Len(g) /\ Chain(e, b) = Chain(g, d)
    BY <1>3, <1>6
  <2> HIDE DEF e, g
  <2> QED BY <1>3, <2>1, SameParts
<1> QED BY <1>6, <1>7

(* No configuration is set in t.                                            *)
Configless(t) == \A m \in Units(t) : m[1] # "--config"

(* The other arguments are a list by themselves.                            *)
LEMMA OthersTogether ==
  ASSUME NEW s, Listed(s)
  PROVE  LET u == Picked(s, OtherPicks) IN Listed(u) /\ DashFree(u) /\ (Free(s) = {} => Free(u) = {})
<1> DEFINE P == PickedPlaces(s, OtherPicks)
<1>1. P \subseteq Before(s)
  BY DEF PickedPlaces
<1>2. \A i \in Before(s) : i \in P <=> Owner(s, i) \notin Rewritten
  <2>1. \A i \in Before(s) : <<Owner(s, i), s[i].value>> \in OtherPicks <=> Owner(s, i) \notin Rewritten
    BY TextAt, PicksAre
  <2> QED BY <2>1 DEF PickedPlaces
<1> HIDE DEF P
<1>3. Together(s, P)
  <2> SUFFICES ASSUME NEW i \in Before(s), Takes(CargoTakes, s[i]) PROVE i \in P <=> i + 1 \in P
    BY DEF Together
  <2>1. i + 1 \in Before(s)
    BY ValueAfter
  <2>2. Owner(s, i + 1) = Owner(s, i)
    BY OwnerIs
  <2> QED BY <1>2, <2>1, <2>2
<1>4. P \cap Free(s) = {} => Free(At(s, P)) = {}
  BY <1>1, <1>3, PickIs
<1>5. Listed(At(s, P)) /\ DashFree(At(s, P))
  BY <1>1, <1>3, PickIs
<1> QED BY <1>4, <1>5 DEF Picked, P

(* u and v are what is before and behind place i.                           *)
Around(s, i, u, v) == u = SubSeq(s, 1, i - 1) /\ v = SubSeq(s, i + 1, Len(s))
(* What is picked around the command, before and after its alias is         *)
(* expanded.                                                                *)
LEMMA SplicePicks ==
  ASSUME NEW s, Regular(s), NEW i, First(s, i), NEW t, Target(t), Configless(t),
         NEW u, NEW v, Around(s, i, u, v)
  PROVE  LET x == Splice(s, i, t) IN
         /\ Picked(s, OtherPicks) = Chain(Picked(u, OtherPicks), Chain(<<s[i]>>, Picked(v, OtherPicks)))
         /\ Picked(x, OtherPicks) = Chain(Picked(u, OtherPicks), Chain(Picked(t, OtherPicks), Picked(v, OtherPicks)))
         /\ Picked(x, ConfigPicks) = Picked(s, ConfigPicks)
         /\ AfterDashes(x) = AfterDashes(s)
<1> DEFINE w == <<s[i]>>
           wv == Chain(w, v)
           tv == Chain(t, v)
           x == Splice(s, i, t)
<1>0. u = SubSeq(s, 1, i - 1) /\ v = SubSeq(s, i + 1, Len(s))
  BY DEF Around
<1>1. Listed(u) /\ DashFree(u)
  BY <1>0, PrefixIs
<1>2. Listed(v)
  BY <1>0, SuffixIs
<1>3. s = Chain(u, wv) /\ s[i] \in Argument /\ Nameless(s[i])
  BY <1>0, FirstSplit
<1>4. Listed(w) /\ DashFree(w) /\ Picked(w, OtherPicks) = w /\ Picked(w, ConfigPicks) = <<>>
  BY <1>3, WordPicked
<1>5. Listed(t) /\ DashFree(t)
  BY DEF Target, Regular, Listed, DashFree
<1>6. x = Chain(u, tv)
  BY <1>0 DEF Splice, Chain
<1>7. Picked(t, ConfigPicks) = <<>>
  <2>3. ASSUME NEW y, y # "--config", NEW z PROVE <<y, z>> \notin ConfigPicks
    BY <2>3, PicksAre
  <2>1. \A m \in Units(t) : <<m[1], m[2]>> \notin ConfigPicks /\ <<m[1], "">> \notin ConfigPicks
    BY <2>3 DEF Configless
  <2>2. \A z : <<"", z>> \notin ConfigPicks
    BY <2>3
  <2> QED BY <1>5, <2>1, <2>2, NothingPicked
<1> HIDE DEF w
<1>8. /\ Listed(wv) /\ AfterDashes(wv) = AfterDashes(v)
      /\ \A D : Picked(wv, D) = Chain(Picked(w, D), Picked(v, D))
  BY <1>2, <1>4, JoinPicks
<1>9. /\ Listed(tv) /\ AfterDashes(tv) = AfterDashes(v)
      /\ \A D : Picked(tv, D) = Chain(Picked(t, D), Picked(v, D))
  BY <1>2, <1>5, JoinPicks
<1> HIDE DEF wv, tv
<1>10. AfterDashes(s) = AfterDashes(wv) /\ \A D : Picked(s, D) = Chain(Picked(u, D), Picked(wv, D))
  <2> DEFINE z == Chain(u, wv)
  <2>1. AfterDashes(z) = AfterDashes(wv) /\ \A D : Picked(z, D) = Chain(Picked(u, D), Picked(wv, D))
    BY <1>1, <1>8, JoinPicks
  <2>2. s = z
    BY <1>3
  <2> HIDE DEF z
  <2> QED BY <2>1, <2>2
<1>11. AfterDashes(x) = AfterDashes(tv) /\ \A D : Picked(x, D) = Chain(Picked(u, D), Picked(tv, D))
  <2> DEFINE z == Chain(u, tv)
  <2>1. AfterDashes(z) = AfterDashes(tv) /\ \A D : Picked(z, D) = Chain(Picked(u, D), Picked(tv, D))
    BY <1>1, <1>9, JoinPicks
  <2>2. x = z
    BY <1>6
  <2> HIDE DEF z, x
  <2> QED BY <2>1, <2>2
<1> HIDE DEF x
<1> QED BY <1>4, <1>7, <1>8, <1>9, <1>10, <1>11 DEF w, x

(* Two lists alike of which nothing but the selection and the patch differs *)
(* stay so when an alias is expanded in both.                               *)
Same(q, s) == Like(q, s) /\ Others(q) = Others(s)

(* The same other arguments, by what is picked.                             *)
LEMMA SameIs ==
  ASSUME NEW q, NEW s, Like(q, s)
  PROVE  Others(q) = Others(s) <=> /\ Picked(q, OtherPicks) = Picked(s, OtherPicks)
                                   /\ Picked(q, ConfigPicks) = Picked(s, ConfigPicks)
                                   /\ AfterDashes(q) = AfterDashes(s)
<1>1. Listed(q) /\ Listed(s)
  BY DEF Like, Regular
<1>2. /\ Others(q) = <<Picked(q, OtherPicks), Picked(q, ConfigPicks), AfterDashes(q)>>
      /\ Others(s) = <<Picked(s, OtherPicks), Picked(s, ConfigPicks), AfterDashes(s)>>
  BY <1>1, OthersAre
<1> QED BY <1>2

(* An alias without a configuration, expanded in both, keeps them the same. *)
LEMMA SameExpand ==
  ASSUME NEW q, NEW s, Same(q, s), NonEmpty(NextAlias(s)), NEW t, t = AliasOf(NextAlias(s)), Target(t), Configless(t)
  PROVE  Same(Expand(q), Expand(s))
<1>1. Like(q, s) /\ Regular(q) /\ Regular(s)
  BY DEF Same, Like
<1>2. Like(Expand(q), Expand(s))
  BY <1>1, LikeExpand
<1>3. NextAlias(q) = NextAlias(s)
  BY <1>1 DEF Like, NextAlias
<1> DEFINE i == command_index(q)
           k == command_index(s)
           x == Expand(q)
           y == Expand(s)
<1>4. x = Splice(q, i, t) /\ y = Splice(s, k, t)
  BY <1>3 DEF Expand, NonEmpty
<1>5. First(q, i) /\ First(s, k)
  <2>1. NonEmpty(operation(q)) /\ NonEmpty(operation(s))
    BY <1>3 DEF NextAlias, NonEmpty
  <2>2. Free(q) # {}
    <3>1. Free(q) = {} => operation(q) = ""
      BY <1>1, OperationIs
    <3> QED BY <2>1, <3>1 DEF NonEmpty
  <2>3. Free(s) # {}
    <3>1. Free(s) = {} => operation(s) = ""
      BY <1>1, OperationIs
    <3> QED BY <2>1, <3>1 DEF NonEmpty
  <2> QED BY <1>1, <2>2, <2>3, OperationIs
<1> DEFINE u == SubSeq(q, 1, i - 1)
           v == SubSeq(q, i + 1, Len(q))
           e == SubSeq(s, 1, k - 1)
           f == SubSeq(s, k + 1, Len(s))
           a == Picked(u, OtherPicks)
           b == Picked(v, OtherPicks)
           c == Picked(e, OtherPicks)
           d == Picked(f, OtherPicks)
           m == Picked(t, OtherPicks)
<1> HIDE DEF i, k, x, y
<1>0. Around(q, i, u, v) /\ Around(s, k, e, f)
  BY DEF Around
<1> HIDE DEF u, v, e, f
<1>6. /\ Picked(q, OtherPicks) = Chain(a, Chain(<<q[i]>>, b))
      /\ Picked(x, OtherPicks) = Chain(a, Chain(m, b))
      /\ Picked(x, ConfigPicks) = Picked(q, ConfigPicks)
      /\ AfterDashes(x) = AfterDashes(q)
  BY <1>0, <1>1, <1>4, <1>5, SplicePicks
<1>7. /\ Picked(s, OtherPicks) = Chain(c, Chain(<<s[k]>>, d))
      /\ Picked(y, OtherPicks) = Chain(c, Chain(m, d))
      /\ Picked(y, ConfigPicks) = Picked(s, ConfigPicks)
      /\ AfterDashes(y) = AfterDashes(s)
  BY <1>0, <1>1, <1>4, <1>5, SplicePicks
<1>8. Listed(a) /\ DashFree(a) /\ Free(a) = {} /\ Listed(b)
  <2>1. Listed(u) /\ Free(u) = {} /\ Listed(v)
    BY <1>1, <1>5, PrefixIs, SuffixIs DEF u, v, e, f
  <2> QED BY <2>1, OthersTogether
<1>9. Listed(c) /\ DashFree(c) /\ Free(c) = {} /\ Listed(d)
  <2>1. Listed(e) /\ Free(e) = {} /\ Listed(f)
    BY <1>1, <1>5, PrefixIs, SuffixIs DEF u, v, e, f
  <2> QED BY <2>1, OthersTogether
<1>10. q[i] \in Argument /\ Nameless(q[i]) /\ s[k] \in Argument /\ Nameless(s[k])
  BY <1>1, <1>5, FirstSplit
<1>11. /\ Picked(q, OtherPicks) = Picked(s, OtherPicks)
       /\ Picked(q, ConfigPicks) = Picked(s, ConfigPicks)
       /\ AfterDashes(q) = AfterDashes(s)
  BY <1>1, SameIs DEF Same
<1> HIDE DEF a, b, c, d, m
<1>12. a = c /\ b = d
  <2> DEFINE w == q[i]
             z == s[k]
  <2>1. Chain(a, Chain(<<w>>, b)) = Chain(c, Chain(<<z>>, d))
    BY <1>6, <1>7, <1>11
  <2>2. w \in Argument /\ Nameless(w) /\ z \in Argument /\ Nameless(z)
    BY <1>10
  <2> HIDE DEF w, z
  <2> QED BY <1>8, <1>9, <2>1, <2>2, OneSplit
<1>13. /\ Picked(x, OtherPicks) = Picked(y, OtherPicks)
       /\ Picked(x, ConfigPicks) = Picked(y, ConfigPicks)
       /\ AfterDashes(x) = AfterDashes(y)
  BY <1>6, <1>7, <1>11, <1>12
<1>14. Like(x, y)
  BY <1>2 DEF x, y
<1>15. Others(x) = Others(y)
  BY <1>13, <1>14, SameIs
<1> QED BY <1>14, <1>15 DEF Same, x, y

(* No alias that is named sets a configuration of its own.                  *)
PlainAliases == \A name \in AliasNames : Target(AliasOf(name)) => Configless(AliasOf(name))

(* A word on its own sets none.                                             *)
LEMMA WordConfigless ==
  ASSUME NEW w PROVE Configless(<<Word(w)>>)
<1> DEFINE t == <<Word(w)>>
<1>1. DOMAIN t = {1} /\ t[1] = Word(w) /\ Word(w).name = ""
  <2>1. \A a : DOMAIN <<a>> = {1} /\ <<a>>[1] = a
    OBVIOUS
  <2> QED BY <2>1 DEF Word
<1> HIDE DEF t
<1>3. \A i \in Before(t) : t[i].name = ""
  BY <1>1 DEF Before
<1>4. NamedAt(t, Before(t)) = {}
  BY <1>3 DEF NamedAt
<1>5. Units(t) = {}
  BY <1>4 DEF Units
<1> QED BY <1>5 DEF Configless, t

(* So does no alias that is expanded.                                       *)
LEMMA AliasConfigless ==
  ASSUME PlainAliases, NEW name, Target(AliasOf(name)) PROVE Configless(AliasOf(name))
<1>1. CASE name \in AliasNames
  BY <1>1 DEF PlainAliases
<1>2. CASE name \notin AliasNames
  <2>1. AliasOf(name) = DefaultAlias(name)
    BY <1>2 DEF AliasOf, AliasNames
  <2>2. DefaultAlias(name) = <<>> \/ \E w \in DefaultTargets : DefaultAlias(name) = <<Word(w)>>
    BY DEF DefaultAlias, DefaultTargets
  <2>3. AliasOf(name) # <<>>
    <3>1. Free(<<>>) = {}
      <4>1. DOMAIN <<>> = {}
        OBVIOUS
      <4>2. Before(<<>>) = {}
        BY <4>1 DEF Before
      <4> QED BY <4>2 DEF Free
    <3> QED BY <3>1 DEF Target
  <2>4. PICK w \in DefaultTargets : AliasOf(name) = <<Word(w)>>
    BY <2>1, <2>2, <2>3
  <2> QED BY <2>4, WordConfigless
<1> QED BY <1>1, <1>2

(* Expanded as far as telekio has, what differs from the user's arguments    *)
(* in nothing but the selection and the patch differs in nothing else.      *)
Continued == \A q : Same(q, arguments) => \E x : Expands(q, Cardinality(visited), x) /\ Same(x, expanded)

(* At first nothing is expanded.                                            *)
LEMMA ContinuedInit ==
  ASSUME CommandInit PROVE Continued
<1>1. expanded = arguments /\ Cardinality(visited) = 0
  BY FS_EmptySet DEF CommandInit
<1>2. \A q : Expands(q, 0, q)
  BY ExpandsNone
<1> QED BY <1>1, <1>2 DEF Continued

(* One alias more.                                                          *)
LEMMA ContinuedStep ==
  ASSUME PlainAliases, Lawful, ExpansionInv, Continued, ExpandAlias PROVE Continued'
<1> DEFINE name == NextAlias(expanded)
           t == AliasOf(name)
<1>1. /\ NonEmpty(name) /\ ~Refused(name) /\ visited' = visited \cup {name} /\ arguments' = arguments
      /\ expanded' = Splice(expanded, command_index(expanded), t)
  BY DEF ExpandAlias, NonEmpty, workspace
<1>2. expanded' = Expand(expanded)
  BY <1>1 DEF Expand, NonEmpty
<1>3. name \notin visited /\ t # <<>> /\ ~Shell(t)
  BY <1>1 DEF Refused, Recursive
<1>4. Target(t)
  BY <1>3, AliasTarget DEF Lawful
<1>5. Configless(t)
  BY <1>4, AliasConfigless
<1> HIDE DEF t, name
<1>6. Cardinality(visited) \in Nat /\ Cardinality(visited') = Cardinality(visited) + 1
  <2>1. IsFiniteSet(visited)
    BY DEF ExpansionInv, Bounded
  <2> QED BY <2>1, <1>1, <1>3, FS_AddElement, FS_CardinalityType
<1>7. ASSUME NEW q, Same(q, arguments)
      PROVE  \E x : Expands(q, Cardinality(visited) + 1, x) /\ Same(x, Expand(expanded))
  <2>1. PICK x : Expands(q, Cardinality(visited), x) /\ Same(x, expanded)
    BY <1>7 DEF Continued
  <2>2. Expands(q, Cardinality(visited) + 1, Expand(x))
    BY <1>6, <2>1, ExpandsMore
  <2>3. Same(Expand(x), Expand(expanded))
    BY <1>1, <1>4, <1>5, <2>1, SameExpand DEF t, name
  <2> QED BY <2>2, <2>3
<1> QED BY <1>1, <1>2, <1>6, <1>7 DEF Continued

(* And so it is once Cargo has expanded it.                                 *)
CargoSame == \A q : Same(q, arguments) => Same(CargoExpands(q), expanded)

(* Once there is no alias left Cargo has expanded what telekio has.         *)
LEMMA CargoSameIs ==
  ASSUME Lawful, Bounded, NoAlias, Continued PROVE CargoSame
<1> DEFINE n == Cardinality(visited)
<1>1. n \in Nat /\ n <= Cardinality(AliasNames) + 1 /\ IsFiniteSet(AliasNames)
  BY BoundedIs DEF Lawful
<1>2. ASSUME NEW q, operation(q) = operation(expanded) PROVE Expand(q) = q
  <2>1. NextAlias(q) = NextAlias(expanded)
    BY <1>2 DEF NextAlias
  <2> QED BY <2>1 DEF Expand, NoAlias
<1> HIDE DEF n
<1> SUFFICES ASSUME NEW q, Same(q, arguments) PROVE Same(CargoExpands(q), expanded)
  BY DEF CargoSame
<1>3. PICK x : Expands(q, n, x) /\ Same(x, expanded)
  BY DEF Continued, n
<1>4. Expand(x) = x
  BY <1>2, <1>3 DEF Same, Like
<1>5. CargoExpands(q) = x
  BY <1>1, <1>3, <1>4, CargoExpandsIs
<1> QED BY <1>3, <1>5

(* What the user asked of Cargo, and the commands that carry it out between  *)
(* them: one, or two of which neither builds what the other does.           *)
Asked == CargoExpands(arguments)
CarriesOne(a) ==
  CargoBuilds(Asked) => /\ CargoSelects(CargoExpands(a)) = CargoSelects(Asked)
                        /\ Others(CargoExpands(a)) = Others(Asked)
CarriesTwo(a, b) ==
  CargoBuilds(Asked) => /\ CargoSelects(CargoExpands(a)) \cup CargoSelects(CargoExpands(b)) = CargoSelects(Asked)
                        /\ CargoSelects(CargoExpands(a)) \cap CargoSelects(CargoExpands(b)) \cap Members = {}
                        /\ Others(CargoExpands(a)) = Others(Asked)
                        /\ Others(CargoExpands(b)) = Others(Asked)

(* The user's command with a patch is still the user's.                     *)
LEMMA PatchedCarries ==
  ASSUME Clear, CargoSame, Asked = expanded, NEW c \in Patches
  PROVE  CarriesOne(status(arguments, c))
<1> DEFINE q == status(arguments, c)
           y == CargoExpands(q)
<1>1. Regular(arguments) /\ Regular(expanded)
  BY DEF Clear
<1>2. Same(q, arguments)
  BY <1>1, StatusLike, StatusOthers DEF Same
<1> HIDE DEF q
<1>3. Same(y, expanded)
  BY <1>2 DEF CargoSame
<1> HIDE DEF y
<1>4. Like(y, expanded) /\ Others(y) = Others(expanded)
  BY <1>3 DEF Same
<1>5. CargoSelects(y) = selected_packages(expanded)
  BY <1>4, CargoReads
<1>6. CargoSelects(expanded) = selected_packages(expanded)
  BY <1>1, LikeItself, CargoReads
<1> QED BY <1>4, <1>5, <1>6 DEF CarriesOne, y, q

(* The user's command for each role builds no package of the workspace.     *)
LEMMA KeptCarries ==
  ASSUME Clear, Asked = expanded, ~SelectsGroups, KeepsGroups, NEW c \in Patches, NEW d \in Patches
  PROVE  CarriesTwo(status(expanded, c), status(expanded, d))
<1>1. Regular(expanded)
  BY DEF Clear
<1>2. ASSUME NEW b \in Patches
      PROVE  LET y == CargoExpands(status(expanded, b)) IN
             CargoSelects(y) = selected_packages(expanded) /\ Others(y) = Others(expanded)
  <2> DEFINE y == status(expanded, b)
  <2>1. Like(y, expanded) /\ Others(y) = Others(expanded)
    BY <1>1, StatusLike, StatusOthers
  <2> HIDE DEF y
  <2>2. CargoExpands(y) = y
    BY <2>1 DEF Like, Clear, CargoKeeps
  <2>3. CargoSelects(y) = selected_packages(expanded)
    BY <2>1, CargoReads
  <2> QED BY <2>1, <2>2, <2>3 DEF y
<1>3. CargoSelects(expanded) = selected_packages(expanded)
  BY <1>1, LikeItself, CargoReads
<1>4. ASSUME CargoBuilds(expanded), NEW p \in Members, p \in selected_packages(expanded) PROVE FALSE
  <2>1. package_selects_workspace(operation(expanded))
    BY <1>4 DEF CargoBuilds
  <2>2. workspace_selection(expanded)
    BY <1>4, <2>1, SelectedIs DEF Clear
  <2>3. kind(operation(expanded)) # "Packages"
    BY <2>2 DEF SelectsGroups
  <2>4. operation(expanded) # "tree"
    BY <2>3, OperationKinds
  <2>5. kind(operation(expanded)) = "Workspace"
    BY <2>4 DEF KeepsGroups
  <2> QED BY <2>1, <2>5 DEF package_selects_workspace
<1> QED BY <1>2, <1>3, <1>4 DEF CarriesTwo

(* telekio goes on after a failure with the packages of a role as it does    *)
(* with the user's.                                                         *)
LEMMA GoesOn ==
  ASSUME MembersNamed, NEW s, Regular(s), NEW o, Leads(s, o), NEW q \in Seq(Members), Len(q) # 0
  PROVE  KeepsGoing(package_arguments(s, q)) <=> KeepsGoing(s)
<1> DEFINE given == package_arguments(s, q)
<1>1. /\ Regular(given)
      /\ Units(given) = {m \in Units(s) : m[1] \notin PackageNames} \cup {<<"--package", q[k]>> : k \in 1 .. Len(q)}
  BY PackageArgumentsIs
<1>2. Listed(given) /\ Listed(s)
  BY <1>1 DEF Regular
<1> HIDE DEF given
<1>3. ASSUME NEW n, n \notin PackageNames, NonEmpty(n)
      PROVE  has_option(given, n) <=> has_option(s, n)
  <2>1. \A k \in 1 .. Len(q) : <<"--package", q[k]>>[1] = "--package"
    OBVIOUS
  <2>2. n # "--package"
    BY <1>3 DEF PackageNames, PackageTakes
  <2>3. (\E m \in Units(given) : m[1] = n) <=> \E m \in Units(s) : m[1] = n
    BY <1>1, <1>3, <2>1, <2>2
  <2> QED BY <1>2, <1>3, <2>3, OptionsAre
<1>4. /\ "--keep-going" \notin PackageNames /\ NonEmpty("--keep-going")
      /\ "--no-fail-fast" \notin PackageNames /\ NonEmpty("--no-fail-fast")
  BY DEF PackageNames, PackageTakes, NonEmpty
<1> QED BY <1>3, <1>4 DEF KeepsGoing, given

(* The command of a role builds its packages of the workspace.              *)
LEMMA GroupCarries ==
  ASSUME Clear, MembersNamed, SelectsGroups, NEW r, Group(expanded, r) # <<>>, NEW c \in Patches,
         NEW given, given = package_arguments(expanded, Group(expanded, r)),
         NEW y, y = CargoExpands(status(given, c))
  PROVE  /\ CargoSelects(y) = {p \in SelectedMembers(expanded) : package_role(p) = r}
         /\ Others(y) = Others(expanded)
         /\ KeepsGoing(given) <=> KeepsGoing(expanded)
<1> DEFINE q == Group(expanded, r)
           o == operation(expanded)
<1>3. /\ q \in Seq(Members) /\ Len(q) # 0
      /\ {q[k] : k \in 1 .. Len(q)} = {p \in SelectedMembers(expanded) : package_role(p) = r}
  BY GroupIs DEF Clear
<1>4. Regular(expanded) /\ kind(o) = "Packages"
  BY DEF Clear, SelectsGroups
<1>5. Leads(expanded, o)
  <2>1. Free(expanded) # {}
    <3> SUFFICES ASSUME Free(expanded) = {} PROVE FALSE
      OBVIOUS
    <3>1. o = ""
      BY <1>4, OperationIs
    <3>2. kind(o) = ""
      BY <3>1, OperationKinds
    <3> QED BY <3>2, <1>4
  <2> QED BY <1>4, <2>1, OperationIs
<1> HIDE DEF q, o
<1>0. given = package_arguments(expanded, q)
  BY DEF q
<1>6. Regular(given) /\ Leads(given, o)
  BY <1>0, <1>3, <1>4, <1>5, PackageArgumentsIs
<1>7. selected_packages(given) = {q[k] : k \in 1 .. Len(q)}
  BY <1>0, <1>3, <1>4, <1>5, GroupSelects
<1>8. operation(given) = o
  BY <1>6, OperationIs
<1>9. Like(status(given, c), given) /\ Others(status(given, c)) = Others(given)
  BY <1>6, StatusLike, StatusOthers
<1>10. Others(given) = Others(expanded)
  BY <1>0, <1>3, <1>4, PackageOthers
<1>11. y = status(given, c)
  <2>1. Regular(status(given, c)) /\ operation(status(given, c)) = operation(expanded)
    BY <1>8, <1>9 DEF Like, o
  <2>2. CargoExpands(status(given, c)) = status(given, c)
    BY <2>1 DEF Clear, CargoKeeps
  <2> QED BY <2>2
<1>12. CargoSelects(y) = selected_packages(given)
  BY <1>9, <1>11, CargoReads
<1>13. KeepsGoing(given) <=> KeepsGoing(expanded)
  BY <1>0, <1>3, <1>4, <1>5, GoesOn
<1> QED BY <1>3, <1>7, <1>9, <1>10, <1>11, <1>12, <1>13

(* telekio selects nothing outside of what Cargo does.                      *)
LEMMA SelectedAre ==
  ASSUME MembersOrNone, defaults \subseteq Members, workspace_selection(expanded)
  PROVE  SelectedMembers(expanded) = selected_packages(expanded)
<1> DEFINE X == expanded
           P == option_values(X, {"-p", "--package"})
           E == option_values(X, {"--exclude"})
<1>1. option_values(X, {"--package", "-p"}) = P
  <2>1. {"--package", "-p"} = {"-p", "--package"}
    OBVIOUS
  <2> QED BY <2>1
<1>2. selected_packages(X) = IF AllMembers(X) THEN Members \ E
                             ELSE IF E # {} THEN {} ELSE IF P # {} THEN P ELSE defaults
  BY <1>1 DEF selected_packages, Tree
<1> HIDE DEF P, E
<1>5. ByName(X) <=> package_selects_workspace(operation(X)) /\ (has_option(X, "--exclude") \/ P # {})
  BY DEF ByName, P
<1>6. ~has_option(X, "--exclude") => E = {}
  BY DEF has_option, option_values, E
<1>7. CASE ByName(X)
  BY <1>7 DEF SelectedMembers
<1>8. CASE ~ByName(X)
  <2>0. package_selects_workspace(operation(X))
    BY <1>8 DEF workspace_selection
  <2>1. E = {} /\ P = {}
    BY <1>5, <1>6, <1>8, <2>0
  <2>2. selected_packages(X) = IF AllMembers(X) THEN Members ELSE defaults
    BY <1>2, <2>1
  <2>3. SelectedMembers(X) = IF AllMembers(X) THEN Members ELSE defaults
    BY <1>8 DEF SelectedMembers
  <2> QED BY <2>2, <2>3
<1> QED BY <1>7, <1>8

(* Between them the commands of the roles build what the user asked for.    *)
LEMMA GroupsCarry ==
  ASSUME Clear, MembersNamed, Asked = expanded, SelectsGroups,
         Group(expanded, "Host") # <<>>, Group(expanded, "Guest") # <<>>,
         NEW c \in Patches, NEW d \in Patches
  PROVE  CarriesTwo(status(package_arguments(expanded, Group(expanded, "Host")), c),
                    status(package_arguments(expanded, Group(expanded, "Guest")), d))
<1> DEFINE a == CargoExpands(status(package_arguments(expanded, Group(expanded, "Host")), c))
           b == CargoExpands(status(package_arguments(expanded, Group(expanded, "Guest")), d))
           S == SelectedMembers(expanded)
<1>1. CargoSelects(a) = {p \in S : package_role(p) = "Host"} /\ Others(a) = Others(expanded)
  BY GroupCarries
<1>2. CargoSelects(b) = {p \in S : package_role(p) = "Guest"} /\ Others(b) = Others(expanded)
  BY GroupCarries
<1>3. CargoSelects(expanded) = S
  <2>1. CargoSelects(expanded) = selected_packages(expanded)
    BY LikeItself, CargoReads DEF Clear
  <2>2. workspace_selection(expanded)
    BY DEF SelectsGroups
  <2> QED BY <2>1, <2>2, SelectedAre DEF Clear
<1>4. \A p : package_role(p) = "Host" \/ package_role(p) = "Guest"
  BY DEF package_role
<1> HIDE DEF a, b, S
<1>5. CargoSelects(a) \cup CargoSelects(b) = CargoSelects(expanded)
  BY <1>1, <1>2, <1>3, <1>4
<1>6. CargoSelects(a) \cap CargoSelects(b) \cap Members = {}
  BY <1>1, <1>2
<1> QED BY <1>1, <1>2, <1>5, <1>6 DEF CarriesTwo, a, b

(* What was asked for depends on the workspace and nothing else.            *)
LEMMA CarriesFrozen ==
  ASSUME workspace' = workspace
  PROVE  /\ \A a : CarriesOne(a)' <=> CarriesOne(a)
         /\ \A a, b : CarriesTwo(a, b)' <=> CarriesTwo(a, b)
         /\ Asked' = Asked
<1>1. defaults' = defaults /\ arguments' = arguments
  BY DEF workspace
<1>2. \A g : CargoSelects(g)' = CargoSelects(g)
  BY <1>1 DEF CargoSelects, Tree
<1>3. Asked' = Asked
  BY <1>1 DEF Asked
<1>4. \A a : CarriesOne(a)' <=> CarriesOne(a)
  BY <1>2, <1>3 DEF CarriesOne
<1>5. \A a, b : CarriesTwo(a, b)' <=> CarriesTwo(a, b)
  BY <1>2, <1>3 DEF CarriesTwo
<1> QED BY <1>3, <1>4, <1>5

(* One command waits, or two, or the second of two that carry out what was   *)
(* asked between them.                                                      *)
OneWaits == \E i : todo = <<i>> /\ runs = <<>> /\ CarriesOne(Given(i))
TwoWait ==
  \E i, j : /\ todo = <<i, j>> /\ runs = <<>> /\ CarriesTwo(Given(i), Given(j))
            /\ KeepsGoing(i.arguments) <=> KeepsGoing(Asked)
SecondWaits == \E r, j : todo = <<j>> /\ runs = <<r>> /\ CarriesTwo(r.arguments, Given(j))
(* They have run, unless a failure ended it all.                            *)
CarriedOut ==
  \/ \E r : runs = <<r>> /\ CarriesOne(r.arguments)
  \/ \E r, t : runs = <<r, t>> /\ CarriesTwo(r.arguments, t.arguments)
  \/ exit = "failed" /\ ~KeepsGoing(Asked)

(* What is known of the request in each phase.                              *)
RequestInv ==
  /\ phase \in {"expanding", "interpreted"} => runs = <<>> /\ exit = "none"
  /\ phase \in {"preparing", "ready"} => exit = "none" /\ (OneWaits \/ TwoWait \/ SecondWaits)
  /\ exit \in {"ok", "failed"} => CarriedOut

(* One command that waits carries out what was asked after the step too,    *)
LEMMA OneWaitsIs ==
  ASSUME workspace' = workspace, NEW i, todo' = <<i>>, runs' = <<>>, CarriesOne(Given(i)) PROVE OneWaits'
<1>1. CarriesOne(Given(i))'
  BY CarriesFrozen
<1> QED BY <1>1 DEF OneWaits

(* and so do two.                                                           *)
LEMMA TwoWaitIs ==
  ASSUME workspace' = workspace, NEW i, NEW j, todo' = <<i, j>>, runs' = <<>>, CarriesTwo(Given(i), Given(j)),
         KeepsGoing(i.arguments) <=> KeepsGoing(Asked)
  PROVE  TwoWait'
<1>1. CarriesTwo(Given(i), Given(j))' /\ Asked' = Asked
  BY CarriesFrozen
<1>2. KeepsGoing(i.arguments) <=> KeepsGoing(Asked')
  BY <1>1
<1> QED BY <1>1, <1>2 DEF TwoWait

(* What telekio decides carries out what was asked.                         *)
LEMMA DecideStep ==
  ASSUME Lawful, Clear, CargoSame, Asked = expanded, runs = <<>>,
         PassThrough \/ InstallPackage \/ WithoutTokio \/ OneRole \/ TwoRoles
  PROVE  OneWaits' \/ TwoWait'
<1>1. workspace' = workspace /\ runs' = <<>>
  BY DEF PassThrough, InstallPackage, WithoutTokio, OneRole, TwoRoles, Run
<1>2. ASSUME PassThrough \/ WithoutTokio PROVE OneWaits'
  <2>1. todo' = <<Job(arguments, NoPatch, {})>>
    BY <1>2 DEF PassThrough, WithoutTokio, Run
  <2>2. Given(Job(arguments, NoPatch, {})) = arguments
    BY DEF Given, Job
  <2>3. CarriesOne(arguments)
    BY DEF CarriesOne, Asked
  <2> DEFINE i == Job(arguments, NoPatch, {})
  <2>4. todo' = <<i>> /\ CarriesOne(Given(i))
    BY <2>1, <2>2, <2>3
  <2> HIDE DEF i
  <2> QED BY <1>1, <2>4, OneWaitsIs
<1>3. ASSUME NEW c \in Patches, NEW S, c # NoPatch, todo' = <<Job(arguments, c, S)>> PROVE OneWaits'
  <2> DEFINE i == Job(arguments, c, S)
  <2>1. Given(i) = status(arguments, c)
    BY <1>3 DEF Given, Job
  <2>2. todo' = <<i>> /\ CarriesOne(Given(i))
    BY <1>3, <2>1, PatchedCarries
  <2> HIDE DEF i
  <2> QED BY <1>1, <2>2, OneWaitsIs
<1>4. ASSUME InstallPackage PROVE OneWaits'
  <2>1. todo' = <<Job(arguments, "host", {})>>
    BY <1>4 DEF InstallPackage, Run
  <2>2. "host" \in Patches /\ "host" # NoPatch
    BY DEF Patches, NoPatch
  <2> QED BY <1>3, <2>1, <2>2
<1>5. ASSUME OneRole PROVE OneWaits'
  <2>1. PICK r \in PackageRoles : todo' = <<Job(arguments, PatchOf(r, Mixed), ToSet(Group(expanded, r)))>>
    BY <1>5 DEF OneRole, Run
  <2>2. PatchOf(r, Mixed) \in Patches /\ PatchOf(r, Mixed) # NoPatch
    BY PatchOfIs
  <2> QED BY <1>3, <2>1, <2>2
<1>6. ASSUME TwoRoles PROVE TwoWait'
  <2> DEFINE i == GroupJob("Host", SelectsGroups)
             j == GroupJob("Guest", SelectsGroups)
  <2>1. /\ Group(expanded, "Host") # <<>> /\ Group(expanded, "Guest") # <<>>
        /\ SelectsGroups \/ KeepsGroups
        /\ todo' = <<i, j>>
    BY <1>6 DEF TwoRoles, Run, Host, Guest
  <2>2. \A r : PatchOf(r, TRUE) \in Patches
    BY PatchOfIs
  <2>3. CarriesTwo(Given(i), Given(j)) /\ (KeepsGoing(i.arguments) <=> KeepsGoing(Asked))
    <3>1. CASE SelectsGroups
      <4> DEFINE g == package_arguments(expanded, Group(expanded, "Host"))
                 h == package_arguments(expanded, Group(expanded, "Guest"))
      <4>0. SelectsGroups = TRUE
        BY <3>1 DEF SelectsGroups
      <4>1. i = GroupJob("Host", TRUE) /\ j = GroupJob("Guest", TRUE)
        BY <4>0
      <4>2. Given(i) = status(g, PatchOf("Host", TRUE)) /\ Given(j) = status(h, PatchOf("Guest", TRUE))
        BY <4>1, GroupJobIs
      <4>3. CarriesTwo(status(g, PatchOf("Host", TRUE)), status(h, PatchOf("Guest", TRUE)))
        BY <2>1, <2>2, <3>1, GroupsCarry DEF Lawful
      <4>4. i.arguments = g
        BY <4>1 DEF GroupJob, Job
      <4>5. KeepsGoing(g) <=> KeepsGoing(expanded)
        BY <2>1, <2>2, <3>1, GroupCarries DEF Lawful
      <4> HIDE DEF i, j, g, h
      <4> QED BY <4>2, <4>3, <4>4, <4>5
    <3>2. CASE ~SelectsGroups
      <4>0. SelectsGroups = FALSE
        BY <3>2 DEF SelectsGroups
      <4>1. i = GroupJob("Host", FALSE) /\ j = GroupJob("Guest", FALSE)
        BY <4>0
      <4>2. Given(i) = status(expanded, PatchOf("Host", TRUE)) /\ Given(j) = status(expanded, PatchOf("Guest", TRUE))
        BY <4>1, GroupJobIs
      <4>3. CarriesTwo(status(expanded, PatchOf("Host", TRUE)), status(expanded, PatchOf("Guest", TRUE)))
        BY <2>1, <2>2, <3>2, KeptCarries
      <4>4. i.arguments = expanded
        BY <4>1 DEF GroupJob, Job
      <4> HIDE DEF i, j
      <4> QED BY <4>2, <4>3, <4>4
    <3> QED BY <3>1, <3>2
  <2> HIDE DEF i, j
  <2> QED BY <1>1, <2>1, <2>3, TwoWaitIs
<1> QED BY <1>2, <1>4, <1>5, <1>6

(* One of the commands runs.                                                *)
LEMMA CarryStep ==
  ASSUME RequestInv, NEW succeeded \in BOOLEAN, RunCargo(succeeded) PROVE RequestInv'
<1>0. PICK e : e = [arguments |-> Given(Head(todo)), locked |-> locked, succeeded |-> succeeded]
  OBVIOUS
<1>1. /\ phase = "ready" /\ workspace' = workspace /\ todo' = Tail(todo)
      /\ runs' = Append(runs, e)
      /\ \/ /\ Tail(todo) = <<>> \/ (~succeeded /\ ~KeepsGoing(Head(todo).arguments))
            /\ phase' = "exited" /\ exit' = IF Failed(runs') THEN "failed" ELSE "ok"
         \/ /\ ~(Tail(todo) = <<>> \/ (~succeeded /\ ~KeepsGoing(Head(todo).arguments)))
            /\ phase' = "preparing" /\ exit' = exit
  BY <1>0 DEF RunCargo, Exit
<1>2. exit = "none" /\ (OneWaits \/ TwoWait \/ SecondWaits)
  BY <1>1 DEF RequestInv
<1>3. e.arguments = Given(Head(todo)) /\ e.succeeded = succeeded
  BY <1>0
<1>4. CASE OneWaits
  <2>1. PICK i : todo = <<i>> /\ runs = <<>> /\ CarriesOne(Given(i))
    BY <1>4 DEF OneWaits
  <2>2. Tail(todo) = <<>> /\ Head(todo) = i /\ runs' = <<e>>
    BY <1>1, <2>1
  <2>3. phase' = "exited"
    BY <1>1, <2>2
  <2>4. CarriesOne(e.arguments)'
    BY <1>1, <1>3, <2>1, <2>2, CarriesFrozen
  <2>5. CarriedOut'
    BY <2>2, <2>4 DEF CarriedOut
  <2> QED BY <2>3, <2>5 DEF RequestInv
<1>5. CASE SecondWaits
  <2>1. PICK r, j : todo = <<j>> /\ runs = <<r>> /\ CarriesTwo(r.arguments, Given(j))
    BY <1>5 DEF SecondWaits
  <2>2. Tail(todo) = <<>> /\ Head(todo) = j /\ runs' = <<r, e>>
    <3>1. ASSUME NEW x, NEW y PROVE Append(<<x>>, y) = <<x, y>>
      <4> DEFINE S == {x, y}
                 z == Append(<<x>>, y)
      <4>1. <<x>> \in Seq(S) /\ x \in S /\ y \in S /\ Len(<<x>>) = 1 /\ <<x>>[1] = x
        OBVIOUS
      <4>2. z \in Seq(S) /\ Len(z) = 2 /\ z[1] = x /\ z[2] = y
        <5> HIDE DEF S
        <5> QED BY <4>1
      <4>3. \A v \in Seq(S) : Len(v) = 2 => v = <<v[1], v[2]>>
        OBVIOUS
      <4> HIDE DEF S, z
      <4>4. z = <<x, y>>
        BY <4>2, <4>3
      <4> QED BY <4>4 DEF z
    <3> QED BY <1>1, <2>1, <3>1
  <2>3. phase' = "exited"
    BY <1>1, <2>2
  <2>4. CarriesTwo(r.arguments, e.arguments)'
    BY <1>1, <1>3, <2>1, <2>2, CarriesFrozen
  <2>5. CarriedOut'
    BY <2>2, <2>4 DEF CarriedOut
  <2> QED BY <2>3, <2>5 DEF RequestInv
<1>6. CASE TwoWait
  <2>1. PICK i, j : /\ todo = <<i, j>> /\ runs = <<>> /\ CarriesTwo(Given(i), Given(j))
                    /\ KeepsGoing(i.arguments) <=> KeepsGoing(Asked)
    BY <1>6 DEF TwoWait
  <2>2. Tail(todo) = <<j>> /\ <<j>> # <<>> /\ Head(todo) = i /\ runs' = <<e>> /\ todo' = <<j>>
    BY <1>1, <2>1
  <2>3. CASE phase' = "preparing"
    <3>1. exit' = "none"
      BY <1>1, <1>2, <2>3
    <3>2. CarriesTwo(e.arguments, Given(j))'
      BY <1>1, <1>3, <2>1, <2>2, CarriesFrozen
    <3>3. SecondWaits'
      BY <2>2, <3>2 DEF SecondWaits
    <3> QED BY <2>3, <3>1, <3>3 DEF RequestInv
  <2>4. CASE phase' # "preparing"
    <3>1. /\ ~succeeded /\ ~KeepsGoing(i.arguments)
          /\ phase' = "exited" /\ exit' = IF Failed(runs') THEN "failed" ELSE "ok"
      BY <1>1, <2>2, <2>4
    <3>2. Failed(runs')
      <4>1. runs' = <<e>> /\ ~e.succeeded
        BY <1>3, <2>2, <3>1
      <4>2. 1 \in DOMAIN runs' /\ runs'[1] = e
        BY <4>1
      <4> QED BY <4>1, <4>2 DEF Failed
    <3>3. Asked' = Asked
      BY <1>1, CarriesFrozen
    <3>4. exit' = "failed" /\ ~KeepsGoing(Asked')
      BY <2>1, <3>1, <3>2, <3>3
    <3>5. CarriedOut'
      BY <3>4 DEF CarriedOut
    <3> QED BY <3>1, <3>4, <3>5 DEF RequestInv
  <2> QED BY <2>3, <2>4
<1> QED BY <1>2, <1>4, <1>5, <1>6

(* At first nothing waits and nothing has run.                              *)
LEMMA RequestInit == CommandInit => RequestInv
BY DEF CommandInit, RequestInv

(* What is waiting and what has run, when neither moves.                    *)
LEMMA WaitsKept ==
  ASSUME workspace' = workspace, todo' = todo, runs' = runs
  PROVE  /\ OneWaits \/ TwoWait \/ SecondWaits => OneWaits' \/ TwoWait' \/ SecondWaits'
         /\ exit' = exit /\ CarriedOut => CarriedOut'
<1>1. OneWaits => OneWaits'
  BY OneWaitsIs DEF OneWaits
<1>2. TwoWait => TwoWait'
  BY TwoWaitIs DEF TwoWait
<1>3. SecondWaits => SecondWaits'
  BY CarriesFrozen DEF SecondWaits
<1>4. ASSUME exit' = exit, CarriedOut PROVE CarriedOut'
  <2>1. Asked' = Asked
    BY CarriesFrozen
  <2>2. exit = "failed" /\ ~KeepsGoing(Asked) => exit' = "failed" /\ ~KeepsGoing(Asked')
    BY <1>4, <2>1
  <2> QED BY <1>4, <2>2, CarriesFrozen DEF CarriedOut
<1> QED BY <1>1, <1>2, <1>3, <1>4

(* Every step keeps the invariant.                                          *)
LEMMA RequestStep ==
  ASSUME Lawful, CommandInv, Alike, Continued, MembersOrNone, RequestInv, [CommandNext]_commandVars
  PROVE  RequestInv'
<1>1. ASSUME ExpandAlias \/ Interpret PROVE RequestInv'
  <2>1. phase = "expanding" /\ phase' \in {"expanding", "interpreted"} /\ runs' = runs /\ exit' = exit
    BY <1>1 DEF ExpandAlias, Interpret
  <2> QED BY <2>1 DEF RequestInv
<1>2. ASSUME RefuseAlias \/ AskingFails \/ RefuseRoles PROVE RequestInv'
  <2>1. phase' = "exited" /\ exit' = "error"
    BY <1>2 DEF RefuseAlias, AskingFails, RefuseRoles, Exit
  <2> QED BY <2>1 DEF RequestInv
<1>3. ASSUME PassThrough \/ InstallPackage \/ WithoutTokio \/ OneRole \/ TwoRoles PROVE RequestInv'
  <2>1. phase = "interpreted" /\ phase' \in {"preparing", "ready"} /\ exit' = exit
    BY <1>3 DEF PassThrough, InstallPackage, WithoutTokio, OneRole, TwoRoles, Patched, Inspects, Run
  <2>2. runs = <<>> /\ exit = "none"
    BY <2>1 DEF RequestInv
  <2>3. Clear
    BY <2>1, InterpretedIs
  <2>4. CargoSame
    BY <2>1, CargoSameIs DEF Alike, ExpansionInv
  <2>5. Asked = expanded
    BY <2>1, AlikeExpands DEF Asked
  <2>6. OneWaits' \/ TwoWait'
    BY <1>3, <2>2, <2>3, <2>4, <2>5, DecideStep
  <2> QED BY <2>1, <2>2, <2>6 DEF RequestInv
<1>4. ASSUME PrepareGraph PROVE RequestInv'
  <2>1. /\ phase = "preparing" /\ phase' = "ready" /\ exit' = exit
        /\ workspace' = workspace /\ todo' = todo /\ runs' = runs
    BY <1>4 DEF PrepareGraph
  <2>2. exit = "none" /\ (OneWaits \/ TwoWait \/ SecondWaits)
    BY <2>1 DEF RequestInv
  <2>3. OneWaits' \/ TwoWait' \/ SecondWaits'
    BY <2>1, <2>2, WaitsKept
  <2> QED BY <2>1, <2>2, <2>3 DEF RequestInv
<1>5. ASSUME UNCHANGED commandVars PROVE RequestInv'
  <2>1. /\ workspace' = workspace /\ todo' = todo /\ runs' = runs /\ phase' = phase /\ exit' = exit
    BY <1>5 DEF commandVars
  <2> QED BY <2>1, WaitsKept DEF RequestInv
<1>6. CASE CommandNext
  BY <1>1, <1>2, <1>3, <1>4, <1>6, CarryStep DEF CommandNext
<1> QED BY <1>5, <1>6

(* What differs only in the selection and the patch keeps doing so.         *)
LEMMA ContinuedKept ==
  ASSUME PlainAliases, Lawful, ExpansionInv, Continued, [CommandNext]_commandVars PROVE Continued'
<1>1. CASE ExpandAlias
  BY <1>1, ContinuedStep
<1>2. CASE ~ExpandAlias
  <2>1. arguments' = arguments /\ expanded' = expanded /\ visited' = visited
    <3>1. ASSUME RefuseAlias \/ AskingFails \/ RefuseRoles \/ Interpret PROVE <2>1!:
      BY <3>1 DEF RefuseAlias, AskingFails, RefuseRoles, Interpret, Exit, workspace
    <3>2. ASSUME PassThrough \/ InstallPackage \/ WithoutTokio PROVE <2>1!:
      BY <3>2 DEF PassThrough, InstallPackage, WithoutTokio, Run, workspace
    <3>3. ASSUME OneRole \/ TwoRoles PROVE <2>1!:
      BY <3>3 DEF OneRole, TwoRoles, Run, workspace
    <3>4. ASSUME PrepareGraph \/ \E succeeded \in BOOLEAN : RunCargo(succeeded) PROVE <2>1!:
      BY <3>4 DEF PrepareGraph, RunCargo, Exit, workspace
    <3>5. ASSUME UNCHANGED commandVars PROVE <2>1!:
      BY <3>5 DEF commandVars, workspace
    <3> QED BY <1>2, <3>1, <3>2, <3>3, <3>4, <3>5 DEF CommandNext
  <2> QED BY <2>1 DEF Continued
<1> QED BY <1>1, <1>2

(* The invariant says what the property asks.                               *)
LEMMA CarriedWhole ==
  ASSUME CarriedOut \/ exit \notin {"ok", "failed"} PROVE WholeRequest
<1> DEFINE done == [k \in DOMAIN runs |-> CargoExpands(runs[k].arguments)]
           All == /\ UNION {CargoSelects(done[k]) : k \in DOMAIN runs} = CargoSelects(Asked)
                  /\ \A k, l \in DOMAIN runs :
                       k # l => CargoSelects(done[k]) \cap CargoSelects(done[l]) \cap Members = {}
                  /\ \A k \in DOMAIN runs : Others(done[k]) = Others(Asked)
<1>0. ((exit = "ok" \/ (exit = "failed" /\ KeepsGoing(Asked))) /\ CargoBuilds(Asked) => All) => WholeRequest
  BY DEF WholeRequest, Asked
<1> SUFFICES ASSUME CargoBuilds(Asked), exit = "ok" \/ (exit = "failed" /\ KeepsGoing(Asked))
             PROVE  All
  <2> HIDE DEF All
  <2> QED BY <1>0
<1> HIDE DEF done
<1>1. CASE \E r : runs = <<r>> /\ CarriesOne(r.arguments)
  <2>1. PICK r : runs = <<r>> /\ CarriesOne(r.arguments)
    BY <1>1
  <2>2. DOMAIN runs = {1} /\ runs[1] = r
    BY <2>1
  <2>3. done[1] = CargoExpands(r.arguments)
    BY <2>2 DEF done
  <2>4. CargoSelects(done[1]) = CargoSelects(Asked) /\ Others(done[1]) = Others(Asked)
    BY <2>1, <2>3 DEF CarriesOne
  <2> QED BY <2>2, <2>4
<1>2. CASE \E r, t : runs = <<r, t>> /\ CarriesTwo(r.arguments, t.arguments)
  <2>1. PICK r, t : runs = <<r, t>> /\ CarriesTwo(r.arguments, t.arguments)
    BY <1>2
  <2>2. DOMAIN runs = {1, 2} /\ runs[1] = r /\ runs[2] = t
    BY <2>1
  <2>3. done[1] = CargoExpands(r.arguments) /\ done[2] = CargoExpands(t.arguments)
    BY <2>2 DEF done
  <2>4. /\ CargoSelects(done[1]) \cup CargoSelects(done[2]) = CargoSelects(Asked)
        /\ CargoSelects(done[1]) \cap CargoSelects(done[2]) \cap Members = {}
        /\ Others(done[1]) = Others(Asked) /\ Others(done[2]) = Others(Asked)
    BY <2>1, <2>3 DEF CarriesTwo
  <2> QED BY <2>2, <2>4
<1> QED BY <1>1, <1>2 DEF CarriedOut

(* The whole request, all invariants together.                              *)
WholeInv == CommandInv /\ Alike /\ Continued /\ RequestInv

(* For any workspace, aliases that set no configuration and regular          *)
(* arguments: while telekio is at work, what waits and what has run carry out *)
(* together what the user asked for (cargo.rs:41-93, main.rs:105-147).        *)
THEOREM RequestInvariant ==
  ASSUME PlainAliases PROVE CommandSpec /\ []MembersOrNone => []WholeInv
<1>1. CommandInit => WholeInv
  BY LawfulIs, CommandInvInit, AlikeInit, ContinuedInit, RequestInit DEF WholeInv
<1>2. WholeInv /\ MembersOrNone /\ [CommandNext]_commandVars => WholeInv'
  <2> SUFFICES ASSUME WholeInv, MembersOrNone, [CommandNext]_commandVars PROVE WholeInv'
    OBVIOUS
  <2>1. CommandInv /\ Alike /\ Continued /\ RequestInv /\ Lawful /\ ExpansionInv
    BY LawfulIs DEF WholeInv, Alike
  <2>2. CommandInv' /\ Alike' /\ Continued' /\ RequestInv'
    BY <2>1, CommandInvStep, AlikeStep, ContinuedKept, RequestStep
  <2> QED BY <2>2 DEF WholeInv
<1> QED BY <1>1, <1>2, PTL DEF CommandSpec

(* When telekio ends well, or goes on after a failure as it was told, its    *)
(* commands have built every package the user asked for, none of the          *)
(* workspace twice, with all the other arguments in the user's order: as long *)
(* as no named alias sets a configuration of its own, which status would move  *)
(* the user's behind, and -p names packages of the workspace or none of them.  *)
THEOREM CommandsCarryOut ==
  ASSUME PlainAliases PROVE CommandSpec /\ []MembersOrNone => []WholeRequest
<1>1. WholeInv => WholeRequest
  BY CarriedWhole DEF WholeInv, RequestInv
<1> QED BY <1>1, RequestInvariant, PTL
===============================================================================
