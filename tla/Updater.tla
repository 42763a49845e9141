------------------------------ MODULE Updater -------------------------------
(***************************************************************************)
(* speechmesh self-update and auto-update: updater processes that compare  *)
(* their own version with the published one, download it, and swap it in   *)
(* through a temporary file and a backup next to the binary.  Files are    *)
(* inodes, because a process that has the temporary file open keeps        *)
(* writing to it after another one has renamed it.                         *)
(***************************************************************************)
EXTENDS Naturals, FiniteSets

CONSTANTS
  Proc,       \* updater processes (a timer's, a loop's, an operator's)
  MaxVersion, \* bound: versions published, numbered from 1
  MaxCrashes, \* bound: kills and power failures
  MaxFaults   \* bound: failing file operations and restarts

ASSUME UpdaterAssumption ==
  /\ MaxVersion \in Nat \ {0}
  /\ MaxCrashes \in Nat /\ MaxFaults \in Nat

VARIABLES
  file,     \* directory entries: target, temp and prev; 0 when absent
  data,     \* per inode: the version it is a whole binary of, or 0
  manifest, \* the published version
  pc,       \* per process: the next step of its cycle
  ver,      \* per process: its APP_VERSION
  rel,      \* per process: the release it resolved, and downloaded
  fd,       \* per process: the inode it is writing, or 0
  crashes, faults

vars == <<file, data, manifest, pc, ver, rel, fd, crashes, faults>>

Inode == 1..(Cardinality(Proc) + 3)
Version == 1..MaxVersion
Step == {"idle", "check", "plan", "download", "write", "writing", "perms",
         "clean", "backup", "install", "restart", "failed", "applied"}

(* Every variable holds a value of its type; a process writes to a file only
   while it is at that step. *)
TypeOK ==
  /\ file \in [{"target", "temp", "prev"} -> {0} \cup Inode]
  /\ data \in [Inode -> {0} \cup Version]
  /\ manifest \in Version
  /\ pc \in [Proc -> Step]
  /\ ver \in [Proc -> Version]
  /\ rel \in [Proc -> Version]
  /\ fd \in [Proc -> {0} \cup Inode]
  /\ \A p \in Proc : fd[p] # 0 <=> pc[p] = "writing"
  /\ crashes \in 0..MaxCrashes /\ faults \in 0..MaxFaults

\* A file that is there and is a whole binary.
Whole(name) == file[name] # 0 /\ data[file[name]] # 0
VersionOf(name) == data[file[name]]

Free == {i \in Inode : (\A n \in DOMAIN file : file[n] # i) /\ \A p \in Proc : fd[p] # i}

Init ==
  /\ file = [n \in {"target", "temp", "prev"} |-> IF n = "target" THEN 1 ELSE 0]
  /\ data = [i \in Inode |-> IF i = 1 THEN 1 ELSE 0]
  /\ manifest = 1
  /\ pc = [p \in Proc |-> "idle"]
  /\ ver = [p \in Proc |-> 1]
  /\ rel = [p \in Proc |-> 1]
  /\ fd = [p \in Proc |-> 0]
  /\ crashes = 0 /\ faults = 0

Goto(p, step) == pc' = [pc EXCEPT ![p] = step]

Fault(p, step) == faults < MaxFaults /\ faults' = faults + 1 /\ Goto(p, step)

-----------------------------------------------------------------------------
(* Faulty variants of definitions below.  No specification uses them; each is *)
(* a plausible slip that one of the properties exists to exclude.             *)

\* The new binary is written over the old one.
OpenInPlace(p) ==
  /\ pc[p] = "write"
  /\ fd' = [fd EXCEPT ![p] = file["target"]]
  /\ file' = [file EXCEPT !["temp"] = file["target"]]
  /\ data' = [data EXCEPT ![fd'[p]] = 0]
  /\ Goto(p, "writing")
  /\ UNCHANGED <<manifest, ver, rel, crashes, faults>>

\* The old binary is removed instead of being kept.
BackUpRemoves(p) ==
  /\ pc[p] = "backup"
  /\ file' = [file EXCEPT !["target"] = 0]
  /\ Goto(p, "install")
  /\ UNCHANGED <<data, manifest, ver, rel, fd, crashes, faults>>

\* A failed rename is undone, but not reported.
InstallQuietly(p) ==
  /\ pc[p] = "install"
  /\ \/ /\ file' = [file EXCEPT !["target"] = file["temp"], !["temp"] = 0]
        /\ Goto(p, "restart") /\ UNCHANGED faults
     \/ /\ file' = [file EXCEPT !["target"] = file["prev"], !["prev"] = 0]
        /\ Fault(p, "restart")
  /\ UNCHANGED <<data, manifest, ver, rel, fd, crashes>>

\* A process that could not apply its update does not try again.
EndCycleForGood(p) ==
  /\ pc[p] = "applied"
  /\ Goto(p, "idle")
  /\ UNCHANGED <<file, data, manifest, ver, rel, fd, crashes, faults>>

-----------------------------------------------------------------------------
\* A release is published; versions only go up.
Publish ==
  /\ manifest < MaxVersion
  /\ manifest' = manifest + 1
  /\ UNCHANGED <<file, data, pc, ver, rel, fd, crashes, faults>>

\* The binary is run: its version is compiled in.
Start(p) ==
  /\ pc[p] = "idle" /\ Whole("target")
  /\ ver' = [ver EXCEPT ![p] = VersionOf("target")]
  /\ Goto(p, "check")
  /\ UNCHANGED <<file, data, manifest, rel, fd, crashes, faults>>

\* run_auto_update_cycle: the manifest is fetched and compared.  The manifest
\* may be unreachable.
Check(p) ==
  /\ pc[p] = "check"
  /\ \/ manifest > ver[p] /\ Goto(p, "plan")
     \/ Goto(p, "failed")
  /\ UNCHANGED <<file, data, manifest, ver, rel, fd, crashes, faults>>

\* execute_self_update fetches and compares it again, and downloads; a digest
\* that does not match the bytes is an error.
Plan(p) ==
  /\ pc[p] = "plan"
  /\ \/ /\ manifest > ver[p]
        /\ rel' = [rel EXCEPT ![p] = manifest]
        /\ Goto(p, "download")
     \/ Goto(p, "failed") /\ UNCHANGED rel
  /\ UNCHANGED <<file, data, manifest, ver, fd, crashes, faults>>

Download(p) ==
  /\ pc[p] = "download"
  /\ Goto(p, "write") \/ Goto(p, "failed")
  /\ UNCHANGED <<file, data, manifest, ver, rel, fd, crashes, faults>>

\* replace_binary: fs::write truncates the temporary file, or creates it...
OpenTemp(p) ==
  /\ pc[p] = "write"
  /\ \E i \in IF file["temp"] # 0 THEN {file["temp"]} ELSE {CHOOSE j \in Free : TRUE} :
       /\ fd' = [fd EXCEPT ![p] = i]
       /\ file' = [file EXCEPT !["temp"] = i]
       /\ data' = [data EXCEPT ![i] = 0]
  /\ Goto(p, "writing")
  /\ UNCHANGED <<manifest, ver, rel, crashes, faults>>

\* ... and fills it, or fails half-way.
WriteTemp(p) ==
  /\ pc[p] = "writing"
  /\ fd' = [fd EXCEPT ![p] = 0]
  /\ \/ /\ data' = [data EXCEPT ![fd[p]] = rel[p]]
        /\ Goto(p, "perms") /\ UNCHANGED faults
     \/ Fault(p, "failed") /\ UNCHANGED data
  /\ UNCHANGED <<file, manifest, ver, rel, crashes>>

\* copy_permissions needs both files.
CopyPermissions(p) ==
  /\ pc[p] = "perms"
  /\ \/ file["target"] # 0 /\ file["temp"] # 0 /\ Goto(p, "clean") /\ UNCHANGED faults
     \/ (file["target"] = 0 \/ file["temp"] = 0) /\ Goto(p, "failed") /\ UNCHANGED faults
     \/ Fault(p, "failed")
  /\ UNCHANGED <<file, data, manifest, ver, rel, fd, crashes>>

\* The old backup is removed.
RemovePrev(p) ==
  /\ pc[p] = "clean"
  /\ \/ file' = [file EXCEPT !["prev"] = 0] /\ Goto(p, "backup") /\ UNCHANGED faults
     \/ Fault(p, "failed") /\ UNCHANGED file
  /\ UNCHANGED <<data, manifest, ver, rel, fd, crashes>>

\* fs::rename(target, backup)
BackUp(p) ==
  /\ pc[p] = "backup"
  /\ \/ /\ file["target"] # 0
        /\ file' = [file EXCEPT !["prev"] = file["target"], !["target"] = 0]
        /\ Goto(p, "install") /\ UNCHANGED faults
     \/ file["target"] = 0 /\ Goto(p, "failed") /\ UNCHANGED <<file, faults>>
     \/ Fault(p, "failed") /\ UNCHANGED file
  /\ UNCHANGED <<data, manifest, ver, rel, fd, crashes>>

\* The backup goes back to its place, if it is there.
Restored == [file EXCEPT !["target"] = IF file["prev"] # 0 THEN file["prev"] ELSE @,
                         !["prev"] = 0]

\* fs::rename(temp, target); when it fails the backup is put back.
Install(p) ==
  /\ pc[p] = "install"
  /\ \/ /\ file["temp"] # 0
        /\ file' = [file EXCEPT !["target"] = file["temp"], !["temp"] = 0]
        /\ Goto(p, "restart") /\ UNCHANGED faults
     \/ file["temp"] = 0 /\ file' = Restored /\ Goto(p, "failed") /\ UNCHANGED faults
     \/ file' \in {Restored, file} /\ Fault(p, "failed")
  /\ UNCHANGED <<data, manifest, ver, rel, fd, crashes>>

\* restart_managed_service, or no restart asked for; an error of the restart is
\* an error of the update.
Restart(p) ==
  /\ pc[p] = "restart"
  /\ \/ Goto(p, "applied") /\ UNCHANGED faults
     \/ Fault(p, "failed")
  /\ UNCHANGED <<file, data, manifest, ver, rel, fd, crashes>>

\* The report is written; after an update, or with --once, the process exits,
\* otherwise it sleeps and checks again.
EndCycle(p) ==
  /\ \/ pc[p] = "applied" /\ Goto(p, "idle")
     \/ pc[p] = "failed" /\ (Goto(p, "idle") \/ Goto(p, "check"))
  /\ UNCHANGED <<file, data, manifest, ver, rel, fd, crashes, faults>>

Crash(p) ==
  /\ crashes < MaxCrashes
  /\ pc[p] # "idle"
  /\ crashes' = crashes + 1
  /\ Goto(p, "idle")
  /\ fd' = [fd EXCEPT ![p] = 0]
  /\ UNCHANGED <<file, data, manifest, ver, rel, faults>>

-----------------------------------------------------------------------------
Cycle(p) ==
  \/ Start(p) \/ Check(p) \/ Plan(p) \/ Download(p)
  \/ OpenTemp(p) \/ WriteTemp(p) \/ CopyPermissions(p)
  \/ RemovePrev(p) \/ BackUp(p) \/ Install(p) \/ Restart(p)
  \/ EndCycle(p)

Next == Publish \/ \E p \in Proc : Cycle(p) \/ Crash(p)

Spec == Init /\ [][Next]_vars

\* An updater is run again and again, and what it fetches is reachable from
\* time to time.
FairSpec ==
  /\ Spec
  /\ \A p \in Proc :
       /\ WF_vars(Cycle(p))
       /\ SF_vars(Check(p) /\ pc'[p] = "plan")
       /\ SF_vars(Plan(p) /\ pc'[p] = "download")
       /\ SF_vars(Download(p) /\ pc'[p] = "write")

-----------------------------------------------------------------------------
(* Whatever is under the binary's name can be run: a write that was cut short,
   by an error or a crash, never shows there. *)
NeverTorn == file["target"] # 0 => Whole("target")

(* Whenever an updater dies or gives up, one whole binary is left, under its
   name or as the backup, from which an operator can recover. *)
SomethingToRun == Whole("target") \/ Whole("prev")

(* "After replacing the binary, exit so process supervisors can restart from
   the new binary" (main.rs:475): an updater that reports an update leaves a
   newer binary than its own. *)
AppliedIsNewer ==
  \A p \in Proc : pc[p] = "applied" => Whole("target") /\ VersionOf("target") > ver[p]

(* The published version is installed in the end, however often the manifest or
   the download cannot be had, whatever is published meanwhile, and also after
   crashes and failing file operations, unless one of them fell between the
   two renames and left nothing under the binary's name. *)
UpdatesArrive ==
  []<>(file["target"] # 0) => <>[](Whole("target") /\ VersionOf("target") = manifest)
=============================================================================
