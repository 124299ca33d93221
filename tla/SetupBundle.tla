----------------------------- MODULE SetupBundle ----------------------------
(***************************************************************************)
(* Setup bundles on disk (src/nativeproof/setup.go) and the commands that  *)
(* write and read them (cmd/lktrs-native/artifact.go): staged export,      *)
(* loading under a pin, and the public copy.                               *)
(*                                                                         *)
(* Commands run in processes of their own and interleave at every system   *)
(* call; a process may be killed and the machine may lose power at any of  *)
(* them; the operator may move a bundle away and have another published    *)
(* under its name while a command is reading it.                           *)
(*                                                                         *)
(* A setup is a number.  The content of a file is the number of the setup  *)
(* it belongs to, and so is a pin: the manifest digest names the manifest, *)
(* which names the digests of the other files.                             *)
(***************************************************************************)
EXTENDS Naturals, Sequences, Functions

CONSTANTS
  Procs,       \* command processes
  Dirs,        \* bundle directories, all under one parent directory
  MaxSetups    \* bound: setups generated

ASSUME BundleBound == MaxSetups \in Nat

Files == {"manifest", "params", "vk", "pk"}
Absent == [f \in Files |-> 0]     \* no such directory

VARIABLES
  made,      \* setups generated so far
  parent,    \* the parent directory: "absent", or its entry "unsynced" or "durable"
  disk,      \* what a directory shows: the setup each file belongs to, or 0
  durable,   \* what it shows after a power loss that leaves the parent there
  told,      \* the setup a command has reported as exported there, or 0
  lost,      \* directories whose report a power loss took away with the parent
  proc       \* the commands

tree == <<parent, disk, durable>>
reported == <<told, lost>>
vars == <<made, tree, reported, proc>>

Idle ==
  [at |-> "idle", dir |-> <<>>, src |-> <<>>, pin |-> 0, todo |-> <<>>, rest |-> <<>>,
   buf |-> Absent, tmp |-> Absent, synced |-> FALSE]

Init ==
  /\ made = 0
  /\ parent \in {"absent", "durable"}
  /\ disk = [d \in Dirs |-> Absent]
  /\ durable = [d \in Dirs |-> Absent]
  /\ told = [d \in Dirs |-> 0]
  /\ lost = {}
  /\ proc = [p \in Procs |-> Idle]

\* The order in which files are written and read.
SetupFiles == <<"params", "vk", "pk", "manifest">>
PublicFiles == <<"manifest", "params", "vk">>

Set(p, r) == proc' = [proc EXCEPT ![p] = r]

\* The command returns; RemoveAll takes its staging directory with it.
Return(p) == Set(p, Idle)

-----------------------------------------------------------------------------
(* Commands *)

\* setup: a new setup, to be exported to a directory that does not exist.
ExportSetup(p) ==
  /\ proc[p].at = "idle"
  /\ made < MaxSetups
  /\ \E d \in Dirs :
       /\ disk[d] = Absent
       /\ Set(p, [Idle EXCEPT !.at = "mkdir", !.dir = d, !.todo = SetupFiles,
                              !.buf = [f \in Files |-> made + 1]])
  /\ made' = made + 1
  /\ UNCHANGED <<tree, reported>>

\* loadSetup with the proving key (LoadSetup) or without it (LoadPublicSetup).
LoadSetup(p) ==
  /\ proc[p].at = "idle"
  /\ \E d \in Dirs, pin \in 1 .. made, names \in {PublicFiles, Append(PublicFiles, "pk")} :
       Set(p, [Idle EXCEPT !.at = "read", !.src = d, !.pin = pin, !.todo = names])
  /\ UNCHANGED <<made, tree, reported>>

\* ExportPublicSetup: load the public part, read it again, write the copy.
ExportPublicSetup(p) ==
  /\ proc[p].at = "idle"
  /\ \E s \in Dirs, d \in Dirs, pin \in 1 .. made :
       /\ s # d
       /\ Set(p, [Idle EXCEPT !.at = "read", !.src = s, !.dir = d, !.pin = pin,
                              !.todo = PublicFiles \o PublicFiles,
                              !.rest = PublicFiles])
  /\ UNCHANGED <<made, tree, reported>>

-----------------------------------------------------------------------------
(* Reading *)

\* readManifest holds the manifest against the pin, and what it reads names the
\* other files.
Expected(c, f) == IF f = "manifest" THEN c.pin ELSE c.buf["manifest"]

\* Mutant of readArtifact: the digest in the manifest is not compared.
readArtifactUnchecked(p) ==
  LET c == proc[p]
      f == Head(c.todo)
      got == disk[c.src][f]
  IN /\ c.at = "read" /\ c.todo # <<>>
     /\ IF got = 0 \/ (f = "manifest" /\ got # c.pin)
          THEN Return(p)
          ELSE Set(p, [c EXCEPT !.todo = Tail(@), !.buf[f] = got])
     /\ UNCHANGED <<made, tree, reported>>

\* readArtifact: a file that is missing or not the expected one is an error.
readArtifact(p) ==
  LET c == proc[p]
      f == Head(c.todo)
      got == disk[c.src][f]
  IN /\ c.at = "read" /\ c.todo # <<>>
     /\ IF got = 0 \/ got # Expected(c, f)
          THEN Return(p)
          ELSE Set(p, [c EXCEPT !.todo = Tail(@), !.buf[f] = got])
     /\ UNCHANGED <<made, tree, reported>>

\* Everything is read: a load has its setup, a public export goes on to newBundle,
\* which refuses an existing destination.
ReadDone(p) ==
  LET c == proc[p]
  IN /\ c.at = "read" /\ c.todo = <<>>
     /\ CASE c.rest = <<>> -> Set(p, [c EXCEPT !.at = "loaded", !.src = <<>>])
          [] c.rest # <<>> /\ disk[c.dir] # Absent -> Return(p)
          [] OTHER -> Set(p, [c EXCEPT !.at = "mkdir", !.todo = c.rest])
     /\ UNCHANGED <<made, tree, reported>>

Exit(p) ==
  /\ proc[p].at = "loaded"
  /\ Return(p)
  /\ UNCHANGED <<made, tree, reported>>

-----------------------------------------------------------------------------
(* Writing (newBundle) *)

\* os.MkdirAll(parent): a missing parent directory is made, and its own entry is
\* never synced.
MkdirAll(p) ==
  /\ proc[p].at = "mkdir"
  /\ parent' = IF parent = "absent" THEN "unsynced" ELSE parent
  /\ Set(p, [proc[p] EXCEPT !.at = "write"])
  /\ UNCHANGED <<made, disk, durable, reported>>

\* writeArtifact: a new file in the staging directory, written and synced.
writeArtifact(p) ==
  LET c == proc[p]
      f == Head(c.todo)
  IN /\ c.at = "write" /\ c.todo # <<>>
     /\ Set(p, [c EXCEPT !.todo = Tail(@), !.tmp[f] = c.buf[f]])
     /\ UNCHANGED <<made, tree, reported>>

\* Mutant of SyncStage: the staging directory itself is not synced.
SkipSync(p) ==
  /\ proc[p].at = "write" /\ proc[p].todo = <<>>
  /\ Set(p, [proc[p] EXCEPT !.at = "rename"])
  /\ UNCHANGED <<made, tree, reported>>

SyncStage(p) ==
  /\ proc[p].at = "write" /\ proc[p].todo = <<>>
  /\ Set(p, [proc[p] EXCEPT !.at = "rename", !.synced = TRUE])
  /\ UNCHANGED <<made, tree, reported>>

\* Mutant of Rename: success is reported without syncing the parent directory.
RenameOnly(p) ==
  LET c == proc[p]
  IN /\ c.at = "rename"
     /\ disk[c.dir] = Absent
     /\ disk' = [disk EXCEPT ![c.dir] = c.tmp]
     /\ told' = [told EXCEPT ![c.dir] = c.buf["manifest"]]
     /\ lost' = lost \ {c.dir}
     /\ Return(p)
     /\ UNCHANGED <<made, parent, durable>>

\* os.Rename: a directory that has appeared in the meantime is not empty, and the
\* rename fails.
Rename(p) ==
  LET c == proc[p]
  IN /\ c.at = "rename"
     /\ IF disk[c.dir] = Absent
          THEN /\ disk' = [disk EXCEPT ![c.dir] = c.tmp]
               /\ Set(p, [c EXCEPT !.at = "settle"])
          ELSE /\ Return(p)
               /\ UNCHANGED disk
     /\ UNCHANGED <<made, parent, durable, reported>>

\* The parent directory is synced and the command reports the pin.
SyncParent(p) ==
  LET c == proc[p]
  IN /\ c.at = "settle"
     /\ durable' = [durable EXCEPT ![c.dir] = disk[c.dir]]
     /\ IF disk[c.dir] = c.tmp
          THEN /\ told' = [told EXCEPT ![c.dir] = c.buf["manifest"]]
               /\ lost' = lost \ {c.dir}
          ELSE UNCHANGED reported
     /\ Return(p)
     /\ UNCHANGED <<made, parent, disk>>

\* A step of a command fails, or the process is killed (which leaves a staging
\* directory nobody looks at): the command reports nothing.
Fails(p) ==
  /\ proc[p].at \notin {"idle", "loaded"}
  /\ Return(p)
  /\ UNCHANGED <<made, tree, reported>>

-----------------------------------------------------------------------------
(* Surroundings *)

\* The operator moves a bundle away for good.
MoveAway(d) ==
  /\ disk[d] # Absent
  /\ disk' = [disk EXCEPT ![d] = Absent]
  /\ durable' = [durable EXCEPT ![d] = Absent]
  /\ told' = [told EXCEPT ![d] = 0]
  /\ lost' = lost \ {d}
  /\ UNCHANGED <<made, parent, proc>>

\* A bundle whose staging directory was renamed before it was synced.
Unsynced(d) ==
  \E p \in Procs : proc[p].at = "settle" /\ proc[p].dir = d /\ ~proc[p].synced

\* What a directory may show after a power loss: what was durable, what it showed
\* last or a state between them; an unsynced bundle may have lost files.
Survivors(d) ==
  {durable[d], disk[d]}
    \cup (IF durable[d] = disk[d] THEN {} ELSE {Absent})
    \cup (IF Unsynced(d)
            THEN {[f \in Files |-> IF f \in gone THEN 0 ELSE disk[d][f]] : gone \in SUBSET Files}
            ELSE {})

Crash ==
  /\ durable' = disk'
  /\ proc' = [p \in Procs |-> Idle]
  /\ UNCHANGED <<made, told>>

PowerLoss ==
  /\ parent' = IF parent = "unsynced" THEN "durable" ELSE parent
  /\ disk' \in {s \in [Dirs -> UNION {Survivors(d) : d \in Dirs}] :
                  \A d \in Dirs : s[d] \in Survivors(d)}
  /\ Crash
  /\ UNCHANGED lost

\* A power loss takes away a parent directory whose entry was never synced, with
\* everything below it.
ParentLoss ==
  /\ parent = "unsynced"
  /\ parent' = "absent"
  /\ disk' = [d \in Dirs |-> Absent]
  /\ lost' = {d \in Dirs : told[d] # 0}
  /\ Crash

Next ==
  \/ \E p \in Procs :
       \/ ExportSetup(p) \/ LoadSetup(p) \/ ExportPublicSetup(p)
       \/ readArtifact(p) \/ ReadDone(p) \/ Exit(p)
       \/ MkdirAll(p) \/ writeArtifact(p) \/ SyncStage(p) \/ Rename(p) \/ SyncParent(p)
       \/ Fails(p)
  \/ \E d \in Dirs : MoveAway(d)
  \/ PowerLoss
  \/ ParentLoss

Spec == Init /\ [][Next]_vars

-----------------------------------------------------------------------------
(* Properties *)

\* The files of one setup, with the proving key or without it.
Bundle(g, names) == [f \in Files |-> IF f \in names THEN g ELSE 0]

\* newBundle publishes by rename: at no time, and after no crash or power loss, does
\* a directory show some of a bundle's files, or files of two setups.
WholeOrAbsent ==
  \A d \in Dirs :
    disk[d] \in {Absent} \cup {Bundle(g, names) : g \in 1 .. made,
                                                  names \in {Range(SetupFiles), Range(PublicFiles)}}

\* Every file a command has loaded, and every file of a public copy it writes, is
\* of the pinned setup, although the directory may have been replaced by another
\* bundle between any two reads (readArtifact, and the second reading of
\* ExportPublicSetup).
LoadedIsPinned ==
  \A p \in Procs :
    proc[p].pin # 0 /\ proc[p].at # "read"
      => \A f \in Range(PublicFiles) \cup {"pk"} :
           \/ proc[p].buf[f] = proc[p].pin
           \/ f = "pk" /\ proc[p].buf[f] = 0

\* A pin that was printed names a bundle that is still there after every crash and
\* power loss, as long as nobody moves it away: ExportSetup returns only after the
\* parent directory is synced.  The one way to lose it is together with the parent
\* directory, when newBundle itself had made that directory (setup.go:197) and no
\* power loss has left it there since.
ReportedSurvives ==
  \A d \in Dirs : told[d] # 0 => disk[d]["manifest"] = told[d] \/ d \in lost
=============================================================================
