----------------------------- MODULE Installer ------------------------------
(***************************************************************************)
(* install_assets() of nap_install.py: `nap update`, `nap mcp install` and *)
(* the bootstrap, run by several processes that share INSTALL_DIR.  A      *)
(* release is staged, verified, moved to its final name, and then the      *)
(* paths that users run are turned, one by one, into links through         *)
(* `current`, which is switched last.  A process may die between any two   *)
(* file operations; the service may publish another release meanwhile.     *)
(***************************************************************************)
EXTENDS Naturals, Sequences, FiniteSets

CONSTANTS
    Installer,    \* processes; each runs install_assets() once
    Path,         \* the paths of an installation, without `current`
    LinkOrder,    \* the order in which activate_release() links them
    Assets,       \* how many files SCRIPT_NAMES has
    Releases,     \* bound: releases that are published one after the other
    TooNew,       \* releases whose contract this installer does not support
    MaxCrashes,   \* bound: processes that die
    MaxDamage     \* bound: releases on disk that lose or change a file

ASSUME InstallerAssumption ==
    /\ Path # {}
    /\ LinkOrder \in Seq(Path) /\ {LinkOrder[i] : i \in 1 .. Len(LinkOrder)} = Path
    /\ Assets \in Nat \ {0}
    /\ Releases \in Nat \ {0} /\ TooNew \subseteq 1 .. Releases
    /\ MaxCrashes \in Nat /\ MaxDamage \in Nat
    /\ "nobody" \notin Installer

Release == 1 .. Releases
None == 0

VARIABLES
    lock,       \* .install.lock: absent, or who created it and whether a pid is in it
    pc,         \* where a process is in install_assets()
    want,       \* the release of the manifest it read
    staging,    \* the files in its staging directory, each by its version
    at,         \* the path it links next, an index of LinkOrder
    link,       \* what is at a path: nothing, a file of the old layout, a link
    backup,     \* what is at <path>.pre-bundle
    release,    \* the files of the directories releases/<name>; <<>>: it is not there
    current,    \* where the link `current` points
    published,  \* the release that the service distributes
    crashes, damage,
    spoiled,    \* history: the releases that were damaged when in use or verified
    stolen      \* history: the lock of a running process has been unlinked

process == <<pc, want, staging, at>>
disk == <<link, backup, release, current>>
world == <<published, crashes, damage, spoiled>>
installerVars == <<lock, process, disk, world, stolen>>

\* A version of a file is the release it was published with; None is a file that
\* was lost or edited.
File == Release \cup {None}

\* A release directory with every file of SCRIPT_NAMES, each as published.
Whole(r) == [i \in 1 .. Assets |-> r]

NoLock == [by |-> "nobody", pid |-> FALSE]

\* Places inside `with installation_lock()`; "leave" is its finally clause.
Section == {"manifest", "fetch", "place", "move", "verify", "preserve",
            "rename", "symlink", "switch", "undo", "leave"}

\* Places between validate_release_hashes() and the switch.
Activating == {"preserve", "rename", "symlink", "switch"}

Place == {"start", "owner", "unlink", "again", "pid", "done", "failed", "dead"}
             \cup Section

InstallerTypeOK ==
    /\ lock \in [by : Installer, pid : BOOLEAN] \cup {NoLock}
    /\ pc \in [Installer -> Place]
    /\ want \in [Installer -> Release \cup {None}]
    /\ staging \in [Installer -> Seq(File)]
    /\ at \in [Installer -> 1 .. Len(LinkOrder) + 1]
    /\ link \in [Path -> {"none", "legacy", "link"}]
    /\ backup \in [Path -> {"none", "legacy", "link"}]
    /\ release \in [Release -> Seq(File)]
    /\ current \in Release \cup {None}
    /\ published \in Release
    /\ crashes \in 0 .. MaxCrashes
    /\ damage \in 0 .. MaxDamage
    /\ spoiled \subseteq Release
    /\ stolen \in BOOLEAN

\* Nothing is installed, or the files of a version before the bundles are, or
\* the first release is.
InstallerInit ==
    /\ lock = NoLock
    /\ pc = [p \in Installer |-> "start"]
    /\ want = [p \in Installer |-> None]
    /\ staging = [p \in Installer |-> <<>>]
    /\ at = [p \in Installer |-> 1]
    /\ backup = [f \in Path |-> "none"]
    /\ \E layout \in {"none", "legacy", "link"} :
           /\ link = [f \in Path |-> layout]
           /\ current = IF layout = "link" THEN 1 ELSE None
           /\ release = [r \in Release |-> IF layout = "link" /\ r = 1 THEN Whole(r) ELSE <<>>]
    /\ published = 1
    /\ crashes = 0 /\ damage = 0 /\ spoiled = {}
    /\ stolen = FALSE

Goto(p, place) == pc' = [pc EXCEPT ![p] = place]

\* pid_exists(): the process that wrote its pid into the lock file still runs.
Alive(p) == pc[p] \notin {"done", "failed", "dead"}

-----------------------------------------------------------------------------
(* installation_lock().                                                    *)

\* Mutant: the file is opened without O_EXCL.
AlwaysFree == TRUE

Free == lock = NoLock

\* os.open(O_CREAT | O_EXCL): the file is there before the pid is in it.
Create(p) ==
    /\ pc[p] \in {"start", "again"} /\ Free
    /\ lock' = [by |-> p, pid |-> FALSE]
    /\ Goto(p, "pid")
    /\ UNCHANGED <<want, staging, at, disk, world, stolen>>

\* FileExistsError: the first attempt looks at the owner, the second gives up.
Taken(p) ==
    /\ lock # NoLock
    /\ \/ pc[p] = "start" /\ Goto(p, "owner")
       \/ pc[p] = "again" /\ Goto(p, "failed")
    /\ UNCHANGED <<lock, want, staging, at, disk, world, stolen>>

\* A lock file without a pid, or one that has gone, counts as left behind.
ReadOwner(p) ==
    /\ pc[p] = "owner"
    /\ IF lock # NoLock /\ lock.pid /\ Alive(lock.by)
         THEN Goto(p, "failed")
         ELSE Goto(p, "unlink")
    /\ UNCHANGED <<lock, want, staging, at, disk, world, stolen>>

\* unlink(missing_ok=True) removes whatever file is there by now.
Unlink(p) ==
    /\ pc[p] = "unlink"
    /\ lock' = NoLock
    /\ stolen' = (stolen \/ (lock # NoLock /\ Alive(lock.by)))
    /\ Goto(p, "again")
    /\ UNCHANGED <<want, staging, at, disk, world>>

\* The pid goes to the file that p created, which may be unlinked already.
WritePid(p) ==
    /\ pc[p] = "pid"
    /\ lock' = IF lock.by = p THEN [lock EXCEPT !.pid = TRUE] ELSE lock
    /\ Goto(p, "manifest")
    /\ UNCHANGED <<want, staging, at, disk, world, stolen>>

\* The finally clause unlinks the lock file, also when it is another's.
Leave(p) ==
    /\ pc[p] = "leave"
    /\ lock' = NoLock
    /\ Goto(p, IF at[p] > Len(LinkOrder) THEN "done" ELSE "failed")
    /\ UNCHANGED <<want, staging, at, disk, world, stolen>>

-----------------------------------------------------------------------------
(* Staging.                                                                *)

\* validated_manifest_items() refuses a manifest before anything is written.
ReadManifest(p) ==
    /\ pc[p] = "manifest"
    /\ \/ /\ published \notin TooNew
          /\ want' = [want EXCEPT ![p] = published]
          /\ staging' = [staging EXCEPT ![p] = <<>>]
          /\ Goto(p, "fetch")
       \/ /\ Goto(p, "leave")
          /\ UNCHANGED <<want, staging>>
    /\ UNCHANGED <<lock, at, disk, world, stolen>>

\* fetch_script(): the service sends what it distributes now.
\* verify_asset_payload() compares it with the manifest.
Verified(p) == published = want[p]

Staged(files) == Len(files) = Assets

Fetch(p) ==
    /\ pc[p] = "fetch" /\ Verified(p)
    /\ staging' = [staging EXCEPT ![p] = Append(@, published)]
    /\ Goto(p, IF Staged(staging'[p]) THEN "place" ELSE "fetch")
    /\ UNCHANGED <<lock, want, at, disk, world, stolen>>

\* A download fails, or the asset is not that of the manifest.
FetchFails(p) ==
    /\ pc[p] = "fetch"
    /\ Goto(p, "undo")
    /\ UNCHANGED <<lock, want, staging, at, disk, world, stolen>>

\* if final_release.exists(): the staged copy is dropped and the old one used.
FindFinal(p) ==
    /\ pc[p] = "place"
    /\ IF release[want[p]] = <<>>
         THEN Goto(p, "move") /\ UNCHANGED staging
         ELSE Goto(p, "verify") /\ staging' = [staging EXCEPT ![p] = <<>>]
    /\ UNCHANGED <<lock, want, at, disk, world, stolen>>

\* os.replace(staging, final_release): fails when a directory came there.
Move(p) ==
    /\ pc[p] = "move"
    /\ IF release[want[p]] = <<>>
         THEN /\ release' = [release EXCEPT ![want[p]] = staging[p]]
              /\ staging' = [staging EXCEPT ![p] = <<>>]
              /\ Goto(p, "verify")
         ELSE Goto(p, "undo") /\ UNCHANGED <<release, staging>>
    /\ UNCHANGED <<lock, want, at, link, backup, current, world, stolen>>

\* Mutant: a directory that is there is taken to be complete.
Present(r) == release[r] # <<>>

\* validate_release_hashes(): of each file of the directory that will be activated.
Intact(r) == release[r] = Whole(r)

VerifyFinal(p) ==
    /\ pc[p] = "verify"
    /\ Goto(p, IF Intact(want[p]) THEN "preserve" ELSE "undo")
    /\ UNCHANGED <<lock, want, staging, at, disk, world, stolen>>

\* except Exception: the staging directory is removed.
Undo(p) ==
    /\ pc[p] = "undo"
    /\ staging' = [staging EXCEPT ![p] = <<>>]
    /\ Goto(p, "leave")
    /\ UNCHANGED <<lock, want, at, disk, world, stolen>>

-----------------------------------------------------------------------------
(* activate_release().                                                     *)

\* preserve_legacy_path(): looks at the path and at its backup ...
Preserve(p) ==
    /\ pc[p] = "preserve"
    /\ LET f == LinkOrder[at[p]] IN
       Goto(p, IF link[f] # "legacy" THEN "symlink"
               ELSE IF backup[f] # "none" THEN "undo" ELSE "rename")
    /\ UNCHANGED <<lock, want, staging, at, disk, world, stolen>>

\* Mutant: the backup is a new file.
Emptied(f) == "empty"

\* What os.replace(path, backup) leaves at the backup: what is there by now.
Moved(f) == link[f]

Rename(p) ==
    /\ pc[p] = "rename"
    /\ LET f == LinkOrder[at[p]] IN
       IF link[f] = "none"
         THEN Goto(p, "undo") /\ UNCHANGED <<link, backup>>
         ELSE /\ backup' = [backup EXCEPT ![f] = Moved(f)]
              /\ link' = [link EXCEPT ![f] = "none"]
              /\ Goto(p, "symlink")
    /\ UNCHANGED <<lock, want, staging, at, release, current, world, stolen>>

AllLinked(p) == at[p] = Len(LinkOrder)

\* atomic_symlink(path, "current/..."): a new link replaces what is there.
Symlink(p) ==
    /\ pc[p] = "symlink"
    /\ link' = [link EXCEPT ![LinkOrder[at[p]]] = "link"]
    /\ at' = [at EXCEPT ![p] = @ + 1]
    /\ Goto(p, IF AllLinked(p) THEN "switch" ELSE "preserve")
    /\ UNCHANGED <<lock, want, staging, backup, release, current, world, stolen>>

\* atomic_symlink(current, release_dir), after all paths lead through it.
Switch(p) ==
    /\ pc[p] = "switch"
    /\ current' = want[p]
    /\ Goto(p, "leave")
    /\ UNCHANGED <<lock, want, staging, at, link, backup, release, world, stolen>>

-----------------------------------------------------------------------------
(* The rest of the world.                                                  *)

\* The process is killed; what it has done to the disk stays.
Crash(p) ==
    /\ crashes < MaxCrashes /\ Alive(p) /\ pc[p] # "start"
    /\ crashes' = crashes + 1
    /\ Goto(p, "dead")
    /\ UNCHANGED <<lock, want, staging, at, disk, published, damage, spoiled, stolen>>

Publish ==
    /\ published < Releases
    /\ published' = published + 1
    /\ UNCHANGED <<lock, process, disk, crashes, damage, spoiled, stolen>>

\* A file of a release on disk is lost or edited.  Nothing looks at a release
\* again once it was verified.
Damage(r) ==
    /\ damage < MaxDamage
    /\ damage' = damage + 1
    /\ \E i \in 1 .. Len(release[r]) : release' = [release EXCEPT ![r][i] = None]
    /\ spoiled' = IF r = current \/ \E p \in Installer : pc[p] \in Activating /\ want[p] = r
                    THEN spoiled \cup {r} ELSE spoiled
    /\ UNCHANGED <<lock, process, link, backup, current, published, crashes, stolen>>

InstallStep(p) ==
    \/ Create(p) \/ Taken(p) \/ ReadOwner(p) \/ Unlink(p) \/ WritePid(p) \/ Leave(p)
    \/ ReadManifest(p) \/ Fetch(p) \/ FetchFails(p) \/ FindFinal(p) \/ Move(p)
    \/ VerifyFinal(p) \/ Undo(p)
    \/ Preserve(p) \/ Rename(p) \/ Symlink(p) \/ Switch(p)

InstallerNext ==
    \/ \E p \in Installer : InstallStep(p) \/ Crash(p)
    \/ Publish
    \/ \E r \in Release : Damage(r)

InstallerSpec == InstallerInit /\ [][InstallerNext]_installerVars

-----------------------------------------------------------------------------
(* Properties.  The lock can fail: it is empty between its creation and the *)
(* write of the pid, and a second process takes an empty lock for one that *)
(* was left behind.  What needs the lock is stated for as long as no lock  *)
(* of a running process was unlinked (`stolen`).                           *)

\* The active release has every file, all of the version it is named after, whoever
\* dies, publishes or installs meanwhile: a partial download, a mix of two versions
\* or a release that was damaged before it was verified never becomes active, even
\* when the lock fails.  And while the lock holds every path leads to it.
NeverMixed ==
    current # None =>
        /\ current \notin spoiled => release[current] = Whole(current)
        /\ ~stolen => \A f \in Path : link[f] = "link"

\* An update never puts an older release in the place of a newer one, although
\* the service publishes between the reading of a manifest and the switch.
NeverDowngrades ==
    [][~stolen' => current' >= current]_installerVars

\* A file of the old layout is moved and never lost, so that an attempt after a
\* crash finds either it or its backup.
LegacyIsKept ==
    [][~stolen' => \A f \in Path :
           "legacy" \in {link[f], backup[f]} => "legacy" \in {link'[f], backup'[f]}]_installerVars
=============================================================================
