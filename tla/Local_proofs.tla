---------------------------- MODULE Local_proofs ----------------------------
(***************************************************************************)
(* Proofs about what nap keeps on the user's machine: the installation     *)
(* (Installer), the record of the gateway process (Service) and the local  *)
(* index of a project (LocalIndex), for any number of processes, paths,    *)
(* releases, ports, calls and nodes.                                       *)
(***************************************************************************)
EXTENDS Installer, Service, LocalIndex, WellFoundedInduction, TLAPS

-----------------------------------------------------------------------------
(* The installation.  Where a process is tells what it has chosen and how  *)
(* far it has linked (PlacesInv).  As long as no lock was stolen, the one  *)
(* process between the creation of the lock and its removal is the one the *)
(* lock names (HolderInv), and what it has seen and linked is still there  *)
(* (LinkedInv), because nobody else changes the disk.  What is in a release *)
(* needs no lock (ContentInv): a directory that is there is never written  *)
(* again, and one that is not all there is never activated.                *)

Holding == Section \cup {"pid"}

Early == {"start", "owner", "unlink", "again", "pid", "manifest", "fetch",
          "place", "move", "verify"}

Chosen == {"fetch", "place", "move", "verify"} \cup Activating

PlacesInv ==
    /\ current <= published
    /\ \A p \in Installer :
          /\ pc[p] \in Early => at[p] = 1
          /\ pc[p] \in Activating \ {"switch"} => at[p] \in 1 .. Len(LinkOrder)
          /\ pc[p] = "switch" => at[p] = Len(LinkOrder) + 1
          /\ pc[p] \in Chosen => want[p] \in Release
          /\ want[p] <= published

HolderInv == \A p \in Installer : pc[p] \in Holding => lock.by = p

LinkedInv(p) ==
    /\ pc[p] \in Activating => \A i \in 1 .. at[p] - 1 : link[LinkOrder[i]] = "link"
    /\ pc[p] = "rename" => link[LinkOrder[at[p]]] = "legacy"
    /\ pc[p] = "symlink" => link[LinkOrder[at[p]]] # "legacy"
    /\ pc[p] \in Chosen => want[p] >= current

ContentInv ==
    /\ current # None => current \in spoiled \/ release[current] = Whole(current)
    /\ \A p \in Installer :
          pc[p] \in Activating => want[p] \in spoiled \/ release[want[p]] = Whole(want[p])

ActiveInv == current # None => \A f \in Path : link[f] = "link"

InstallerInv ==
    /\ InstallerTypeOK /\ PlacesInv /\ ContentInv
    /\ ~stolen => HolderInv /\ ActiveInv /\ \A p \in Installer : LinkedInv(p)

\* The constants of an installation.
LEMMA Links ==
    /\ Len(LinkOrder) \in Nat /\ Len(LinkOrder) >= 1
    /\ \A i \in 1 .. Len(LinkOrder) : LinkOrder[i] \in Path
    /\ \A f \in Path : \E i \in 1 .. Len(LinkOrder) : f = LinkOrder[i]
    /\ Assets \in Nat /\ Assets >= 1
    /\ Releases \in Nat /\ Releases >= 1
    /\ MaxCrashes \in Nat /\ MaxDamage \in Nat
    /\ "nobody" \notin Installer
BY InstallerAssumption

LEMMA WholeIsASeq == \A r \in Release : Whole(r) \in Seq(File) /\ Whole(r) # <<>>
<1> SUFFICES ASSUME NEW r \in Release
             PROVE  Whole(r) \in Seq(File) /\ Whole(r) # <<>>
  OBVIOUS
<1>1. Assets \in Nat /\ Assets >= 1 /\ r \in File
  BY Links DEF File
<1>2. Whole(r) \in Seq(File) /\ Len(Whole(r)) = Assets
  BY <1>1 DEF Whole
<1> QED
  BY <1>1, <1>2

LEMMA InstallerStarts == InstallerInit => InstallerInv
<1> SUFFICES ASSUME InstallerInit
             PROVE  InstallerInv
  OBVIOUS
<1>1. PICK layout \in {"none", "legacy", "link"} :
           /\ link = [f \in Path |-> layout]
           /\ current = IF layout = "link" THEN 1 ELSE None
           /\ release = [r \in Release |-> IF layout = "link" /\ r = 1 THEN Whole(r) ELSE <<>>]
  BY DEF InstallerInit
<1>2. InstallerTypeOK
  <2>1. lock \in [by : Installer, pid : BOOLEAN] \cup {NoLock} /\ pc \in [Installer -> Place]
    BY DEF InstallerInit, Place
  <2>2. /\ want \in [Installer -> Release \cup {None}]
        /\ staging \in [Installer -> Seq(File)]
        /\ at \in [Installer -> 1 .. Len(LinkOrder) + 1]
    BY Links DEF InstallerInit
  <2>3. /\ link \in [Path -> {"none", "legacy", "link"}]
        /\ backup \in [Path -> {"none", "legacy", "link"}]
        /\ release \in [Release -> Seq(File)]
    BY <1>1, WholeIsASeq DEF InstallerInit
  <2>4. /\ current \in Release \cup {None} /\ published \in Release
        /\ crashes \in 0 .. MaxCrashes /\ damage \in 0 .. MaxDamage
        /\ spoiled \subseteq Release /\ stolen \in BOOLEAN
    <3>1. current \in Release \cup {None} /\ published \in Release
      BY <1>1, Links DEF InstallerInit, Release, None
    <3>2. spoiled \subseteq Release /\ stolen \in BOOLEAN
      BY DEF InstallerInit
    <3>3. crashes \in 0 .. MaxCrashes /\ damage \in 0 .. MaxDamage
      BY Links DEF InstallerInit
    <3> QED
      BY <3>1, <3>2, <3>3
  <2> QED
    BY <2>1, <2>2, <2>3, <2>4 DEF InstallerTypeOK
<1>3. PlacesInv
  BY <1>1 DEF InstallerInit, PlacesInv, Early, Activating, Chosen, None
<1>4. HolderInv /\ \A p \in Installer : LinkedInv(p)
  BY DEF InstallerInit, HolderInv, LinkedInv, Holding, Section, Activating, Chosen
<1>5. ActiveInv
  BY <1>1 DEF ActiveInv
<1>6. ContentInv
  <2>1. 1 \in Release
    BY Links DEF Release
  <2> QED
    BY <1>1, <2>1 DEF InstallerInit, ContentInv, Activating
<1> QED
  BY <1>2, <1>3, <1>4, <1>5, <1>6 DEF InstallerInv

\* The types, for every step.
LEMMA LockTypes ==
    ASSUME InstallerTypeOK, PlacesInv, NEW p \in Installer,
           \/ Create(p) \/ Taken(p) \/ ReadOwner(p) \/ Unlink(p) \/ WritePid(p) \/ Leave(p)
    PROVE  InstallerTypeOK' /\ PlacesInv'
<1>1. /\ pc' \in [Installer -> Place] /\ lock' \in [by : Installer, pid : BOOLEAN] \cup {NoLock}
      /\ stolen' \in BOOLEAN
  <2>1. CASE Create(p)
    BY <2>1 DEF InstallerTypeOK, Create, Goto, Place
  <2>2. CASE Taken(p) \/ ReadOwner(p)
    BY <2>2 DEF InstallerTypeOK, Taken, ReadOwner, Goto, Place
  <2>3. CASE Unlink(p)
    BY <2>3 DEF InstallerTypeOK, Unlink, Goto, Place
  <2>4. CASE WritePid(p)
    <3>1. lock.by = p => lock # NoLock
      BY Links DEF NoLock
    <3>2. lock.by = p => [lock EXCEPT !.pid = TRUE] \in [by : Installer, pid : BOOLEAN]
      BY <3>1 DEF InstallerTypeOK
    <3>3. pc' \in [Installer -> Place] /\ stolen' \in BOOLEAN
      BY <2>4 DEF InstallerTypeOK, WritePid, Goto, Place, Section
    <3> QED
      BY <2>4, <3>2, <3>3 DEF InstallerTypeOK, WritePid
  <2>5. CASE Leave(p)
    BY <2>5 DEF InstallerTypeOK, Leave, Goto, Place
  <2> QED
    BY <2>1, <2>2, <2>3, <2>4, <2>5
<1>2. UNCHANGED <<want, staging, at, disk, world>>
  BY DEF Create, Taken, ReadOwner, Unlink, WritePid, Leave
<1>3. InstallerTypeOK'
  BY <1>1, <1>2 DEF InstallerTypeOK, disk, world
<1>4. PlacesInv'
  <2>1. \/ pc[p] \in Early /\ pc'[p] \in {"owner", "failed", "unlink", "again", "pid", "manifest"}
        \/ pc'[p] \in {"done", "failed"}
    BY DEF InstallerTypeOK, Create, Taken, ReadOwner, Unlink, WritePid, Leave, Goto, Early
  <2>2. \A q \in Installer : q # p => pc'[q] = pc[q]
    BY DEF InstallerTypeOK, Create, Taken, ReadOwner, Unlink, WritePid, Leave, Goto
  <2> QED
    BY <1>2, <2>1, <2>2 DEF PlacesInv, Early, Activating, Chosen, disk, world
<1> QED
  BY <1>3, <1>4

LEMMA StageTypes ==
    ASSUME InstallerTypeOK, PlacesInv, NEW p \in Installer,
           \/ ReadManifest(p) \/ Fetch(p) \/ FetchFails(p) \/ FindFinal(p) \/ Move(p)
           \/ VerifyFinal(p) \/ Undo(p)
    PROVE  InstallerTypeOK' /\ PlacesInv'
<1>0. /\ pc[p] \in Place /\ staging[p] \in Seq(File)
      /\ \A q \in Installer \ {p} : pc'[q] = pc[q]
      /\ UNCHANGED <<lock, at, link, backup, current, world, stolen>>
  BY Links DEF InstallerTypeOK, ReadManifest, Fetch, FetchFails, FindFinal, Move, VerifyFinal,
               Undo, Goto, disk
<1>1. CASE ReadManifest(p)
  <2>1. pc[p] = "manifest" /\ pc' \in [Installer -> Place] /\ pc'[p] \in {"fetch", "leave"}
    BY <1>1 DEF InstallerTypeOK, ReadManifest, Goto, Place, Section
  <2>2. /\ want' \in [Installer -> Release \cup {None}]
        /\ staging' \in [Installer -> Seq(File)]
        /\ \A q \in Installer \ {p} : want'[q] = want[q]
        /\ pc'[p] = "fetch" => want'[p] = published
        /\ want'[p] \in {want[p], published}
    <3>1. published \in Release
      BY DEF InstallerTypeOK
    <3>2. CASE pc'[p] = "fetch"
      <4>1. want' = [want EXCEPT ![p] = published] /\ staging' = [staging EXCEPT ![p] = <<>>]
        BY <1>1, <3>2 DEF InstallerTypeOK, ReadManifest, Goto
      <4> QED
        BY <3>1, <4>1 DEF InstallerTypeOK
    <3>3. CASE pc'[p] # "fetch"
      <4>1. want' = want /\ staging' = staging
        BY <1>1, <3>3 DEF InstallerTypeOK, ReadManifest, Goto
      <4> QED
        BY <3>3, <4>1 DEF InstallerTypeOK
    <3> QED
      BY <3>2, <3>3
  <2>3. release' = release
    BY <1>1 DEF ReadManifest, disk
  <2>4. InstallerTypeOK'
    BY <1>0, <2>1, <2>2, <2>3 DEF InstallerTypeOK, world
  <2>5. PlacesInv'
    <3>1. published \in Release /\ published <= published
      BY DEF InstallerTypeOK, Release
    <3> QED
      BY <1>0, <2>1, <2>2, <3>1 DEF PlacesInv, Early, Activating, Chosen, world
  <2> QED
    BY <2>4, <2>5
<1>2. CASE Fetch(p)
  <2>1. /\ pc[p] = "fetch" /\ pc' \in [Installer -> Place]
        /\ pc'[p] \in {"place", "fetch"}
        /\ staging' = [staging EXCEPT ![p] = Append(@, published)]
    BY <1>2 DEF InstallerTypeOK, Fetch, Goto, Place, Section
  <2>2. published \in File
    BY DEF InstallerTypeOK, File
  <2>3. staging' \in [Installer -> Seq(File)]
    <3>1. Append(staging[p], published) \in Seq(File)
      BY <1>0, <2>2
    <3>2. staging' = [staging EXCEPT ![p] = Append(staging[p], published)]
      BY <2>1
    <3> QED
      BY <3>1, <3>2 DEF InstallerTypeOK
  <2>4. release' = release /\ want' = want
    BY <1>2 DEF Fetch, disk
  <2>5. InstallerTypeOK'
    BY <1>0, <2>1, <2>3, <2>4 DEF InstallerTypeOK, world
  <2>6. PlacesInv'
    BY <1>0, <2>1, <2>3, <2>4 DEF PlacesInv, Early, Activating, Chosen, world
  <2> QED
    BY <2>5, <2>6
<1>3. CASE FetchFails(p) \/ FindFinal(p) \/ Move(p) \/ VerifyFinal(p) \/ Undo(p)
  <2>1. /\ pc' \in [Installer -> Place]
        /\ want' = want
        /\ \/ pc'[p] \in {"undo", "leave"}
           \/ pc[p] \in {"place", "move"} /\ pc'[p] \in {"move", "verify"}
           \/ pc[p] = "verify" /\ pc'[p] = "preserve"
    BY <1>3 DEF InstallerTypeOK, FetchFails, FindFinal, Move, VerifyFinal, Undo, Goto, Place, Section
  <2>2. staging' \in [Installer -> Seq(File)]
    <3>1. staging' = staging \/ staging' = [staging EXCEPT ![p] = <<>>]
      BY <1>3 DEF FetchFails, FindFinal, Move, VerifyFinal, Undo
    <3>2. staging \in [Installer -> Seq(File)] /\ <<>> \in Seq(File)
      BY DEF InstallerTypeOK
    <3> QED
      BY <3>1, <3>2
  <2>3. release' \in [Release -> Seq(File)]
    BY <1>0, <1>3 DEF InstallerTypeOK, FetchFails, FindFinal, Move, VerifyFinal, Undo, disk
  <2>4. InstallerTypeOK'
    BY <1>0, <2>1, <2>2, <2>3 DEF InstallerTypeOK, world
  <2>5. PlacesInv'
    <3>1. ASSUME NEW q \in Installer \ {p}
          PROVE  /\ pc'[q] \in Early => at'[q] = 1
                 /\ pc'[q] \in Activating \ {"switch"} => at'[q] \in 1 .. Len(LinkOrder)
                 /\ pc'[q] = "switch" => at'[q] = Len(LinkOrder) + 1
                 /\ pc'[q] \in Chosen => want'[q] \in Release
                 /\ want'[q] <= published'
      BY <1>0, <2>1, <2>2 DEF PlacesInv, world
    <3>2. /\ pc'[p] \in Early => at'[p] = 1
          /\ pc'[p] \in Activating \ {"switch"} => at'[p] \in 1 .. Len(LinkOrder)
          /\ pc'[p] # "switch"
          /\ pc'[p] \in Chosen => want'[p] \in Release
          /\ want'[p] <= published'
      BY <1>0, <2>1, Links DEF PlacesInv, world, Early, Activating, Chosen
    <3> QED
      BY <1>0, <3>1, <3>2 DEF PlacesInv, world
  <2> QED
    BY <2>4, <2>5
<1> QED
  BY <1>1, <1>2, <1>3

LEMMA LinkTypes ==
    ASSUME InstallerTypeOK, PlacesInv, NEW p \in Installer,
           Preserve(p) \/ Rename(p) \/ Symlink(p) \/ Switch(p)
    PROVE  InstallerTypeOK' /\ PlacesInv'
<1>0. /\ pc[p] \in Place /\ Len(LinkOrder) \in Nat /\ Len(LinkOrder) >= 1
      /\ \A q \in Installer \ {p} : pc'[q] = pc[q]
      /\ UNCHANGED <<lock, want, staging, release, world, stolen>>
  BY Links DEF InstallerTypeOK, Preserve, Rename, Symlink, Switch, Goto, disk
<1>1. CASE Preserve(p) \/ Rename(p)
  <2>1. /\ pc' \in [Installer -> Place] /\ pc[p] \in {"preserve", "rename"}
        /\ pc'[p] \in {"symlink", "undo", "rename"}
        /\ at' = at /\ current' = current
    BY <1>1 DEF InstallerTypeOK, Preserve, Rename, Goto, Place, Section, disk
  <2>2. LinkOrder[at[p]] \in Path
    BY <2>1, Links DEF PlacesInv, Activating
  <2>3. /\ link' \in [Path -> {"none", "legacy", "link"}]
        /\ backup' \in [Path -> {"none", "legacy", "link"}]
    BY <1>1, <2>2 DEF InstallerTypeOK, Preserve, Rename, Moved, disk
  <2>4. InstallerTypeOK'
    BY <1>0, <2>1, <2>3 DEF InstallerTypeOK, world
  <2>5. PlacesInv'
    BY <1>0, <2>1 DEF PlacesInv, Early, Activating, Chosen, world
  <2> QED
    BY <2>4, <2>5
<1>2. CASE Symlink(p)
  <2>1. /\ pc' \in [Installer -> Place] /\ pc[p] = "symlink"
        /\ pc'[p] = IF at[p] = Len(LinkOrder) THEN "switch" ELSE "preserve"
        /\ at' = [at EXCEPT ![p] = @ + 1] /\ current' = current /\ backup' = backup
    BY <1>2 DEF InstallerTypeOK, Symlink, Goto, Place, Section, AllLinked
  <2>2. at[p] \in 1 .. Len(LinkOrder) /\ LinkOrder[at[p]] \in Path
    BY <2>1, Links DEF PlacesInv, Activating
  <2>3. link' \in [Path -> {"none", "legacy", "link"}]
    BY <1>2, <2>2 DEF InstallerTypeOK, Symlink
  <2>4. /\ at' \in [Installer -> 1 .. Len(LinkOrder) + 1]
        /\ \A q \in Installer \ {p} : at'[q] = at[q]
        /\ at'[p] = at[p] + 1
    BY <1>0, <2>1, <2>2 DEF InstallerTypeOK
  <2>5. InstallerTypeOK'
    BY <1>0, <2>1, <2>3, <2>4 DEF InstallerTypeOK, world
  <2>6. PlacesInv'
    BY <1>0, <2>1, <2>2, <2>4 DEF PlacesInv, Early, Activating, Chosen, world
  <2> QED
    BY <2>5, <2>6
<1>3. CASE Switch(p)
  <2>1. /\ pc' \in [Installer -> Place] /\ pc[p] = "switch" /\ pc'[p] = "leave"
        /\ at' = at /\ current' = want[p] /\ link' = link /\ backup' = backup
    BY <1>3 DEF InstallerTypeOK, Switch, Goto, Place, Section
  <2>2. want[p] \in Release /\ want[p] <= published
    BY <2>1 DEF PlacesInv, Chosen, Activating
  <2>3. InstallerTypeOK'
    BY <1>0, <2>1, <2>2 DEF InstallerTypeOK, world
  <2>4. PlacesInv'
    BY <1>0, <2>1, <2>2 DEF PlacesInv, Early, Activating, Chosen, world
  <2> QED
    BY <2>3, <2>4
<1> QED
  BY <1>1, <1>2, <1>3

LEMMA WorldTypes ==
    ASSUME InstallerTypeOK, PlacesInv,
           \/ \E p \in Installer : Crash(p)
           \/ Publish
           \/ \E r \in Release : Damage(r)
           \/ UNCHANGED installerVars
    PROVE  InstallerTypeOK' /\ PlacesInv'
<1>0. /\ Releases \in Nat /\ published \in 1 .. Releases /\ current \in 0 .. Releases
      /\ \A q \in Installer : want[q] \in 0 .. Releases
  BY Links DEF InstallerTypeOK, Release, None
<1>1. CASE \E p \in Installer : Crash(p)
  <2>1. PICK p \in Installer : Crash(p)
    BY <1>1
  <2>2. /\ pc' \in [Installer -> Place] /\ pc' = [pc EXCEPT ![p] = "dead"]
        /\ crashes' \in 0 .. MaxCrashes
        /\ UNCHANGED <<lock, want, staging, at, disk, published, damage, spoiled, stolen>>
    BY <2>1, Links DEF InstallerTypeOK, Crash, Goto, Place
  <2>3. InstallerTypeOK'
    BY <2>2 DEF InstallerTypeOK, disk
  <2>4. PlacesInv'
    <3>1. \A q \in Installer : pc'[q] = pc[q] \/ pc'[q] = "dead"
      BY <2>2 DEF InstallerTypeOK
    <3> QED
      BY <2>2, <3>1 DEF PlacesInv, disk, Early, Activating, Chosen
  <2> QED
    BY <2>3, <2>4
<1>2. CASE Publish
  <2>1. /\ published' = published + 1 /\ published' \in Release
        /\ UNCHANGED <<lock, process, disk, crashes, damage, spoiled, stolen>>
    BY <1>0, <1>2 DEF Publish, Release
  <2>2. InstallerTypeOK'
    BY <2>1 DEF InstallerTypeOK, disk, process
  <2>3. PlacesInv'
    BY <1>0, <2>1 DEF PlacesInv, disk, process
  <2> QED
    BY <2>2, <2>3
<1>3. CASE \E r \in Release : Damage(r)
  <2>1. PICK r \in Release : Damage(r)
    BY <1>3
  <2>2. /\ damage' \in 0 .. MaxDamage
        /\ release' \in [Release -> Seq(File)]
        /\ spoiled' \subseteq Release
        /\ UNCHANGED <<lock, process, link, backup, current, published, crashes, stolen>>
    <3>1. /\ damage' \in 0 .. MaxDamage /\ spoiled' \subseteq Release
          /\ UNCHANGED <<lock, process, link, backup, current, published, crashes, stolen>>
      BY <2>1, Links DEF InstallerTypeOK, Damage
    <3>2. PICK i \in 1 .. Len(release[r]) : release' = [release EXCEPT ![r][i] = None]
      BY <2>1 DEF Damage
    <3>3. release[r] \in Seq(File) /\ None \in File
      BY DEF InstallerTypeOK, File
    <3>4. [release[r] EXCEPT ![i] = None] \in Seq(File)
      BY <3>3
    <3>5. release' \in [Release -> Seq(File)]
      BY <3>2, <3>4 DEF InstallerTypeOK
    <3> QED
      BY <3>1, <3>5
  <2>3. InstallerTypeOK'
    BY <2>2 DEF InstallerTypeOK, process
  <2>4. PlacesInv'
    BY <2>2 DEF PlacesInv, process
  <2> QED
    BY <2>3, <2>4
<1>4. CASE UNCHANGED installerVars
  <2>1. UNCHANGED <<lock, process, disk, world, stolen>>
    BY <1>4 DEF installerVars
  <2> QED
    BY <2>1 DEF InstallerTypeOK, PlacesInv, process, disk, world
<1> QED
  BY <1>1, <1>2, <1>3, <1>4

\* A release that was verified stays as it is, or was damaged since.
LEMMA ContentKept ==
    ASSUME InstallerTypeOK, PlacesInv, ContentInv, [InstallerNext]_installerVars
    PROVE  ContentInv'
<1>0. /\ pc \in [Installer -> Place] /\ release \in [Release -> Seq(File)]
      /\ current \in Release \cup {None} /\ spoiled \subseteq Release
      /\ \A p \in Installer : pc[p] \in Activating \cup {"verify", "move"} => want[p] \in Release
  BY DEF InstallerTypeOK, PlacesInv, Chosen
<1>1. ASSUME NEW p \in Installer, InstallStep(p) \/ Crash(p)
      PROVE  ContentInv'
  <2>1. /\ spoiled' = spoiled
        /\ \A q \in Installer \ {p} : pc'[q] = pc[q] /\ want'[q] = want[q]
    BY <1>1 DEF InstallerTypeOK, InstallStep, Create, Taken, ReadOwner, Unlink, WritePid, Leave, ReadManifest,
                Fetch, FetchFails, FindFinal, Move, VerifyFinal, Undo, Preserve, Rename, Symlink,
                Switch, Crash, Goto, world
  <2>2. \A r \in Release : release[r] # <<>> => release'[r] = release[r]
    <3>1. CASE Move(p)
      BY <1>0, <3>1 DEF Move
    <3>2. CASE ~Move(p)
      <4>1. release' = release
        BY <1>1, <3>2 DEF InstallStep, Create, Taken, ReadOwner, Unlink, WritePid, Leave,
                ReadManifest, Fetch, FetchFails, FindFinal, VerifyFinal, Undo, Preserve, Rename,
                Symlink, Switch, Crash, disk
      <4> QED
        BY <4>1
    <3> QED
      BY <3>1, <3>2
  <2>3. \A r \in Release : release[r] = Whole(r) => release'[r] = Whole(r)
    BY <2>2, WholeIsASeq
  <2>4. /\ pc'[p] \in Activating => want'[p] = want[p]
        /\ pc'[p] \in Activating => pc[p] \in Activating \/ (pc[p] = "verify" /\ Intact(want[p]))
    BY <1>0, <1>1 DEF InstallStep, Create, Taken, ReadOwner, Unlink, WritePid, Leave, ReadManifest,
                Fetch, FetchFails, FindFinal, Move, VerifyFinal, Undo, Preserve, Rename, Symlink,
                Switch, Crash, Goto, Activating
  <2>5. \A q \in Installer :
            pc'[q] \in Activating => want'[q] \in spoiled' \/ release'[want'[q]] = Whole(want'[q])
    BY <1>0, <2>1, <2>3, <2>4 DEF ContentInv, Intact
  <2>6. current' # None => current' \in spoiled' \/ release'[current'] = Whole(current')
    <3>1. CASE Switch(p)
      <4>1. pc[p] \in Activating /\ current' = want[p]
        BY <3>1 DEF Switch, Activating
      <4> QED
        BY <1>0, <2>1, <2>3, <4>1 DEF ContentInv
    <3>2. CASE ~Switch(p)
      <4>1. current' = current
        BY <1>1, <3>2 DEF InstallStep, Create, Taken, ReadOwner, Unlink, WritePid, Leave,
                ReadManifest, Fetch, FetchFails, FindFinal, Move, VerifyFinal, Undo, Preserve,
                Rename, Symlink, Crash, disk
      <4> QED
        BY <1>0, <2>1, <2>3, <4>1 DEF ContentInv
    <3> QED
      BY <3>1, <3>2
  <2> QED
    BY <2>5, <2>6 DEF ContentInv
<1>2. ASSUME NEW r \in Release, Damage(r)
      PROVE  ContentInv'
  <2>1. /\ UNCHANGED <<pc, want, current>> /\ spoiled \subseteq spoiled'
        /\ \A q \in Release \ {r} : release'[q] = release[q]
        /\ r = current \/ (\E p \in Installer : pc[p] \in Activating /\ want[p] = r) => r \in spoiled'
    BY <1>0, <1>2 DEF Damage, process
  <2> QED
    BY <1>0, <2>1 DEF ContentInv
<1>3. CASE Publish \/ UNCHANGED installerVars
  <2>1. UNCHANGED <<pc, want, current, release, spoiled>>
    BY <1>3 DEF Publish, installerVars, process, disk, world
  <2> QED
    BY <2>1 DEF ContentInv
<1> QED
  BY <1>1, <1>2, <1>3 DEF InstallerNext

SafeInv == HolderInv /\ ActiveInv /\ \A p \in Installer : LinkedInv(p)

\* Who acts between the creation of the lock and its removal is alone.
LEMMA OneHolder ==
    ASSUME HolderInv, NEW p \in Installer, NEW q \in Installer,
           pc[p] \in Holding, pc[q] \in Holding
    PROVE  p = q
BY DEF HolderInv

\* A step of a process that does not change the disk.
LEMMA DiskKept ==
    ASSUME InstallerTypeOK, SafeInv, NEW p \in Installer,
           \A q \in Installer \ {p} : pc'[q] = pc[q] /\ want'[q] = want[q],
           UNCHANGED <<at, link, current>>,
           LinkedInv(p)'
    PROVE  ActiveInv' /\ \A q \in Installer : LinkedInv(q)'
<1>1. ASSUME NEW q \in Installer \ {p} PROVE LinkedInv(q)'
  BY <1>1 DEF SafeInv, LinkedInv
<1> QED
  BY <1>1 DEF SafeInv, ActiveInv

LEMMA LockSafe ==
    ASSUME InstallerTypeOK, PlacesInv, ~stolen => SafeInv, ~stolen', NEW p \in Installer,
           \/ Create(p) \/ Taken(p) \/ ReadOwner(p) \/ Unlink(p) \/ WritePid(p) \/ Leave(p)
    PROVE  SafeInv'
<1>0. /\ SafeInv
      /\ UNCHANGED <<want, at, link, current>>
      /\ pc'[p] \notin Activating \cup Chosen
      /\ \A q \in Installer \ {p} : pc'[q] = pc[q]
  <2>1. ~stolen
    BY DEF Create, Taken, ReadOwner, Unlink, WritePid, Leave
  <2>2. UNCHANGED <<want, at, link, current>>
    BY DEF Create, Taken, ReadOwner, Unlink, WritePid, Leave, disk
  <2>3. pc'[p] \notin Activating \cup Chosen /\ \A q \in Installer \ {p} : pc'[q] = pc[q]
    BY DEF InstallerTypeOK, Create, Taken, ReadOwner, Unlink, WritePid, Leave, Goto, Activating, Chosen
  <2> QED
    BY <2>1, <2>2, <2>3
<1>1. HolderInv'
  <2>0. \A q \in Installer : pc[q] \in Holding => lock.by = q /\ lock # NoLock
    BY <1>0, Links DEF SafeInv, HolderInv, NoLock
  <2>1. CASE Create(p)
    <3>1. lock'.by = p /\ lock = NoLock
      BY <2>1 DEF Create, Free
    <3> QED
      BY <1>0, <2>0, <3>1 DEF HolderInv
  <2>2. CASE Taken(p) \/ ReadOwner(p)
    <3>1. lock' = lock /\ pc'[p] \notin Holding
      BY <2>2 DEF InstallerTypeOK, Taken, ReadOwner, Goto, Holding, Section
    <3> QED
      BY <1>0, <2>0, <3>1 DEF HolderInv
  <2>3. CASE Unlink(p)
    <3>1. lock = NoLock \/ ~Alive(lock.by)
      BY <2>3 DEF Unlink
    <3>2. \A q \in Installer : pc[q] \in Holding => Alive(q)
      BY DEF Holding, Section, Alive
    <3>3. pc'[p] \notin Holding
      BY <2>3 DEF InstallerTypeOK, Unlink, Goto, Holding, Section
    <3> QED
      BY <1>0, <2>0, <3>1, <3>2, <3>3 DEF HolderInv
  <2>4. CASE WritePid(p)
    <3>1. pc[p] = "pid" /\ lock' = IF lock.by = p THEN [lock EXCEPT !.pid = TRUE] ELSE lock
      BY <2>4 DEF WritePid
    <3>2. lock'.by = lock.by
      <4>1. CASE lock = NoLock
        BY <3>1, <4>1 DEF NoLock
      <4>2. CASE lock \in [by : Installer, pid : BOOLEAN]
        BY <3>1, <4>2
      <4> QED
        BY <4>1, <4>2 DEF InstallerTypeOK
    <3>3. pc[p] \in Holding
      BY <3>1 DEF Holding
    <3> QED
      BY <1>0, <2>0, <3>2, <3>3 DEF HolderInv
  <2>5. CASE Leave(p)
    <3>1. pc[p] \in Holding /\ pc'[p] \notin Holding
      BY <2>5 DEF InstallerTypeOK, Leave, Goto, Holding, Section
    <3>2. \A q \in Installer : pc[q] \in Holding => q = p
      BY <2>0, <3>1
    <3> QED
      BY <1>0, <3>1, <3>2 DEF HolderInv
  <2> QED
    BY <2>1, <2>2, <2>3, <2>4, <2>5
<1>2. LinkedInv(p)'
  BY <1>0 DEF LinkedInv, Activating, Chosen
<1> QED
  BY <1>0, <1>1, <1>2, DiskKept DEF SafeInv

LEMMA StageSafe ==
    ASSUME InstallerTypeOK, PlacesInv, SafeInv, NEW p \in Installer,
           \/ ReadManifest(p) \/ Fetch(p) \/ FetchFails(p) \/ FindFinal(p) \/ Move(p)
           \/ VerifyFinal(p) \/ Undo(p) \/ Preserve(p)
    PROVE  SafeInv'
<1>0. /\ UNCHANGED <<lock, at, link, current, published>>
      /\ pc[p] \in Section
      /\ \A q \in Installer \ {p} : pc'[q] = pc[q] /\ want'[q] = want[q]
  BY DEF InstallerTypeOK, ReadManifest, Fetch, FetchFails, FindFinal, Move, VerifyFinal, Undo,
         Preserve, Goto, disk, world, Section
<1>1. HolderInv'
  BY <1>0 DEF SafeInv, HolderInv, Holding
<1>2. LinkedInv(p)'
  <2>0. LinkedInv(p)
    BY DEF SafeInv
  <2>1. CASE ReadManifest(p)
    <3>1. /\ pc'[p] \in {"fetch", "leave"}
          /\ pc'[p] = "fetch" => want'[p] = published
      BY <2>1 DEF InstallerTypeOK, ReadManifest, Goto
    <3>2. current <= published /\ current \in Nat /\ published \in Nat
      BY DEF InstallerTypeOK, PlacesInv, Release, None
    <3> QED
      BY <1>0, <3>1, <3>2 DEF LinkedInv, Activating, Chosen
  <2>2. CASE FetchFails(p) \/ Undo(p)
    <3>1. pc'[p] \in {"undo", "leave"}
      BY <2>2 DEF InstallerTypeOK, FetchFails, Undo, Goto
    <3> QED
      BY <3>1 DEF LinkedInv, Activating, Chosen
  <2>3. CASE Fetch(p) \/ FindFinal(p) \/ Move(p)
    <3>1. /\ pc[p] \in {"fetch", "place", "move"} /\ want' = want
          /\ pc'[p] \in {"fetch", "place", "move", "verify", "undo"}
      BY <2>3 DEF InstallerTypeOK, Fetch, FindFinal, Move, Goto
    <3> QED
      BY <1>0, <2>0, <3>1 DEF LinkedInv, Activating, Chosen
  <2>4. CASE VerifyFinal(p)
    <3>1. pc[p] = "verify" /\ want' = want /\ pc'[p] \in {"preserve", "undo"}
      BY <2>4 DEF InstallerTypeOK, VerifyFinal, Goto
    <3>2. at[p] = 1
      BY <3>1 DEF PlacesInv, Early
    <3> QED
      BY <1>0, <2>0, <3>1, <3>2 DEF LinkedInv, Activating, Chosen
  <2>5. CASE Preserve(p)
    <3>1. /\ pc[p] = "preserve" /\ want' = want
          /\ \/ pc'[p] = "symlink" /\ link[LinkOrder[at[p]]] # "legacy"
             \/ pc'[p] = "rename" /\ link[LinkOrder[at[p]]] = "legacy"
             \/ pc'[p] = "undo"
      BY <2>5 DEF InstallerTypeOK, Preserve, Goto
    <3> QED
      BY <1>0, <2>0, <3>1 DEF LinkedInv, Activating, Chosen
  <2> QED
    BY <2>1, <2>2, <2>3, <2>4, <2>5
<1> QED
  BY <1>0, <1>1, <1>2, DiskKept DEF SafeInv

\* A file of the old layout is moved away only before the first release is
\* active: afterwards every path is a link.
LEMMA LinkSafe ==
    ASSUME InstallerTypeOK, PlacesInv, SafeInv, NEW p \in Installer,
           Rename(p) \/ Symlink(p) \/ Switch(p)
    PROVE  SafeInv'
<1>0. /\ UNCHANGED <<lock, want>>
      /\ pc[p] \in {"rename", "symlink", "switch"}
      /\ \A q \in Installer \ {p} : pc'[q] = pc[q]
      /\ LinkedInv(p) /\ ActiveInv /\ HolderInv
      /\ link \in [Path -> {"none", "legacy", "link"}]
  BY DEF InstallerTypeOK, Rename, Symlink, Switch, Goto, SafeInv
<1>1. \A q \in Installer \ {p} : pc'[q] \notin Holding
  BY <1>0, OneHolder DEF Holding, Section
<1>2. HolderInv'
  BY <1>0, <1>1 DEF HolderInv, Holding, Section
<1>3. \A q \in Installer \ {p} : LinkedInv(q)'
  BY <1>1 DEF LinkedInv, Holding, Section, Activating, Chosen
<1>4. ActiveInv' /\ LinkedInv(p)'
  <2> DEFINE f == LinkOrder[at[p]]
  <2>1. CASE Rename(p)
    <3>1. /\ pc[p] = "rename" /\ link[f] = "legacy" /\ at[p] \in 1 .. Len(LinkOrder)
          /\ at' = at /\ current' = current
      BY <1>0, <2>1 DEF Rename, LinkedInv, PlacesInv, Activating
    <3>2. f \in Path /\ \A i \in 1 .. at[p] - 1 : LinkOrder[i] \in Path
      BY <3>1, Links
    <3>3. pc'[p] = "symlink" /\ link' = [link EXCEPT ![f] = "none"]
      BY <2>1, <3>1 DEF InstallerTypeOK, Rename, Goto
    <3>4. current = None
      BY <1>0, <3>1, <3>2 DEF ActiveInv
    <3>5. \A i \in 1 .. at[p] - 1 : link'[LinkOrder[i]] = "link"
      BY <1>0, <3>1, <3>2, <3>3 DEF LinkedInv, Activating
    <3>6. link'[f] = "none" /\ want'[p] >= current'
      BY <1>0, <3>1, <3>2, <3>3 DEF LinkedInv, Chosen, Activating
    <3> QED
      BY <3>1, <3>3, <3>4, <3>5, <3>6 DEF ActiveInv, LinkedInv
  <2>2. CASE Symlink(p)
    <3>1. /\ pc[p] = "symlink" /\ at[p] \in 1 .. Len(LinkOrder)
          /\ at'[p] = at[p] + 1 /\ current' = current
          /\ link' = [link EXCEPT ![f] = "link"]
          /\ pc'[p] \in {"switch", "preserve"}
      BY <1>0, <2>2 DEF InstallerTypeOK, Symlink, PlacesInv, Activating, Goto
    <3>2. f \in Path /\ \A i \in 1 .. at[p] : LinkOrder[i] \in Path
      BY <3>1, Links
    <3>3. \A i \in 1 .. at[p] : link'[LinkOrder[i]] = "link"
      BY <1>0, <3>1, <3>2 DEF LinkedInv, Activating
    <3>4. at'[p] - 1 = at[p]
      BY <3>1
    <3>5. want'[p] >= current'
      BY <1>0, <3>1 DEF LinkedInv, Chosen, Activating
    <3>6. ActiveInv'
      BY <1>0, <3>1 DEF ActiveInv
    <3> QED
      BY <3>1, <3>3, <3>4, <3>5, <3>6 DEF LinkedInv
  <2>3. CASE Switch(p)
    <3>1. /\ pc[p] = "switch" /\ at[p] = Len(LinkOrder) + 1 /\ pc'[p] = "leave"
          /\ link' = link
      BY <2>3 DEF InstallerTypeOK, Switch, PlacesInv, Goto
    <3>2. at[p] - 1 = Len(LinkOrder)
      BY <3>1, Links
    <3>3. \A i \in 1 .. Len(LinkOrder) : link[LinkOrder[i]] = "link"
      BY <1>0, <3>1, <3>2 DEF LinkedInv, Activating
    <3>4. ActiveInv'
      BY <3>1, <3>3, Links DEF ActiveInv
    <3> QED
      BY <3>1, <3>4 DEF LinkedInv, Activating, Chosen
  <2> QED
    BY <2>1, <2>2, <2>3
<1> QED
  BY <1>2, <1>3, <1>4 DEF SafeInv

LEMMA WorldSafe ==
    ASSUME InstallerTypeOK, SafeInv,
           \/ \E p \in Installer : Crash(p)
           \/ Publish
           \/ \E r \in Release : Damage(r)
           \/ UNCHANGED installerVars
    PROVE  SafeInv'
<1>1. UNCHANGED <<lock, want, at, link, current>>
  BY DEF Crash, Publish, Damage, installerVars, process, disk
<1>2. \A q \in Installer : pc'[q] = pc[q] \/ pc'[q] = "dead"
  BY DEF InstallerTypeOK, Crash, Publish, Damage, installerVars, process, Goto
<1>3. HolderInv'
  BY <1>1, <1>2 DEF SafeInv, HolderInv, Holding, Section
<1>4. ASSUME NEW q \in Installer PROVE LinkedInv(q)'
  <2>1. LinkedInv(q)
    BY DEF SafeInv
  <2> QED
    BY <1>1, <1>2, <2>1 DEF LinkedInv, Activating, Chosen
<1>5. ActiveInv'
  BY <1>1 DEF SafeInv, ActiveInv
<1> QED
  BY <1>3, <1>4, <1>5 DEF SafeInv

LEMMA InstallerSteps == InstallerInv /\ [InstallerNext]_installerVars => InstallerInv'
<1> SUFFICES ASSUME InstallerInv, [InstallerNext]_installerVars
             PROVE  InstallerInv'
  OBVIOUS
<1>0. InstallerTypeOK /\ PlacesInv /\ (~stolen => SafeInv) /\ ContentInv'
  BY ContentKept DEF InstallerInv, SafeInv
<1>1. ASSUME NEW p \in Installer, InstallStep(p)
      PROVE  InstallerTypeOK' /\ PlacesInv' /\ (~stolen' => SafeInv')
  <2>1. CASE \/ Create(p) \/ Taken(p) \/ ReadOwner(p) \/ Unlink(p) \/ WritePid(p) \/ Leave(p)
    BY <1>0, <2>1, LockTypes, LockSafe
  <2>2. CASE \/ ReadManifest(p) \/ Fetch(p) \/ FetchFails(p) \/ FindFinal(p) \/ Move(p)
             \/ VerifyFinal(p) \/ Undo(p)
    <3>1. stolen' = stolen
      BY <2>2 DEF ReadManifest, Fetch, FetchFails, FindFinal, Move, VerifyFinal, Undo
    <3> QED
      BY <1>0, <2>2, <3>1, StageTypes, StageSafe
  <2>3. CASE Preserve(p) \/ Rename(p) \/ Symlink(p) \/ Switch(p)
    <3>1. stolen' = stolen
      BY <2>3 DEF Preserve, Rename, Symlink, Switch
    <3> QED
      BY <1>0, <2>3, <3>1, LinkTypes, StageSafe, LinkSafe
  <2> QED
    BY <1>1, <2>1, <2>2, <2>3 DEF InstallStep
<1>2. CASE \/ \E p \in Installer : Crash(p)
           \/ Publish
           \/ \E r \in Release : Damage(r)
           \/ UNCHANGED installerVars
  <2>1. stolen' = stolen
    BY <1>2 DEF Crash, Publish, Damage, installerVars
  <2>2. InstallerTypeOK' /\ PlacesInv'
    BY <1>0, <1>2, WorldTypes
  <2>3. ~stolen => SafeInv'
    BY <1>0, <1>2, WorldSafe
  <2> QED
    BY <1>0, <2>1, <2>2, <2>3 DEF InstallerInv, SafeInv
<1>3. CASE \E p \in Installer : InstallStep(p)
  BY <1>0, <1>1, <1>3 DEF InstallerInv, SafeInv
<1> QED
  BY <1>2, <1>3 DEF InstallerNext

LEMMA InstallerAlways == InstallerSpec => []InstallerInv
BY InstallerStarts, InstallerSteps, PTL DEF InstallerSpec

\* The types of Installer hold in every state.
THEOREM SpecInstallerTypeOK == InstallerSpec => []InstallerTypeOK
<1>1. InstallerInv => InstallerTypeOK
  BY DEF InstallerInv
<1> QED
  BY <1>1, InstallerAlways, PTL

\* The active release is whole and of one version, unless it was damaged after it
\* was verified; and as long as no lock of a running process was unlinked every
\* path leads to it, wherever processes die and however many install.
THEOREM SpecNeverMixed == InstallerSpec => []NeverMixed
<1>1. InstallerInv => NeverMixed
  BY DEF InstallerInv, ActiveInv, ContentInv, NeverMixed
<1> QED
  BY <1>1, InstallerAlways, PTL

\* Only Switch changes `current`.
LEMMA OnlySwitchActivates ==
    ASSUME [InstallerNext]_installerVars
    PROVE  current' = current \/ \E p \in Installer : Switch(p)
<1>1. ASSUME NEW p \in Installer, InstallStep(p), ~Switch(p)
      PROVE  current' = current
  BY <1>1 DEF InstallStep, Create, Taken, ReadOwner, Unlink, WritePid, Leave, ReadManifest, Fetch,
              FetchFails, FindFinal, Move, VerifyFinal, Undo, Preserve, Rename, Symlink, disk
<1>2. CASE \/ \E p \in Installer : Crash(p)
           \/ Publish
           \/ \E r \in Release : Damage(r)
           \/ UNCHANGED installerVars
  BY <1>2 DEF Crash, Publish, Damage, installerVars, disk
<1> QED
  BY <1>1, <1>2 DEF InstallerNext

\* An update never activates an older release than the one that is active,
\* whatever the service publishes meanwhile.
THEOREM SpecNeverDowngrades == InstallerSpec => NeverDowngrades
<1>1. InstallerInv /\ [InstallerNext]_installerVars => [~stolen' => current' >= current]_installerVars
  <2> SUFFICES ASSUME InstallerInv, [InstallerNext]_installerVars, ~stolen'
               PROVE  current' >= current
    OBVIOUS
  <2>1. current \in Nat
    BY DEF InstallerInv, InstallerTypeOK, Release, None
  <2>2. ASSUME NEW p \in Installer, Switch(p)
        PROVE  current' >= current
    <3>1. pc[p] = "switch" /\ current' = want[p] /\ ~stolen
      BY <2>2 DEF Switch
    <3>2. LinkedInv(p)
      BY <3>1 DEF InstallerInv
    <3> QED
      BY <3>1, <3>2 DEF LinkedInv, Chosen, Activating
  <2> QED
    BY <2>1, <2>2, OnlySwitchActivates
<1> QED
  BY <1>1, InstallerAlways, PTL DEF InstallerSpec, NeverDowngrades

\* A file of the layout before the bundles is moved aside and never lost.
THEOREM SpecLegacyIsKept == InstallerSpec => LegacyIsKept
<1>1. ASSUME InstallerInv, [InstallerNext]_installerVars, ~stolen', NEW f \in Path,
             "legacy" \in {link[f], backup[f]}
      PROVE  "legacy" \in {link'[f], backup'[f]}
  <2>0. InstallerTypeOK /\ PlacesInv
    BY <1>1 DEF InstallerInv
  <2>1. CASE link' = link /\ backup' = backup
    BY <1>1, <2>1
  <2>2. ASSUME NEW p \in Installer, Rename(p) \/ Symlink(p)
        PROVE  "legacy" \in {link'[f], backup'[f]}
    <3>1. ~stolen /\ pc[p] \in {"rename", "symlink"}
      BY <1>1, <2>2 DEF Rename, Symlink
    <3>2. LinkedInv(p) /\ LinkOrder[at[p]] \in Path
      BY <1>1, <2>0, <3>1, Links DEF InstallerInv, PlacesInv, Activating
    <3>3. CASE Rename(p)
      <4>1. /\ link[LinkOrder[at[p]]] = "legacy"
            /\ link' = [link EXCEPT ![LinkOrder[at[p]]] = "none"]
            /\ backup' = [backup EXCEPT ![LinkOrder[at[p]]] = "legacy"]
        BY <3>2, <3>3 DEF LinkedInv, Rename, Moved
      <4> QED
        BY <1>1, <2>0, <3>2, <4>1 DEF InstallerTypeOK
    <3>4. CASE Symlink(p)
      <4>1. /\ link[LinkOrder[at[p]]] # "legacy" /\ backup' = backup
            /\ link' = [link EXCEPT ![LinkOrder[at[p]]] = "link"]
        BY <3>2, <3>4 DEF LinkedInv, Symlink
      <4> QED
        BY <1>1, <2>0, <3>2, <4>1 DEF InstallerTypeOK
    <3> QED
      BY <2>2, <3>3, <3>4
  <2>3. ASSUME NEW p \in Installer, InstallStep(p), ~Rename(p), ~Symlink(p)
        PROVE  link' = link /\ backup' = backup
    BY <2>3 DEF InstallStep, Create, Taken, ReadOwner, Unlink, WritePid, Leave, ReadManifest, Fetch,
                FetchFails, FindFinal, Move, VerifyFinal, Undo, Preserve, Switch, disk
  <2>4. CASE \/ \E p \in Installer : Crash(p)
             \/ Publish
             \/ \E r \in Release : Damage(r)
             \/ UNCHANGED installerVars
    BY <2>1, <2>4 DEF Crash, Publish, Damage, installerVars, disk
  <2> QED
    BY <1>1, <2>1, <2>2, <2>3, <2>4 DEF InstallerNext
<1>2. InstallerInv /\ [InstallerNext]_installerVars =>
          [~stolen' => \A f \in Path :
              "legacy" \in {link[f], backup[f]} => "legacy" \in {link'[f], backup'[f]}]_installerVars
  BY <1>1
<1> QED
  BY <1>2, InstallerAlways, PTL DEF InstallerSpec, LegacyIsKept

-----------------------------------------------------------------------------
(* The gateway process of a folder.  A command acts on what it has read: a *)
(* start goes on because the process it read of does not run, which stays  *)
(* so since no process starts twice (StartInv), and what a command is about *)
(* to write says "stopped" of no process that runs (RewriteInv).  So a     *)
(* record is only ever replaced by one that is as good for the process it  *)
(* named, or by a command that never read it (RecordInv).                  *)

Runs(c) == daemon[c] \in {"booting", "serving"}

OnRecord(c) == record # NoRecord /\ record.pid = c /\ record.status # "stopped"

SpawnInv(c) ==
    /\ place[c] \in {"idle", "check"} => daemon[c] = "none"
    /\ place[c] \in {"wait", "write"} => daemon[c] # "none"
    /\ seen[c] # NoRecord => daemon[seen[c].pid] # "none"

StartInv(c) ==
    place[c] \in {"check", "wait", "write"} /\ seen[c] # NoRecord => ~Runs(seen[c].pid)

RewriteInv(c) ==
    /\ place[c] \in {"signal", "confirm", "rewrite"} => seen[c] \in Record
    /\ place[c] = "rewrite" /\ seen[c].status = "stopped" => ~Runs(seen[c].pid)

RecordInv ==
    \A c \in Command \ unrecorded : Runs(c) => OnRecord(c) \/ \E d \in Command : c \in Recording(d)

ServiceInv ==
    /\ ServiceTypeOK
    /\ record # NoRecord => daemon[record.pid] # "none"
    /\ \A c \in Command : SpawnInv(c) /\ StartInv(c) /\ RewriteInv(c)
    /\ RecordInv

LEMMA NoRecordIsNone ==
    /\ NoRecord \notin Record
    /\ \A r \in Record : /\ r.pid \in Command /\ r.port \in Port
                         /\ r.status \in {"running", "stopped", "stopping"}
BY DEF NoRecord, Record

LEMMA ServiceStarts == ServiceInit => ServiceInv
<1> SUFFICES ASSUME ServiceInit
             PROVE  ServiceInv
  OBVIOUS
<1>1. ServiceTypeOK
  BY DEF ServiceInit, ServiceTypeOK
<1>2. /\ record = NoRecord
      /\ \A c \in Command : place[c] = "idle" /\ daemon[c] = "none" /\ seen[c] = NoRecord
  BY DEF ServiceInit
<1> QED
  BY <1>1, <1>2 DEF ServiceInv, SpawnInv, StartInv, RewriteInv, RecordInv, Runs

\* A step of one command that spawns nothing leaves what the others know as it is.
LEMMA OthersAreLeft ==
    ASSUME ServiceInv, NEW c \in Command, NEW d \in Command \ {c},
           place'[d] = place[d], seen'[d] = seen[d],
           \A e \in Command : (Runs(e)' => Runs(e)) /\ (daemon[e] # "none" => daemon'[e] # "none"),
           place[d] \in {"idle", "check"} => daemon'[d] = daemon[d]
    PROVE  /\ SpawnInv(d)' /\ StartInv(d)' /\ RewriteInv(d)'
           /\ Recording(d)' = Recording(d)
<1>1. SpawnInv(d) /\ StartInv(d) /\ RewriteInv(d)
  BY DEF ServiceInv
<1>2. seen[d] # NoRecord => seen[d].pid \in Command
  BY NoRecordIsNone DEF ServiceInv, ServiceTypeOK
<1>3. Recording(d)' = Recording(d)
  BY DEF Recording
<1>4. SpawnInv(d)'
  BY <1>1, <1>2 DEF SpawnInv
<1>5. StartInv(d)' /\ RewriteInv(d)'
  BY <1>1, <1>2, NoRecordIsNone DEF StartInv, RewriteInv
<1> QED
  BY <1>3, <1>4, <1>5

\* A command reads the record.
LEMMA CommandBegins ==
    ASSUME ServiceInv, NEW c \in Command, Start(c) \/ Stop(c)
    PROVE  ServiceInv'
<1>0. ServiceTypeOK /\ RecordInv /\ SpawnInv(c)
  BY DEF ServiceInv
<1>1. PICK next \in {"check", "done", "signal"} :
          /\ Begin(c, next)
          /\ next = "check" => ~AlreadyRunning(record)
          /\ next = "signal" => record # NoRecord
  BY DEF Start, Stop
<1>2. /\ place[c] = "idle" /\ place'[c] = next /\ seen'[c] = record
      /\ \A d \in Command \ {c} : place'[d] = place[d] /\ seen'[d] = seen[d]
      /\ place' \in [Command -> {"idle", "done", "failed"} \cup Waiting]
      /\ seen' \in [Command -> Record \cup {NoRecord}]
  BY <1>0, <1>1 DEF Begin, ServiceTypeOK, Waiting
<1>3. UNCHANGED <<record, daemon, held, unrecorded>>
  BY DEF Start, Stop
<1>4. ServiceTypeOK'
  <2>1. chosen' \in [Command -> Port]
    <3>1. PortChoices \subseteq Port
      BY <1>0, NoRecordIsNone DEF ServiceTypeOK, PortChoices
    <3>2. chosen' = chosen \/ \E p \in PortChoices \cup {chosen[c]} : chosen' = [chosen EXCEPT ![c] = p]
      BY DEF Start, Stop
    <3> QED
      BY <1>0, <3>1, <3>2 DEF ServiceTypeOK
  <2> QED
    BY <1>0, <1>2, <1>3, <2>1 DEF ServiceTypeOK
<1>5. \A e \in Command : Runs(e)' = Runs(e)
  BY <1>3 DEF Runs
<1>6. ASSUME NEW d \in Command \ {c}
      PROVE  SpawnInv(d)' /\ StartInv(d)' /\ RewriteInv(d)' /\ Recording(d)' = Recording(d)
  BY <1>2, <1>3, <1>5, OthersAreLeft
<1>7. SpawnInv(c)' /\ StartInv(c)' /\ RewriteInv(c)'
  <2>1. record # NoRecord => daemon[record.pid] # "none"
    BY DEF ServiceInv
  <2>2. SpawnInv(c)'
    BY <1>0, <1>2, <1>3, <2>1 DEF SpawnInv
  <2>3. StartInv(c)'
    BY <1>1, <1>2, <1>3 DEF StartInv, AlreadyRunning, Running, Runs
  <2>4. RewriteInv(c)'
    BY <1>0, <1>1, <1>2 DEF RewriteInv, ServiceTypeOK
  <2> QED
    BY <2>2, <2>3, <2>4
<1>8. RecordInv'
  <2>1. Recording(c) = {}
    BY <1>2 DEF Recording
  <2>2. \A x \in Command : OnRecord(x)' = OnRecord(x)
    BY <1>3 DEF OnRecord
  <2> QED
    BY <1>0, <1>3, <1>5, <1>6, <2>1, <2>2 DEF RecordInv
<1> QED
  BY <1>3, <1>4, <1>6, <1>7, <1>8 DEF ServiceInv

\* A new process is none that anybody has read of.
LEMMA ProcessIsSpawned ==
    ASSUME ServiceInv, NEW c \in Command, Spawn(c)
    PROVE  ServiceInv'
<1>0. ServiceTypeOK /\ RecordInv /\ SpawnInv(c) /\ StartInv(c)
  BY DEF ServiceInv
<1>1. /\ place[c] = "check" /\ place' = [place EXCEPT ![c] = "wait"]
      /\ daemon' = [daemon EXCEPT ![c] = "booting"]
      /\ UNCHANGED <<record, held, chosen, seen, unrecorded>>
  BY DEF Spawn, Continue
<1>2. daemon[c] = "none" /\ daemon'[c] = "booting"
  BY <1>0, <1>1 DEF SpawnInv, ServiceTypeOK
<1>3. /\ \A d \in Command \ {c} : place'[d] = place[d] /\ daemon'[d] = daemon[d]
      /\ place'[c] = "wait"
  BY <1>0, <1>1 DEF ServiceTypeOK
<1>4. ServiceTypeOK'
  BY <1>0, <1>1 DEF ServiceTypeOK, Waiting
<1>5. /\ record # NoRecord => record.pid \in Command \ {c}
      /\ \A d \in Command : seen[d] # NoRecord => seen[d].pid \in Command \ {c}
  BY <1>0, <1>2, NoRecordIsNone DEF ServiceInv, SpawnInv, ServiceTypeOK
<1>6. ASSUME NEW d \in Command
      PROVE  SpawnInv(d)' /\ StartInv(d)' /\ RewriteInv(d)'
  <2>1. SpawnInv(d) /\ StartInv(d) /\ RewriteInv(d)
    BY DEF ServiceInv
  <2>2. SpawnInv(d)'
    BY <1>1, <1>2, <1>3, <1>5, <2>1 DEF SpawnInv
  <2>3. StartInv(d)'
    BY <1>1, <1>3, <1>5, <2>1 DEF StartInv, Runs
  <2>4. RewriteInv(d)'
    BY <1>1, <1>3, <1>5, <2>1, NoRecordIsNone DEF RewriteInv, Runs
  <2> QED
    BY <2>2, <2>3, <2>4
<1>7. RecordInv'
  <2>1. c \in Recording(c)'
    BY <1>3 DEF Recording
  <2>2. \A d \in Command : Recording(d) \subseteq Recording(d)'
    BY <1>1, <1>3 DEF Recording
  <2>3. \A x \in Command \ {c} : Runs(x)' = Runs(x) /\ OnRecord(x)' = OnRecord(x)
    BY <1>1, <1>3 DEF Runs, OnRecord
  <2> QED
    BY <1>0, <1>1, <2>1, <2>2, <2>3 DEF RecordInv
<1> QED
  BY <1>1, <1>3, <1>4, <1>5, <1>6, <1>7 DEF ServiceInv

\* A command goes on, or ends, without a word about the record.
LEMMA CommandContinues ==
    ASSUME ServiceInv, NEW c \in Command,
           \/ PortTaken(c) \/ Answered(c) \/ Exited(c) \/ TooSlow(c) \/ Kill(c) \/ Signal(c)
    PROVE  ServiceInv'
<1>0. ServiceTypeOK /\ RecordInv /\ SpawnInv(c) /\ StartInv(c) /\ RewriteInv(c)
  BY DEF ServiceInv
<1>1. PICK next \in {"write", "confirm", "failed"} :
          /\ place' = [place EXCEPT ![c] = next]
          /\ next = "write" => place[c] = "wait"
          /\ next = "confirm" => place[c] = "signal"
  BY DEF PortTaken, Answered, Exited, TooSlow, Kill, Signal, Continue
<1>2. place[c] \in Waiting /\ UNCHANGED <<record, chosen, seen>>
  BY DEF PortTaken, Answered, Exited, TooSlow, Kill, Signal, Continue, Waiting
<1>3. /\ daemon' \in [Command -> {"none", "booting", "serving", "dead"}]
      /\ held' \in [Port -> Command \cup {"nobody", "other"}]
      /\ unrecorded' \subseteq Command /\ unrecorded \subseteq unrecorded'
      /\ \A e \in Command : /\ Runs(e)' => Runs(e)
                            /\ daemon[e] # "none" <=> daemon'[e] # "none"
  <2>1. CASE Signal(c)
    <3>1. place[c] = "signal" /\ unrecorded' = unrecorded
      BY <2>1 DEF Signal, Continue
    <3>2. seen[c].pid \in Command
      BY <1>0, <3>1, NoRecordIsNone DEF RewriteInv
    <3>3. daemon[seen[c].pid] # "none"
      BY <1>0, <3>1, NoRecordIsNone DEF RewriteInv, SpawnInv
    <3>4. \/ daemon' = [daemon EXCEPT ![seen[c].pid] = "dead"] /\ held' = Released(seen[c].pid)
          \/ UNCHANGED <<daemon, held>>
      BY <2>1 DEF Signal
    <3>5. held' \in [Port -> Command \cup {"nobody", "other"}]
      BY <1>0, <3>2, <3>4 DEF ServiceTypeOK, Released
    <3> QED
      BY <1>0, <3>1, <3>2, <3>3, <3>4, <3>5 DEF ServiceTypeOK, Runs
  <2>2. CASE ~Signal(c)
    <3>1. UNCHANGED <<daemon, held>>
      BY <2>2 DEF PortTaken, Answered, Exited, TooSlow, Kill
    <3>2. Recording(c) \subseteq Command
      BY <1>0, NoRecordIsNone DEF Recording, RewriteInv
    <3>3. unrecorded' \subseteq Command /\ unrecorded \subseteq unrecorded'
      BY <1>0, <2>2, <3>2 DEF ServiceTypeOK, PortTaken, Answered, Exited, TooSlow, Kill
    <3> QED
      BY <1>0, <3>1, <3>3 DEF ServiceTypeOK, Runs
  <2> QED
    BY <2>1, <2>2
<1>4. ServiceTypeOK'
  <2>1. place' \in [Command -> {"idle", "done", "failed"} \cup Waiting]
    BY <1>0, <1>1 DEF ServiceTypeOK, Waiting
  <2> QED
    BY <1>0, <1>2, <1>3, <2>1 DEF ServiceTypeOK
<1>5. /\ place'[c] = next
      /\ \A d \in Command \ {c} : place'[d] = place[d] /\ seen'[d] = seen[d]
  BY <1>0, <1>1, <1>2 DEF ServiceTypeOK
<1>6. ASSUME NEW d \in Command \ {c}
      PROVE  SpawnInv(d)' /\ StartInv(d)' /\ RewriteInv(d)' /\ Recording(d)' = Recording(d)
  <2>1. place[d] \in {"idle", "check"} => daemon'[d] = daemon[d]
    BY <1>0, <1>3 DEF ServiceInv, SpawnInv
  <2> QED
    BY <1>3, <1>5, <2>1, OthersAreLeft
<1>7. SpawnInv(c)' /\ StartInv(c)' /\ RewriteInv(c)'
  <2>1. seen[c] # NoRecord => seen[c].pid \in Command
    BY <1>0, NoRecordIsNone DEF ServiceTypeOK
  <2>2. SpawnInv(c)'
    BY <1>0, <1>1, <1>2, <1>3, <1>5, <2>1 DEF SpawnInv
  <2>3. StartInv(c)'
    BY <1>0, <1>1, <1>2, <1>3, <1>5, <2>1 DEF StartInv
  <2>4. RewriteInv(c)'
    BY <1>0, <1>1, <1>2, <1>5 DEF RewriteInv
  <2> QED
    BY <2>2, <2>3, <2>4
<1>8. ASSUME NEW x \in Recording(c), x \notin unrecorded', Runs(x)'
      PROVE  x \in Recording(c)'
  <2>1. Runs(x) /\ place[c] \in {"wait", "write", "rewrite"}
    <3>1. x \in Command
      BY <1>0, NoRecordIsNone DEF Recording, RewriteInv
    <3> QED
      BY <1>3, <1>8, <3>1 DEF Recording
  <2>2. next = "write"
    <3>1. ~PortTaken(c) /\ ~Signal(c)
      BY <2>1 DEF PortTaken, Signal, Continue
    <3>2. ~Kill(c)
      BY <1>8 DEF Kill
    <3>3. ~Exited(c) /\ ~TooSlow(c)
      <4>1. place[c] = "wait" => x = c
        BY DEF Recording
      <4> QED
        BY <1>8, <2>1, <4>1 DEF Exited, TooSlow, Continue, Runs
    <3>4. Answered(c)
      BY <3>1, <3>2, <3>3
    <3>5. place' = [place EXCEPT ![c] = "write"]
      BY <3>4 DEF Answered, Continue
    <3> QED
      BY <1>0, <1>5, <3>5 DEF ServiceTypeOK
  <2> QED
    BY <1>1, <1>5, <2>2 DEF Recording
<1>9. RecordInv'
  <2>1. \A x \in Command : OnRecord(x)' = OnRecord(x)
    BY <1>2 DEF OnRecord
  <2> QED
    BY <1>0, <1>3, <1>6, <1>8, <2>1 DEF RecordInv
<1>10. (record # NoRecord => daemon[record.pid] # "none")'
  BY <1>0, <1>2, <1>3, NoRecordIsNone DEF ServiceInv, ServiceTypeOK
<1> QED
  BY <1>4, <1>6, <1>7, <1>9, <1>10 DEF ServiceInv

\* The file is emptied: whom it named is recorded anew, does not run, or is
\* unrecorded from now on.
LEMMA RecordIsEmptied ==
    ASSUME ServiceInv, NEW c \in Command, WriteRecord(c) \/ Confirm(c)
    PROVE  ServiceInv'
<1>0. ServiceTypeOK /\ RecordInv /\ SpawnInv(c) /\ StartInv(c) /\ RewriteInv(c)
  BY DEF ServiceInv
<1>1. PICK new \in Record :
          /\ Truncate(c, place[c], new)
          /\ daemon[new.pid] # "none"
          /\ new.status = "stopped" => ~Runs(new.pid)
          /\ \/ place[c] = "write" /\ new.pid = c
             \/ place[c] = "confirm" /\ new.pid = seen[c].pid
  <2>1. CASE WriteRecord(c)
    <3> DEFINE new == [pid |-> c, port |-> chosen[c], status |-> "running"]
    <3>1. Truncate(c, "write", new) /\ place[c] = "write"
      BY <2>1 DEF WriteRecord, Truncate, Continue
    <3>2. new \in Record
      BY <1>0 DEF ServiceTypeOK, Record
    <3>3. daemon[c] # "none"
      BY <1>0, <3>1 DEF SpawnInv
    <3> QED
      BY <3>1, <3>2, <3>3
  <2>2. CASE Confirm(c)
    <3> DEFINE new == [seen[c] EXCEPT !.status = IF IsStopped(seen[c]) THEN "stopped" ELSE "stopping"]
    <3>1. Truncate(c, "confirm", new) /\ place[c] = "confirm"
      BY <2>2 DEF Confirm, Truncate, Continue
    <3>2. seen[c] \in Record /\ seen[c] # NoRecord
      BY <1>0, <3>1, NoRecordIsNone DEF RewriteInv
    <3>3. new \in Record /\ new.pid = seen[c].pid /\ (new.status = "stopped" => IsStopped(seen[c]))
      BY <3>2 DEF Record
    <3>4. daemon[seen[c].pid] # "none"
      BY <1>0, <3>2 DEF SpawnInv
    <3>5. IsStopped(seen[c]) => ~Runs(seen[c].pid)
      BY <3>2 DEF IsStopped, Running, Runs
    <3> QED
      BY <3>1, <3>3, <3>4, <3>5
  <2> QED
    BY <2>1, <2>2
<1>2. /\ place' = [place EXCEPT ![c] = "rewrite"] /\ seen' = [seen EXCEPT ![c] = new]
      /\ record' = NoRecord /\ unrecorded' = unrecorded \cup Orphaned(c)
      /\ UNCHANGED <<daemon, held, chosen>>
  BY <1>1 DEF Truncate, Continue, WriteRecord, Confirm
<1>3. /\ place'[c] = "rewrite" /\ seen'[c] = new
      /\ \A d \in Command \ {c} : place'[d] = place[d] /\ seen'[d] = seen[d]
  BY <1>0, <1>2 DEF ServiceTypeOK
<1>4. ServiceTypeOK'
  <2>1. place' \in [Command -> {"idle", "done", "failed"} \cup Waiting]
    BY <1>0, <1>2 DEF ServiceTypeOK, Waiting
  <2>2. seen' \in [Command -> Record \cup {NoRecord}] /\ Orphaned(c) \subseteq Command
    BY <1>0, <1>2, NoRecordIsNone DEF ServiceTypeOK, Orphaned
  <2> QED
    BY <1>0, <1>2, <2>1, <2>2 DEF ServiceTypeOK
<1>5. \A e \in Command : Runs(e)' = Runs(e)
  BY <1>2 DEF Runs
<1>6. ASSUME NEW d \in Command \ {c}
      PROVE  SpawnInv(d)' /\ StartInv(d)' /\ RewriteInv(d)' /\ Recording(d)' = Recording(d)
  BY <1>2, <1>3, <1>5, OthersAreLeft
<1>7. SpawnInv(c)' /\ StartInv(c)' /\ RewriteInv(c)'
  BY <1>1, <1>2, <1>3 DEF SpawnInv, StartInv, RewriteInv, Runs
<1>8. Recording(c)' = {new.pid}
  BY <1>3 DEF Recording
<1>9. RecordInv'
  <2>1. ASSUME NEW x \in Command \ unrecorded', Runs(x)', OnRecord(x)
        PROVE  x = new.pid
    <3>1. seen[c] # NoRecord /\ x = seen[c].pid
      BY <1>2, <2>1 DEF Orphaned, OnRecord
    <3>2. CASE place[c] = "write"
      BY <1>0, <1>5, <2>1, <3>1, <3>2 DEF StartInv
    <3>3. CASE place[c] = "confirm"
      BY <1>1, <3>1, <3>3
    <3> QED
      BY <1>1, <3>2, <3>3
  <2>2. Recording(c) \subseteq {new.pid}
    BY <1>1 DEF Recording
  <2> QED
    BY <1>0, <1>2, <1>5, <1>6, <1>8, <2>1, <2>2 DEF RecordInv
<1> QED
  BY <1>2, <1>4, <1>6, <1>7, <1>9 DEF ServiceInv

LEMMA RecordIsWritten ==
    ASSUME ServiceInv, NEW c \in Command, Write(c)
    PROVE  ServiceInv'
<1>0. ServiceTypeOK /\ RecordInv /\ SpawnInv(c) /\ RewriteInv(c)
  BY DEF ServiceInv
<1>1. /\ place[c] = "rewrite" /\ place' = [place EXCEPT ![c] = "done"]
      /\ record' = seen[c] /\ unrecorded' = unrecorded \cup Orphaned(c)
      /\ UNCHANGED <<daemon, held, chosen, seen>>
  BY DEF Write, Continue
<1>2. seen[c] \in Record /\ seen[c] # NoRecord
  BY <1>0, <1>1, NoRecordIsNone DEF RewriteInv
<1>3. /\ place'[c] = "done"
      /\ \A d \in Command \ {c} : place'[d] = place[d] /\ seen'[d] = seen[d]
  BY <1>0, <1>1 DEF ServiceTypeOK
<1>4. ServiceTypeOK'
  <2>1. place' \in [Command -> {"idle", "done", "failed"} \cup Waiting]
    BY <1>0, <1>1 DEF ServiceTypeOK, Waiting
  <2>2. Orphaned(c) \subseteq Command
    BY <1>0, NoRecordIsNone DEF ServiceTypeOK, Orphaned
  <2> QED
    BY <1>0, <1>1, <1>2, <2>1, <2>2 DEF ServiceTypeOK
<1>5. \A e \in Command : Runs(e)' = Runs(e)
  BY <1>1 DEF Runs
<1>6. ASSUME NEW d \in Command \ {c}
      PROVE  SpawnInv(d)' /\ StartInv(d)' /\ RewriteInv(d)' /\ Recording(d)' = Recording(d)
  BY <1>1, <1>3, <1>5, OthersAreLeft
<1>7. SpawnInv(c)' /\ StartInv(c)' /\ RewriteInv(c)'
  BY <1>0, <1>1, <1>3 DEF SpawnInv, StartInv, RewriteInv
<1>8. ASSUME NEW x \in Command \ unrecorded', Runs(x)', OnRecord(x) \/ x \in Recording(c)
      PROVE  OnRecord(x)'
  <2>1. x = seen[c].pid
    BY <1>1, <1>8 DEF Orphaned, OnRecord, Recording
  <2>2. seen[c].status # "stopped"
    BY <1>0, <1>1, <1>5, <1>8, <2>1 DEF RewriteInv
  <2> QED
    BY <1>1, <1>2, <2>1, <2>2 DEF OnRecord
<1>9. RecordInv'
  BY <1>0, <1>1, <1>5, <1>6, <1>8 DEF RecordInv
<1>10. (record # NoRecord => daemon[record.pid] # "none")'
  BY <1>0, <1>1, <1>2 DEF SpawnInv
<1> QED
  BY <1>4, <1>6, <1>7, <1>9, <1>10 DEF ServiceInv

\* Processes start to listen or end, and other programs take ports.
LEMMA ProcessesMove ==
    ASSUME ServiceInv,
           \/ \E c \in Command : Listen(c) \/ Die(c)
           \/ \E p \in Port : OtherListens(p)
           \/ UNCHANGED serviceVars
    PROVE  ServiceInv'
<1>0. ServiceTypeOK /\ RecordInv
  BY DEF ServiceInv
<1>1. UNCHANGED <<record, place, chosen, seen, unrecorded>>
  BY DEF Listen, Die, OtherListens, serviceVars
<1>2. /\ daemon' \in [Command -> {"none", "booting", "serving", "dead"}]
      /\ held' \in [Port -> Command \cup {"nobody", "other"}]
      /\ \A d \in Command : (Runs(d)' => Runs(d)) /\ (daemon[d] = "none" <=> daemon'[d] = "none")
  <2>1. ASSUME NEW c \in Command, Listen(c)
        PROVE  /\ daemon' \in [Command -> {"none", "booting", "serving", "dead"}]
               /\ held' \in [Port -> Command \cup {"nobody", "other"}]
               /\ \A d \in Command : (Runs(d)' => Runs(d)) /\ (daemon[d] = "none" <=> daemon'[d] = "none")
    BY <1>0, <2>1 DEF ServiceTypeOK, Listen, Runs
  <2>2. ASSUME NEW c \in Command, Die(c)
        PROVE  /\ daemon' \in [Command -> {"none", "booting", "serving", "dead"}]
               /\ held' \in [Port -> Command \cup {"nobody", "other"}]
               /\ \A d \in Command : (Runs(d)' => Runs(d)) /\ (daemon[d] = "none" <=> daemon'[d] = "none")
    BY <1>0, <2>2 DEF ServiceTypeOK, Die, Released, Runs
  <2>3. CASE \E p \in Port : OtherListens(p)
    BY <1>0, <2>3 DEF ServiceTypeOK, OtherListens, Runs
  <2>4. CASE UNCHANGED serviceVars
    BY <1>0, <2>4 DEF ServiceTypeOK, serviceVars, Runs
  <2> QED
    BY <2>1, <2>2, <2>3, <2>4
<1>3. ServiceTypeOK'
  BY <1>0, <1>1, <1>2 DEF ServiceTypeOK
<1>4. ASSUME NEW d \in Command
      PROVE  SpawnInv(d)' /\ StartInv(d)' /\ RewriteInv(d)' /\ Recording(d)' = Recording(d)
  <2>1. SpawnInv(d) /\ StartInv(d) /\ RewriteInv(d)
    BY DEF ServiceInv
  <2>2. seen[d] # NoRecord => seen[d].pid \in Command
    BY <1>0, NoRecordIsNone DEF ServiceTypeOK
  <2>3. SpawnInv(d)' /\ Recording(d)' = Recording(d)
    BY <1>1, <1>2, <2>1, <2>2 DEF SpawnInv, Recording
  <2>4. StartInv(d)' /\ RewriteInv(d)'
    BY <1>1, <1>2, <2>1, <2>2, NoRecordIsNone DEF StartInv, RewriteInv
  <2> QED
    BY <2>3, <2>4
<1>5. RecordInv'
  <2>1. \A x \in Command : OnRecord(x)' = OnRecord(x)
    BY <1>1 DEF OnRecord
  <2> QED
    BY <1>0, <1>1, <1>2, <1>4, <2>1 DEF RecordInv
<1>6. (record # NoRecord => daemon[record.pid] # "none")'
  BY <1>0, <1>1, <1>2, NoRecordIsNone DEF ServiceInv, ServiceTypeOK
<1> QED
  BY <1>3, <1>4, <1>5, <1>6 DEF ServiceInv

LEMMA ServiceSteps == ServiceInv /\ [ServiceNext]_serviceVars => ServiceInv'
BY CommandBegins, ProcessIsSpawned, CommandContinues, RecordIsEmptied, RecordIsWritten,
   ProcessesMove DEF ServiceNext

LEMMA ServiceAlways == ServiceSpec => []ServiceInv
BY ServiceStarts, ServiceSteps, PTL DEF ServiceSpec

\* The types of Service hold in every state.
THEOREM SpecServiceTypeOK == ServiceSpec => []ServiceTypeOK
<1>1. ServiceInv => ServiceTypeOK
  BY DEF ServiceInv
<1> QED
  BY <1>1, ServiceAlways, PTL

\* A gateway process that runs is on record, or was left without a record in one of
\* three ways, for any number of commands and ports and however they overlap.
THEOREM SpecRunningIsOnRecord == ServiceSpec => []RunningIsOnRecord
<1>1. ServiceInv => RunningIsOnRecord
  BY DEF ServiceInv, RecordInv, RunningIsOnRecord, OnRecord, Runs
<1> QED
  BY <1>1, ServiceAlways, PTL

-----------------------------------------------------------------------------
(* The local index.  A node is quiet for a call as long as nobody writes   *)
(* it; what makes a quiet node's row safe is that no call under way holds  *)
(* an older version of it (UnthreatenedInv), which was so when the call    *)
(* began and stays so because whatever is listed from then on is current.  *)
(* A rebuild's transaction is that of a rebuild that has listed every node *)
(* (TxnInv).  RefreshInv and BrowseInv say how far a refresh and a browse  *)
(* have got with the nodes that are quiet for them.                        *)

UnderWay(c) ==
    /\ indexAt[c] \in {"wrote", "removed"} => IndexKind(c) \in Writing
    /\ indexAt[c] \in {"list", "apply"} => c \in Refreshers
    /\ indexAt[c] \in {"rows", "page"} => IndexKind(c) = "browse"
    /\ indexAt[c] = "apply" => unread[c] = {}

TxnInv ==
    txn # NoRebuild =>
        IndexKind(txn.owner) = "rebuild" /\ indexAt[txn.owner] = "apply" /\ unread[txn.owner] = {}

HoldsNothingOld(d, n) ==
    IF d \in Refreshers
    THEN \/ n \in unread[d]
         \/ listing[d][n] = View(n)
         \/ IndexKind(d) = "sync" /\ listing[d][n] = Unread
    ELSE indexJob[d].node # n

UnthreatenedInv ==
    \A c \in IndexCall : \A n \in quiet[c] : \A d \in IndexCall :
        InFlight(d) => HoldsNothingOld(d, n)

Refreshed(c) == {n \in quiet[c] : stamp[n] > mark[c]}

RefreshInv(c) == c \in Refreshers =>
    /\ indexAt[c] = "done" => \A n \in Refreshed(c) : row[n] = Right(n)
    /\ indexAt[c] \in {"list", "apply"} /\ IndexKind(c) = "sync" =>
           \A n \in Refreshed(c) : n \notin unread[c] /\ listing[c][n] = Unread => row[n] = Right(n)

BrowseInv(c) == IndexKind(c) = "browse" =>
    /\ indexAt[c] = "start" => /\ quiet[c] = {} /\ cursor[c].stamp = MaxTime + 1
                               /\ \A n \in NodeNo : listed[c][n] = 0
    /\ \A n \in quiet[c] :
          /\ row[n] = Right(n)
          /\ listed[c][n] = IF row[n] = 0 \/ Behind(c, n) THEN 0 ELSE 1
          /\ indexAt[c] = "done" => row[n] = 0 \/ ~Behind(c, n)

IndexInv ==
    /\ IndexTypeOK
    /\ time >= 1 /\ \A n \in NodeNo : stamp[n] >= 1
    /\ TxnInv
    /\ UnthreatenedInv
    /\ \A c \in IndexCall : UnderWay(c) /\ RefreshInv(c) /\ BrowseInv(c)

\* The update time of the newest row is a time, because there is a newest one
\* among rows that are bounded.
LEMMA NewestIsATime ==
    ASSUME IndexTypeOK
    PROVE  Newest \in Times
<1> DEFINE S == {row[n] : n \in NodeNo} \cup {0}
           D == {MaxTime - x : x \in S}
<1>1. MaxTime \in Nat /\ S \subseteq Times /\ 0 \in S
  BY IndexAssumption DEF IndexTypeOK, Times
<1>2. D \subseteq Nat /\ D # {}
  BY <1>1 DEF Times
<1> HIDE DEF S
<1>3. PICK y \in D : \A z \in D : <<z, y>> \notin OpToRel(<, Nat)
  BY <1>2, NatLessThanWellFounded, WFMin
<1>4. PICK x \in S : y = MaxTime - x
  BY <1>3
<1>5. \A z \in S : x >= z
  <2>1. SUFFICES ASSUME NEW z \in S
                 PROVE  x >= z
    OBVIOUS
  <2>2. MaxTime - z \in D /\ MaxTime - z \in Nat /\ y \in Nat
    BY <1>2
  <2>3. ~ (MaxTime - z < y)
    BY <1>3, <2>2 DEF OpToRel
  <2>4. x \in Int /\ z \in Int
    BY <1>1 DEF Times
  <2> QED
    BY <1>1, <1>4, <2>3, <2>4
<1>6. Max(S) \in S
  <2>1. \E m \in S : \A z \in S : m >= z
    BY <1>5
  <2> QED
    BY <2>1 DEF Max
<1>7. Newest = Max(S)
  BY DEF Newest, S
<1> QED
  BY <1>1, <1>6, <1>7

LEMMA IndexStarts == IndexInit => IndexInv
<1> SUFFICES ASSUME IndexInit
             PROVE  IndexInv
  OBVIOUS
<1>0. MaxTime \in Nat /\ MaxTime >= 2 /\ NodeNo \subseteq Nat
  BY IndexAssumption
<1>1. indexJob \in [IndexCall -> [kind : IndexKinds, node : NodeNo]]
  BY IndexAssumption DEF IndexInit
<1>2. IndexTypeOK
  <2>1. /\ time \in Times /\ stamp \in [NodeNo -> Times] /\ row \in [NodeNo -> Times]
        /\ gone \in [NodeNo -> BOOLEAN]
    <3>1. 0..2 \subseteq Times /\ 1..2 \subseteq Times /\ 2 \in Times
      BY <1>0 DEF Times
    <3>2. stamp \in [NodeNo -> 1..2] /\ row \in [NodeNo -> 0..2]
      BY DEF IndexInit
    <3>3. stamp \in [NodeNo -> Times] /\ row \in [NodeNo -> Times]
      BY <3>1, <3>2
    <3> QED
      BY <3>1, <3>3 DEF IndexInit
  <2>2. /\ unread \in [IndexCall -> SUBSET NodeNo]
        /\ listing \in [IndexCall -> [NodeNo -> [stamp : Times, gone : BOOLEAN]]]
        /\ mark \in [IndexCall -> Times]
    BY <1>0 DEF IndexInit, Times, Unread
  <2>3. cursor \in [IndexCall -> [stamp : Times \cup {MaxTime + 1}, node : NodeNo \cup {-1}]]
    BY <1>0 DEF IndexInit, Times
  <2>4. listed \in [IndexCall -> [NodeNo -> 0..2]] /\ quiet \in [IndexCall -> SUBSET NodeNo]
    BY DEF IndexInit
  <2> QED
    BY <1>1, <2>1, <2>2, <2>3, <2>4 DEF IndexInit, IndexTypeOK
<1>3. time >= 1 /\ \A n \in NodeNo : stamp[n] >= 1
  BY DEF IndexInit
<1>4. TxnInv /\ UnthreatenedInv
  BY DEF IndexInit, TxnInv, UnthreatenedInv
<1>5. ASSUME NEW c \in IndexCall
      PROVE  UnderWay(c) /\ RefreshInv(c) /\ BrowseInv(c)
  <2>1. UnderWay(c) /\ RefreshInv(c)
    BY DEF IndexInit, UnderWay, RefreshInv
  <2>2. BrowseInv(c)
    BY DEF IndexInit, BrowseInv
  <2> QED
    BY <2>1, <2>2
<1> QED
  BY <1>2, <1>3, <1>4, <1>5 DEF IndexInv

\* What a call does stays what it is, but for a synchronization, which becomes
\* a rebuild when it begins and the graph is not complete.
LEMMA JobsStay ==
    ASSUME IndexTypeOK, NEW c \in IndexCall, StartRefresh(c)
    PROVE  /\ indexJob' \in [IndexCall -> [kind : IndexKinds, node : NodeNo]]
           /\ \A d \in IndexCall : indexJob'[d].node = indexJob[d].node
           /\ \A d \in IndexCall \ {c} : indexJob'[d] = indexJob[d]
           /\ indexJob[c].kind \in Refreshing /\ indexJob'[c].kind \in Refreshing
<1>1. indexJob' = [indexJob EXCEPT ![c].kind = IF Incremental(c) THEN "sync" ELSE "rebuild"]
  BY DEF StartRefresh
<1>2. (IF Incremental(c) THEN "sync" ELSE "rebuild") \in Refreshing
  BY DEF Refreshing
<1>3. indexJob \in [IndexCall -> [kind : IndexKinds, node : NodeNo]] /\ Refreshing \subseteq IndexKinds
  BY DEF IndexTypeOK, Refreshing, IndexKinds
<1>4. indexJob[c].kind \in Refreshing
  BY DEF StartRefresh, IndexKind
<1> QED
  BY <1>1, <1>2, <1>3, <1>4

\* A row is the time of some version of a node, or none.
LEMMA RowsAreTimes ==
    ASSUME IndexTypeOK, NEW c \in IndexCall, NEW n \in NodeNo
    PROVE  RowOf(listing[c][n]) \in Times /\ listing[c][n].stamp \in Times
BY IndexAssumption DEF IndexTypeOK, RowOf, Times

IndexStep(c) ==
    \/ WriteNode(c) \/ RemoveRow(c) \/ IndexNode(c)
    \/ StartRefresh(c) \/ List(c) \/ BeginRebuild(c) \/ PutRows(c) \/ EndRebuild(c) \/ SyncRows(c) \/ Clear(c)
    \/ LookWhetherComplete(c) \/ Browse(c)

\* The types stay, one variable after the other.
LEMMA PlacesStayTyped ==
    ASSUME IndexTypeOK, NEW c \in IndexCall, IndexStep(c)
    PROVE  /\ indexAt' \in [IndexCall -> {"start", "wrote", "removed", "list", "apply", "rows", "page", "done", "failed"}]
           /\ unread' \in [IndexCall -> SUBSET NodeNo]
<1>1. /\ indexAt \in [IndexCall -> {"start", "wrote", "removed", "list", "apply", "rows", "page", "done", "failed"}]
      /\ unread \in [IndexCall -> SUBSET NodeNo]
  BY DEF IndexTypeOK
<1>2. CASE WriteNode(c) \/ Clear(c)
  BY <1>1, <1>2 DEF WriteNode, Clear, IndexGo, IndexEnd
<1>3. CASE RemoveRow(c) \/ IndexNode(c)
  BY <1>1, <1>3 DEF RemoveRow, IndexNode, IndexGo, IndexEnd
<1>4. CASE StartRefresh(c)
  BY <1>1, <1>4 DEF StartRefresh, IndexGo
<1>5. CASE List(c)
  BY <1>1, <1>5 DEF List, IndexEnd, IndexGo
<1>6. CASE BeginRebuild(c) \/ PutRows(c)
  BY <1>1, <1>6 DEF BeginRebuild, PutRows, IndexGo
<1>7. CASE EndRebuild(c)
  BY <1>1, <1>7 DEF EndRebuild, IndexEnd, IndexGo
<1>8. CASE SyncRows(c)
  BY <1>1, <1>8 DEF SyncRows, IndexEnd, IndexGo
<1>9. CASE LookWhetherComplete(c) \/ Browse(c)
  BY <1>1, <1>9 DEF LookWhetherComplete, Browse, IndexGo
<1> QED
  BY <1>2, <1>3, <1>4, <1>5, <1>6, <1>7, <1>8, <1>9 DEF IndexStep

Version == [stamp : Times, gone : BOOLEAN]

LEMMA ListingStaysTyped ==
    ASSUME IndexTypeOK, NEW c \in IndexCall, IndexStep(c)
    PROVE  listing' \in [IndexCall -> [NodeNo -> Version]]
<1>0. Unread \in Version
  BY IndexAssumption DEF Unread, Times, Version
<1>1. listing \in [IndexCall -> [NodeNo -> Version]]
  BY DEF IndexTypeOK, Version
<1>2. \A n \in NodeNo : View(n) \in Version
  BY DEF IndexTypeOK, View, Version
<1>3. ASSUME listing' = [listing EXCEPT ![c] = [n \in NodeNo |-> Unread]]
      PROVE  listing' \in [IndexCall -> [NodeNo -> Version]]
  BY <1>0, <1>1, <1>3
<1>4. ASSUME NEW n \in NodeNo, NEW v \in Version, listing' = [listing EXCEPT ![c][n] = v]
      PROVE  listing' \in [IndexCall -> [NodeNo -> Version]]
  BY <1>1, <1>4
<1>5. CASE listing' = listing
  BY <1>1, <1>5
<1>6. CASE WriteNode(c)
  <2>1. indexJob[c].node \in NodeNo
    BY DEF IndexTypeOK
  <2>2. time' \in Times
    BY <1>6 DEF WriteNode
  <2>3. [stamp |-> time', gone |-> IndexKind(c) = "archive"] \in Version
    BY <2>2 DEF Version
  <2>4. \/ listing' = [listing EXCEPT ![c][indexJob[c].node] = [stamp |-> time', gone |-> IndexKind(c) = "archive"]]
        \/ listing' = listing
    BY <1>6 DEF WriteNode
  <2> QED
    BY <1>4, <1>5, <2>1, <2>3, <2>4
<1>7. CASE List(c)
  <2>1. CASE \E n \in unread[c] : listing' = [listing EXCEPT ![c][n] = View(n)]
    <3>1. PICK n \in unread[c] : listing' = [listing EXCEPT ![c][n] = View(n)]
      BY <2>1
    <3>2. n \in NodeNo
      BY DEF IndexTypeOK
    <3> QED
      BY <1>2, <1>4, <3>1, <3>2
  <2> QED
    BY <1>3, <1>7, <2>1 DEF List, IndexEnd
<1>8. CASE SyncRows(c)
  <2>1. \/ \E n \in NodeNo : listing' = [listing EXCEPT ![c][n] = Unread]
        \/ listing' = [listing EXCEPT ![c] = [n \in NodeNo |-> Unread]]
    BY <1>8 DEF SyncRows, IndexEnd
  <2> QED
    BY <1>0, <1>3, <1>4, <2>1
<1>9. CASE RemoveRow(c) \/ IndexNode(c) \/ EndRebuild(c) \/ Clear(c)
  BY <1>3, <1>5, <1>9 DEF RemoveRow, IndexNode, EndRebuild, Clear, IndexEnd
<1>10. CASE StartRefresh(c) \/ BeginRebuild(c) \/ PutRows(c) \/ LookWhetherComplete(c) \/ Browse(c)
  BY <1>5, <1>10 DEF StartRefresh, BeginRebuild, PutRows, LookWhetherComplete, Browse
<1> QED
  BY <1>6, <1>7, <1>8, <1>9, <1>10 DEF IndexStep

LEMMA IndexStaysTyped ==
    ASSUME IndexTypeOK, NEW c \in IndexCall, IndexStep(c)
    PROVE  /\ row' \in [NodeNo -> Times] /\ complete' \in BOOLEAN
           /\ txn' = NoRebuild \/ txn' \in [owner : IndexCall, rows : [NodeNo -> Times]]
<1>1. row \in [NodeNo -> Times] /\ complete \in BOOLEAN
  BY DEF IndexTypeOK
<1>2. txn = NoRebuild \/ txn \in [owner : IndexCall, rows : [NodeNo -> Times]]
  BY DEF IndexTypeOK
<1>3. \A n \in NodeNo : RowOf(listing[c][n]) \in Times
  BY RowsAreTimes
<1>4. 0 \in Times /\ indexJob[c].node \in NodeNo
  BY IndexAssumption DEF Times, IndexTypeOK
<1>5. CASE RemoveRow(c) \/ IndexNode(c)
  BY <1>1, <1>2, <1>3, <1>4, <1>5 DEF RemoveRow, IndexNode
<1>6. CASE BeginRebuild(c)
  <2>1. txn' = [owner |-> c, rows |-> [n \in NodeNo |-> 0]] /\ row' = row /\ complete' = complete
    BY <1>6 DEF BeginRebuild, Replaced
  <2> QED
    BY <1>1, <1>4, <2>1
<1>7. CASE PutRows(c)
  <2>1. PICK n \in NodeNo : txn' = [txn EXCEPT !.rows[n] = RowOf(listing[c][n])]
    BY <1>7 DEF PutRows
  <2>2. txn \in [owner : IndexCall, rows : [NodeNo -> Times]]
    BY <1>2, <1>7 DEF PutRows
  <2>3. txn' \in [owner : IndexCall, rows : [NodeNo -> Times]]
    BY <1>3, <2>1, <2>2
  <2>4. row' = row /\ complete' = complete
    BY <1>7 DEF PutRows
  <2> QED
    BY <1>1, <2>3, <2>4
<1>8. CASE EndRebuild(c)
  <2>1. txn.rows \in [NodeNo -> Times]
    BY <1>2, <1>8 DEF EndRebuild
  <2>2. txn' = NoRebuild /\ complete' \in BOOLEAN
    BY <1>1, <1>8 DEF EndRebuild
  <2>3. row' \in [NodeNo -> Times]
    BY <1>1, <1>8, <2>1 DEF EndRebuild
  <2> QED
    BY <2>2, <2>3
<1>9. CASE SyncRows(c)
  <2>1. complete' = complete /\ txn' = txn
    BY <1>9 DEF SyncRows
  <2>2. \/ \E n \in NodeNo : row' = [row EXCEPT ![n] = RowOf(listing[c][n])]
        \/ row' = row
    BY <1>9 DEF SyncRows, Synced
  <2>3. row' \in [NodeNo -> Times]
    BY <1>1, <1>3, <2>2
  <2> QED
    BY <1>1, <1>2, <2>1, <2>3
<1>10. CASE Clear(c)
  <2>1. row' = [n \in NodeNo |-> 0] /\ complete' = FALSE /\ txn' = txn
    BY <1>10 DEF Clear
  <2> QED
    BY <1>2, <1>4, <2>1
<1>11. CASE WriteNode(c) \/ StartRefresh(c) \/ List(c) \/ LookWhetherComplete(c) \/ Browse(c)
  BY <1>1, <1>2, <1>11 DEF WriteNode, StartRefresh, List, LookWhetherComplete, Browse, index
<1> QED
  BY <1>5, <1>6, <1>7, <1>8, <1>9, <1>10, <1>11 DEF IndexStep

LEMMA ServerStaysTyped ==
    ASSUME IndexTypeOK, \A n \in NodeNo : stamp[n] >= 1, NEW c \in IndexCall, IndexStep(c), time >= 1
    PROVE  /\ time' \in Times /\ time' >= 1 /\ stamp' \in [NodeNo -> Times] /\ gone' \in [NodeNo -> BOOLEAN]
           /\ \A n \in NodeNo : stamp'[n] >= 1
<1>1. time \in Times /\ stamp \in [NodeNo -> Times] /\ Times \subseteq Int
  BY DEF IndexTypeOK, Times
<1>2. gone \in [NodeNo -> BOOLEAN]
  BY DEF IndexTypeOK
<1>3. CASE WriteNode(c)
  <2>1. PICK t \in {time, time + 1} \cap Times : time' = t /\ stamp' = [stamp EXCEPT ![indexJob[c].node] = t]
    BY <1>3 DEF WriteNode
  <2>2. t \in Times /\ t >= 1
    BY <1>1, <2>1
  <2>3. gone' = [gone EXCEPT ![indexJob[c].node] = IndexKind(c) = "archive"]
    BY <1>3 DEF WriteNode
  <2>4. gone' \in [NodeNo -> BOOLEAN]
    BY <1>2, <2>3
  <2> QED
    BY <1>1, <2>1, <2>2, <2>4
<1>4. CASE UNCHANGED <<time, stamp, gone>>
  BY <1>1, <1>2, <1>4
<1>5. CASE RemoveRow(c) \/ IndexNode(c) \/ StartRefresh(c) \/ List(c) \/ BeginRebuild(c) \/ PutRows(c)
  BY <1>4, <1>5 DEF RemoveRow, IndexNode, StartRefresh, List, BeginRebuild, PutRows, serverNodes
<1>6. CASE EndRebuild(c) \/ SyncRows(c) \/ Clear(c) \/ LookWhetherComplete(c) \/ Browse(c)
  BY <1>4, <1>6 DEF EndRebuild, SyncRows, Clear, LookWhetherComplete, Browse, serverNodes
<1> QED
  BY <1>3, <1>5, <1>6 DEF IndexStep

LEMMA CallsStayTyped ==
    ASSUME IndexTypeOK, NEW c \in IndexCall, IndexStep(c)
    PROVE  /\ indexJob' \in [IndexCall -> [kind : IndexKinds, node : NodeNo]]
           /\ mark' \in [IndexCall -> Times]
           /\ cursor' \in [IndexCall -> [stamp : Times \cup {MaxTime + 1}, node : NodeNo \cup {-1}]]
           /\ listed' \in [IndexCall -> [NodeNo -> 0..2]]
           /\ quiet' \in [IndexCall -> SUBSET NodeNo]
<1>1. /\ indexJob \in [IndexCall -> [kind : IndexKinds, node : NodeNo]]
      /\ mark \in [IndexCall -> Times]
      /\ quiet \in [IndexCall -> SUBSET NodeNo]
  BY DEF IndexTypeOK
<1>2. /\ cursor \in [IndexCall -> [stamp : Times \cup {MaxTime + 1}, node : NodeNo \cup {-1}]]
      /\ listed \in [IndexCall -> [NodeNo -> 0..2]]
      /\ row \in [NodeNo -> Times]
  BY DEF IndexTypeOK
<1>3. quiet' \in [IndexCall -> SUBSET NodeNo]
  <2>1. CASE WriteNode(c) \/ Clear(c) \/ StartRefresh(c) \/ LookWhetherComplete(c)
    BY <1>1, <2>1 DEF WriteNode, Clear, StartRefresh, LookWhetherComplete
  <2>2. CASE RemoveRow(c) \/ IndexNode(c) \/ List(c) \/ BeginRebuild(c) \/ PutRows(c) \/ EndRebuild(c) \/ SyncRows(c) \/ Browse(c)
    BY <1>1, <2>2 DEF RemoveRow, IndexNode, List, BeginRebuild, PutRows, EndRebuild, SyncRows, Browse
  <2> QED
    BY <2>1, <2>2 DEF IndexStep
<1>4. indexJob' \in [IndexCall -> [kind : IndexKinds, node : NodeNo]] /\ mark' \in [IndexCall -> Times]
  <2>1. CASE StartRefresh(c)
    <3>1. From(c) \in Times
      <4>1. Newest \in Times /\ Lookback \in Nat /\ MaxTime \in Nat
        BY NewestIsATime, IndexAssumption
      <4>2. Newest > Lookback => Newest - Lookback \in Times
        BY <4>1 DEF Times
      <4>3. 0 \in Times
        BY <4>1 DEF Times
      <4> QED
        BY <4>2, <4>3 DEF From
    <3>2. mark' = [mark EXCEPT ![c] = From(c)]
      BY <2>1 DEF StartRefresh
    <3> QED
      BY <1>1, <2>1, <3>1, <3>2, JobsStay
  <2>2. CASE WriteNode(c) \/ RemoveRow(c) \/ IndexNode(c) \/ List(c) \/ BeginRebuild(c) \/ PutRows(c)
    BY <1>1, <2>2 DEF WriteNode, RemoveRow, IndexNode, List, BeginRebuild, PutRows
  <2>3. CASE EndRebuild(c) \/ SyncRows(c) \/ Clear(c) \/ LookWhetherComplete(c) \/ Browse(c)
    BY <1>1, <2>3 DEF EndRebuild, SyncRows, Clear, LookWhetherComplete, Browse
  <2> QED
    BY <2>1, <2>2, <2>3 DEF IndexStep
<1>5. /\ cursor' \in [IndexCall -> [stamp : Times \cup {MaxTime + 1}, node : NodeNo \cup {-1}]]
      /\ listed' \in [IndexCall -> [NodeNo -> 0..2]]
  <2>1. CASE Browse(c)
    <3>1. CASE UNCHANGED <<cursor, listed>>
      BY <1>2, <3>1
    <3>2. CASE \E n \in NodeNo : /\ listed[c][n] < 2
                                 /\ cursor' = [cursor EXCEPT ![c] = [stamp |-> row[n], node |-> n]]
                                 /\ listed' = [listed EXCEPT ![c][n] = @ + 1]
      <4>1. PICK n \in NodeNo : /\ listed[c][n] < 2
                                /\ cursor' = [cursor EXCEPT ![c] = [stamp |-> row[n], node |-> n]]
                                /\ listed' = [listed EXCEPT ![c][n] = @ + 1]
        BY <3>2
      <4>2. listed[c][n] + 1 \in 0..2
        BY <1>2, <4>1
      <4>3. listed' \in [IndexCall -> [NodeNo -> 0..2]]
        BY <1>2, <4>1, <4>2
      <4>4. [stamp |-> row[n], node |-> n] \in [stamp : Times \cup {MaxTime + 1}, node : NodeNo \cup {-1}]
        BY <1>2
      <4> QED
        BY <1>2, <4>1, <4>3, <4>4
    <3> QED
      BY <2>1, <3>1, <3>2 DEF Browse
  <2>2. CASE WriteNode(c) \/ RemoveRow(c) \/ IndexNode(c) \/ StartRefresh(c) \/ List(c) \/ BeginRebuild(c)
    BY <1>2, <2>2 DEF WriteNode, RemoveRow, IndexNode, StartRefresh, List, BeginRebuild
  <2>3. CASE PutRows(c) \/ EndRebuild(c) \/ SyncRows(c) \/ Clear(c) \/ LookWhetherComplete(c)
    BY <1>2, <2>3 DEF PutRows, EndRebuild, SyncRows, Clear, LookWhetherComplete
  <2> QED
    BY <2>1, <2>2, <2>3 DEF IndexStep
<1> QED
  BY <1>3, <1>4, <1>5

LEMMA IndexTypeStays ==
    ASSUME IndexInv, NEW c \in IndexCall, IndexStep(c)
    PROVE  IndexTypeOK' /\ time' >= 1 /\ \A n \in NodeNo : stamp'[n] >= 1
<1>1. IndexTypeOK /\ time >= 1 /\ \A n \in NodeNo : stamp[n] >= 1
  BY DEF IndexInv
<1>2. /\ time' \in Times /\ time' >= 1 /\ stamp' \in [NodeNo -> Times] /\ gone' \in [NodeNo -> BOOLEAN]
      /\ \A n \in NodeNo : stamp'[n] >= 1
  BY <1>1, ServerStaysTyped
<1>3. listing' \in [IndexCall -> [NodeNo -> [stamp : Times, gone : BOOLEAN]]]
  BY <1>1, ListingStaysTyped DEF Version
<1> QED
  BY <1>1, <1>2, <1>3, PlacesStayTyped, IndexStaysTyped, CallsStayTyped DEF IndexTypeOK

\* A node that is quiet for some call before and after a step is not written
\* by it, and the index is not cleared by it.
LEMMA QuietMeansUnwritten ==
    ASSUME IndexTypeOK, NEW c \in IndexCall, IndexStep(c),
           NEW b \in IndexCall, NEW n \in NodeNo, n \in quiet'[b]
    PROVE  /\ ~Clear(c) /\ (WriteNode(c) => n # indexJob[c].node)
           /\ stamp'[n] = stamp[n] /\ gone'[n] = gone[n]
           /\ View(n)' = View(n) /\ Right(n)' = Right(n)
<1>1. stamp \in [NodeNo -> Times] /\ gone \in [NodeNo -> BOOLEAN] /\ quiet \in [IndexCall -> SUBSET NodeNo]
  BY DEF IndexTypeOK
<1>2. ~Clear(c)
  BY <1>1 DEF Clear
<1>3. WriteNode(c) => n # indexJob[c].node
  BY <1>1 DEF WriteNode
<1>4. stamp'[n] = stamp[n] /\ gone'[n] = gone[n]
  <2>1. CASE WriteNode(c)
    BY <1>1, <1>3, <2>1 DEF WriteNode
  <2>2. CASE UNCHANGED serverNodes
    BY <2>2 DEF serverNodes
  <2>3. CASE RemoveRow(c) \/ IndexNode(c) \/ StartRefresh(c) \/ List(c) \/ BeginRebuild(c) \/ PutRows(c)
    BY <2>2, <2>3 DEF RemoveRow, IndexNode, StartRefresh, List, BeginRebuild, PutRows
  <2>4. CASE EndRebuild(c) \/ SyncRows(c) \/ Clear(c) \/ LookWhetherComplete(c) \/ Browse(c)
    BY <2>2, <2>4 DEF EndRebuild, SyncRows, Clear, LookWhetherComplete, Browse
  <2> QED
    BY <2>1, <2>3, <2>4 DEF IndexStep
<1>5. View(n)' = View(n)
  BY <1>4 DEF View
<1>6. Right(n)' = Right(n)
  BY <1>5 DEF Right, RowOf
<1> QED
  BY <1>2, <1>3, <1>4, <1>5, <1>6

NothingOld(n) == \A e \in IndexCall : InFlight(e) => HoldsNothingOld(e, n)

\* Nothing older than a node gets under way while the node is quiet: what a
\* listing takes up is the node as it is.
LEMMA NothingOldStays ==
    ASSUME IndexInv, NEW c \in IndexCall, IndexStep(c),
           NEW b \in IndexCall, NEW n \in NodeNo, n \in quiet'[b], NothingOld(n)
    PROVE  NothingOld(n)'
<1>0. IndexTypeOK /\ UnderWay(c)
  BY DEF IndexInv
<1>1. /\ ~Clear(c) /\ (WriteNode(c) => n # indexJob[c].node)
      /\ View(n)' = View(n)
  BY <1>0, QuietMeansUnwritten
<1>2. /\ indexJob \in [IndexCall -> [kind : IndexKinds, node : NodeNo]]
      /\ indexAt \in [IndexCall -> {"start", "wrote", "removed", "list", "apply", "rows", "page", "done", "failed"}]
      /\ unread \in [IndexCall -> SUBSET NodeNo]
      /\ listing \in [IndexCall -> [NodeNo -> Version]]
  BY <1>0 DEF IndexTypeOK, Version
<1> SUFFICES ASSUME NEW e \in IndexCall, InFlight(e)'
             PROVE  HoldsNothingOld(e, n)'
  BY DEF NothingOld
<1>3. InFlight(e) => HoldsNothingOld(e, n)
  BY DEF NothingOld
<1>4. CASE UNCHANGED <<indexJob, indexAt, unread, listing>>
  BY <1>1, <1>3, <1>4 DEF InFlight, HoldsNothingOld, Refreshers, IndexKind
<1>5. CASE e # c
  <2>1. indexJob'[e] = indexJob[e]
    BY <1>0, <1>5, JobsStay DEF IndexStep, WriteNode, RemoveRow, IndexNode, List, BeginRebuild, PutRows,
       EndRebuild, SyncRows, Clear, LookWhetherComplete, Browse
  <2>2. indexAt'[e] = indexAt[e]
    BY <1>2, <1>5 DEF IndexStep, WriteNode, RemoveRow, IndexNode, StartRefresh, List, BeginRebuild, PutRows,
       EndRebuild, SyncRows, Clear, LookWhetherComplete, Browse, IndexEnd, IndexGo
  <2>3. unread'[e] = unread[e]
    BY <1>2, <1>5 DEF IndexStep, WriteNode, RemoveRow, IndexNode, StartRefresh, List, BeginRebuild, PutRows,
       EndRebuild, SyncRows, Clear, LookWhetherComplete, Browse, IndexEnd, IndexGo
  <2>4. listing'[e] = listing[e]
    BY <1>2, <1>5 DEF IndexStep, WriteNode, RemoveRow, IndexNode, StartRefresh, List, BeginRebuild, PutRows,
       EndRebuild, SyncRows, Clear, LookWhetherComplete, Browse, IndexEnd, IndexGo
  <2> QED
    BY <1>1, <1>3, <2>1, <2>2, <2>3, <2>4 DEF InFlight, HoldsNothingOld, Refreshers, IndexKind
<1>6. CASE e = c /\ WriteNode(c)
  <2>1. indexJob' = indexJob /\ IndexKind(c) \in Writing
    BY <1>6 DEF WriteNode
  <2>2. indexJob'[c].node # n
    BY <1>1, <1>6, <2>1
  <2>3. c \notin Refreshers'
    BY <2>1 DEF Refreshers, IndexKind, Writing, Refreshing
  <2> QED
    BY <1>6, <2>2, <2>3 DEF HoldsNothingOld
<1>7. CASE e = c /\ (RemoveRow(c) \/ IndexNode(c))
  <2>1. /\ indexJob' = indexJob /\ InFlight(c)
        /\ IndexKind(c) \in Writing
    BY <1>0, <1>7 DEF RemoveRow, IndexNode, InFlight, UnderWay
  <2>2. c \notin Refreshers /\ c \notin Refreshers'
    BY <2>1 DEF Refreshers, IndexKind, Writing, Refreshing
  <2> QED
    BY <1>3, <1>7, <2>1, <2>2 DEF HoldsNothingOld
<1>8. CASE e = c /\ StartRefresh(c)
  <2>1. n \in unread'[c]
    BY <1>2, <1>8 DEF StartRefresh
  <2>2. c \in Refreshers'
    BY <1>0, <1>8, JobsStay DEF Refreshers, IndexKind
  <2> QED
    BY <1>8, <2>1, <2>2 DEF HoldsNothingOld
<1>9. CASE e = c /\ List(c)
  <2>1. indexJob' = indexJob /\ indexAt[c] = "list" /\ c \in Refreshers /\ c \in Refreshers'
    BY <1>0, <1>9 DEF List, UnderWay, Refreshers, IndexKind
  <2>2. indexAt'[c] # "failed"
    BY <1>9 DEF InFlight
  <2>3. PICK m \in unread[c] : /\ unread' = [unread EXCEPT ![c] = @ \ {m}]
                               /\ listing' = [listing EXCEPT ![c][m] = View(m)]
    BY <1>2, <1>9, <2>2 DEF List, IndexEnd, IndexGo
  <2>4. m \in NodeNo
    BY <1>2, <2>3
  <2>5. CASE m = n
    <3>1. listing'[c][n] = View(n)'
      BY <1>1, <1>2, <2>3, <2>5
    <3> QED
      BY <1>9, <2>1, <3>1 DEF HoldsNothingOld
  <2>6. CASE m # n
    <3>1. listing'[c][n] = listing[c][n] /\ (n \in unread'[c] <=> n \in unread[c])
      BY <1>2, <2>3, <2>4, <2>6
    <3>2. HoldsNothingOld(c, n)
      BY <1>3, <1>9, <2>1 DEF InFlight
    <3> QED
      BY <1>1, <1>9, <2>1, <3>1, <3>2 DEF HoldsNothingOld, IndexKind
  <2> QED
    BY <2>5, <2>6
<1>10. CASE e = c /\ BeginRebuild(c)
  <2>1. /\ indexJob' = indexJob /\ listing' = listing /\ InFlight(c) /\ unread[c] = {}
        /\ unread'[c] = {} /\ IndexKind(c) = "rebuild"
    BY <1>2, <1>10 DEF BeginRebuild, InFlight
  <2>2. c \in Refreshers /\ c \in Refreshers'
    BY <2>1 DEF Refreshers, IndexKind, Refreshing
  <2> QED
    BY <1>1, <1>3, <1>10, <2>1, <2>2 DEF HoldsNothingOld, IndexKind
<1>11. CASE e = c /\ SyncRows(c)
  <2>1. indexJob' = indexJob /\ InFlight(c) /\ IndexKind(c) = "sync"
    BY <1>11 DEF SyncRows, InFlight
  <2>2. c \in Refreshers /\ c \in Refreshers'
    BY <2>1 DEF Refreshers, IndexKind, Refreshing
  <2>3. indexAt'[c] # "failed" /\ indexAt'[c] # "done"
    BY <1>11 DEF InFlight
  <2>4. PICK m \in NodeNo : listing' = [listing EXCEPT ![c][m] = Unread]
    BY <1>2, <1>11, <2>3 DEF SyncRows, IndexEnd, IndexGo
  <2>5. unread[c] = {}
    BY <1>11 DEF SyncRows
  <2>6. listing'[c][n] = listing[c][n] \/ listing'[c][n] = Unread
    BY <1>2, <2>4
  <2>7. IndexKind(c)' = "sync"
    BY <2>1 DEF IndexKind
  <2>8. listing[c][n] = View(n) \/ listing[c][n] = Unread
    BY <1>3, <1>11, <2>1, <2>2, <2>5 DEF HoldsNothingOld
  <2> QED
    BY <1>1, <1>11, <2>2, <2>6, <2>7, <2>8 DEF HoldsNothingOld, Unread
<1>12. CASE PutRows(c) \/ LookWhetherComplete(c) \/ Browse(c)
  <2>1. CASE PutRows(c)
    BY <1>4, <2>1 DEF PutRows
  <2>2. CASE e = c /\ (LookWhetherComplete(c) \/ Browse(c))
    BY <1>2, <2>2 DEF LookWhetherComplete, Browse, InFlight, IndexGo
  <2> QED
    BY <1>5, <1>12, <2>1, <2>2
<1>13. CASE e = c /\ EndRebuild(c)
  BY <1>2, <1>13 DEF EndRebuild, InFlight, IndexEnd, IndexGo
<1> QED
  BY <1>1, <1>5, <1>6, <1>7, <1>8, <1>9, <1>10, <1>11, <1>12, <1>13 DEF IndexStep

\* Where nothing old is under way a refresh that brings a row up to date
\* makes it right.
LEMMA AppliedRowsAreRight ==
    ASSUME IndexInv, NEW c \in IndexCall, NEW n \in NodeNo, NothingOld(n),
           InFlight(c), c \in Refreshers, unread[c] = {}
    PROVE  /\ listing[c][n] = View(n) \/ (IndexKind(c) = "sync" /\ listing[c][n] = Unread)
           /\ IndexKind(c) = "rebuild" \/ listing[c][n].stamp > mark[c] => RowOf(listing[c][n]) = Right(n)
<1>1. HoldsNothingOld(c, n)
  BY DEF NothingOld
<1>2. listing[c][n] = View(n) \/ (IndexKind(c) = "sync" /\ listing[c][n] = Unread)
  BY <1>1 DEF HoldsNothingOld
<1>3. mark[c] \in Nat
  BY IndexAssumption DEF IndexInv, IndexTypeOK, Times
<1>4. ~(Unread.stamp > mark[c])
  BY <1>3 DEF Unread
<1> QED
  BY <1>2, <1>4 DEF Right

\* A right row of a quiet node stays right, whoever goes on to write rows.
LEMMA RightRowsStay ==
    ASSUME IndexInv, NEW c \in IndexCall, IndexStep(c),
           NEW b \in IndexCall, NEW n \in NodeNo, n \in quiet'[b], NothingOld(n), row[n] = Right(n)
    PROVE  row'[n] = Right(n)'
<1>0. IndexTypeOK /\ UnderWay(c) /\ TxnInv
  BY DEF IndexInv
<1>1. ~Clear(c) /\ Right(n)' = Right(n)
  BY <1>0, QuietMeansUnwritten
<1>2. row \in [NodeNo -> Times]
  BY <1>0 DEF IndexTypeOK
<1>3. CASE RemoveRow(c) \/ IndexNode(c)
  <2>1. InFlight(c) /\ IndexKind(c) \in Writing
    BY <1>0, <1>3 DEF RemoveRow, IndexNode, InFlight, UnderWay
  <2>2. c \notin Refreshers
    BY <2>1 DEF Refreshers, Writing, Refreshing
  <2>3. indexJob[c].node # n
    BY <2>1, <2>2 DEF NothingOld, HoldsNothingOld
  <2> QED
    BY <1>1, <1>2, <1>3, <2>3 DEF RemoveRow, IndexNode
<1>4. CASE EndRebuild(c)
  <2>1. txn # NoRebuild /\ txn.owner = c /\ indexAt[c] = "apply"
    BY <1>4 DEF EndRebuild
  <2>2. InFlight(c) /\ c \in Refreshers /\ unread[c] = {} /\ IndexKind(c) = "rebuild"
    BY <1>0, <2>1 DEF TxnInv, InFlight, Refreshers, Refreshing
  <2>3. RowOf(listing[c][n]) = Right(n)
    BY <2>2, AppliedRowsAreRight
  <2>4. \/ row' = [m \in NodeNo |-> RowOf(listing[c][m])]
        \/ row' = row
    BY <1>4 DEF EndRebuild
  <2> QED
    BY <1>1, <2>3, <2>4
<1>5. CASE SyncRows(c)
  <2>1. unread[c] = {} /\ InFlight(c) /\ c \in Refreshers
    BY <1>5 DEF SyncRows, InFlight, Refreshers, Refreshing
  <2>2. \/ \E m \in NodeNo : listing[c][m].stamp > mark[c] /\ row' = [row EXCEPT ![m] = RowOf(listing[c][m])]
        \/ row' = row
    BY <1>5 DEF SyncRows, Synced
  <2>3. listing[c][n].stamp > mark[c] => RowOf(listing[c][n]) = Right(n)
    BY <2>1, AppliedRowsAreRight
  <2> QED
    BY <1>1, <1>2, <2>2, <2>3
<1>6. CASE WriteNode(c) \/ StartRefresh(c) \/ List(c) \/ PutRows(c) \/ LookWhetherComplete(c) \/ Browse(c)
  BY <1>1, <1>6 DEF WriteNode, StartRefresh, List, PutRows, LookWhetherComplete, Browse, index
<1>7. CASE BeginRebuild(c)
  BY <1>1, <1>7 DEF BeginRebuild, Replaced
<1> QED
  BY <1>1, <1>3, <1>4, <1>5, <1>6, <1>7 DEF IndexStep

\* A node that becomes quiet for a call is one that nothing threatens.
LEMMA QuietIsUnthreatened ==
    ASSUME IndexInv, NEW c \in IndexCall, IndexStep(c),
           NEW b \in IndexCall, NEW n \in NodeNo, n \in quiet'[b]
    PROVE  /\ NothingOld(n)
           /\ \/ n \in quiet[b]
              \/ b = c /\ StartRefresh(c)
              \/ b = c /\ LookWhetherComplete(c) /\ indexAt[c] = "start" /\ row[n] = Right(n)
<1>0. IndexTypeOK /\ UnthreatenedInv
  BY DEF IndexInv
<1>1. quiet \in [IndexCall -> SUBSET NodeNo]
  BY <1>0 DEF IndexTypeOK
<1>2. n \notin Threatened => NothingOld(n)
  BY DEF Threatened, NothingOld, HoldsNothingOld
<1>3. n \in quiet[b] => NothingOld(n)
  BY <1>0 DEF UnthreatenedInv, NothingOld
<1>4. CASE WriteNode(c) \/ Clear(c)
  BY <1>1, <1>3, <1>4 DEF WriteNode, Clear
<1>5. CASE StartRefresh(c)
  BY <1>1, <1>2, <1>3, <1>5 DEF StartRefresh
<1>6. CASE LookWhetherComplete(c)
  BY <1>1, <1>2, <1>3, <1>6 DEF LookWhetherComplete
<1>7. CASE quiet' = quiet
  BY <1>3, <1>7
<1>8. CASE RemoveRow(c) \/ IndexNode(c) \/ List(c) \/ BeginRebuild(c) \/ PutRows(c) \/ EndRebuild(c) \/ SyncRows(c) \/ Browse(c)
  BY <1>7, <1>8 DEF RemoveRow, IndexNode, List, BeginRebuild, PutRows, EndRebuild, SyncRows, Browse
<1> QED
  BY <1>4, <1>5, <1>6, <1>8 DEF IndexStep

LEMMA UnthreatenedStays ==
    ASSUME IndexInv, NEW c \in IndexCall, IndexStep(c)
    PROVE  UnthreatenedInv'
<1>1. quiet' \in [IndexCall -> SUBSET NodeNo]
  BY IndexTypeStays DEF IndexTypeOK
<1>2. ASSUME NEW b \in IndexCall, NEW n \in quiet'[b]
      PROVE  NothingOld(n)'
  <2>1. n \in NodeNo
    BY <1>1, <1>2
  <2>2. NothingOld(n)
    BY <1>2, <2>1, QuietIsUnthreatened
  <2> QED
    BY <1>2, <2>1, <2>2, NothingOldStays
<1> QED
  BY <1>2 DEF UnthreatenedInv, NothingOld

\* Other calls stay where they are.
LEMMA OthersStand ==
    ASSUME IndexTypeOK, NEW c \in IndexCall, IndexStep(c), NEW e \in IndexCall, e # c
    PROVE  /\ indexJob'[e] = indexJob[e] /\ indexAt'[e] = indexAt[e]
           /\ unread'[e] = unread[e] /\ listing'[e] = listing[e]
           /\ mark'[e] = mark[e] /\ cursor'[e] = cursor[e] /\ listed'[e] = listed[e]
<1>1. /\ indexJob \in [IndexCall -> [kind : IndexKinds, node : NodeNo]]
      /\ indexAt \in [IndexCall -> {"start", "wrote", "removed", "list", "apply", "rows", "page", "done", "failed"}]
      /\ unread \in [IndexCall -> SUBSET NodeNo]
      /\ listing \in [IndexCall -> [NodeNo -> Version]]
  BY DEF IndexTypeOK, Version
<1>2. /\ mark \in [IndexCall -> Times]
      /\ cursor \in [IndexCall -> [stamp : Times \cup {MaxTime + 1}, node : NodeNo \cup {-1}]]
      /\ listed \in [IndexCall -> [NodeNo -> 0..2]]
  BY DEF IndexTypeOK
<1>3. indexJob'[e] = indexJob[e]
  BY JobsStay DEF IndexStep, WriteNode, RemoveRow, IndexNode, List, BeginRebuild, PutRows,
     EndRebuild, SyncRows, Clear, LookWhetherComplete, Browse
<1>4. indexAt'[e] = indexAt[e] /\ unread'[e] = unread[e]
  BY <1>1 DEF IndexStep, WriteNode, RemoveRow, IndexNode, StartRefresh, List, BeginRebuild, PutRows,
     EndRebuild, SyncRows, Clear, LookWhetherComplete, Browse, IndexEnd, IndexGo
<1>5. listing'[e] = listing[e]
  BY <1>1 DEF IndexStep, WriteNode, RemoveRow, IndexNode, StartRefresh, List, BeginRebuild, PutRows,
     EndRebuild, SyncRows, Clear, LookWhetherComplete, Browse, IndexEnd, IndexGo
<1>6. mark'[e] = mark[e]
  BY <1>2 DEF IndexStep, WriteNode, RemoveRow, IndexNode, StartRefresh, List, BeginRebuild, PutRows,
     EndRebuild, SyncRows, Clear, LookWhetherComplete, Browse, IndexEnd, IndexGo
<1>7. cursor'[e] = cursor[e] /\ listed'[e] = listed[e]
  BY <1>2 DEF IndexStep, WriteNode, RemoveRow, IndexNode, StartRefresh, List, BeginRebuild, PutRows,
     EndRebuild, SyncRows, Clear, LookWhetherComplete, Browse, IndexEnd, IndexGo
<1> QED
  BY <1>3, <1>4, <1>5, <1>6, <1>7

LEMMA UnderWayStays ==
    ASSUME IndexInv, NEW c \in IndexCall, IndexStep(c), NEW e \in IndexCall
    PROVE  UnderWay(e)'
<1>0. IndexTypeOK /\ UnderWay(e)
  BY DEF IndexInv
<1>1. /\ indexJob \in [IndexCall -> [kind : IndexKinds, node : NodeNo]]
      /\ indexAt \in [IndexCall -> {"start", "wrote", "removed", "list", "apply", "rows", "page", "done", "failed"}]
      /\ unread \in [IndexCall -> SUBSET NodeNo]
  BY <1>0 DEF IndexTypeOK
<1>2. CASE e # c
  BY <1>0, <1>2, OthersStand DEF UnderWay, IndexKind, Refreshers
<1>3. CASE e = c /\ StartRefresh(c)
  <2>1. indexAt'[c] = "list" /\ c \in Refreshers'
    BY <1>0, <1>1, <1>3, JobsStay DEF StartRefresh, IndexGo, Refreshers, IndexKind
  <2> QED
    BY <1>3, <2>1 DEF UnderWay
<1>4. CASE e = c /\ WriteNode(c)
  BY <1>0, <1>1, <1>4 DEF UnderWay, WriteNode, IndexGo, IndexKind, Writing
<1>5. CASE e = c /\ (RemoveRow(c) \/ IndexNode(c) \/ Clear(c))
  BY <1>0, <1>1, <1>5 DEF UnderWay, RemoveRow, IndexNode, Clear, IndexGo, IndexEnd, IndexKind
<1>6. CASE e = c /\ List(c)
  BY <1>0, <1>1, <1>6 DEF UnderWay, List, IndexGo, IndexEnd, IndexKind, Refreshers
<1>7. CASE e = c /\ (BeginRebuild(c) \/ PutRows(c) \/ EndRebuild(c))
  BY <1>0, <1>1, <1>7 DEF UnderWay, BeginRebuild, PutRows, EndRebuild, IndexGo, IndexEnd, IndexKind, Refreshers
<1>8. CASE e = c /\ SyncRows(c)
  BY <1>0, <1>1, <1>8 DEF UnderWay, SyncRows, IndexGo, IndexEnd, IndexKind, Refreshers
<1>9. CASE e = c /\ (LookWhetherComplete(c) \/ Browse(c))
  BY <1>0, <1>1, <1>9 DEF UnderWay, LookWhetherComplete, Browse, IndexGo, IndexKind
<1> QED
  BY <1>2, <1>3, <1>4, <1>5, <1>6, <1>7, <1>8, <1>9 DEF IndexStep

LEMMA TxnStays ==
    ASSUME IndexInv, NEW c \in IndexCall, IndexStep(c)
    PROVE  TxnInv'
<1>0. IndexTypeOK /\ TxnInv /\ UnderWay(c)
  BY DEF IndexInv
<1>1. /\ indexJob \in [IndexCall -> [kind : IndexKinds, node : NodeNo]]
      /\ unread \in [IndexCall -> SUBSET NodeNo]
      /\ indexAt \in [IndexCall -> {"start", "wrote", "removed", "list", "apply", "rows", "page", "done", "failed"}]
      /\ txn = NoRebuild \/ txn \in [owner : IndexCall, rows : [NodeNo -> Times]]
  BY <1>0 DEF IndexTypeOK
<1>2. CASE BeginRebuild(c)
  BY <1>1, <1>2 DEF BeginRebuild, TxnInv, IndexKind, IndexGo
<1>3. CASE EndRebuild(c)
  BY <1>3 DEF EndRebuild, TxnInv
<1> SUFFICES ASSUME ~BeginRebuild(c), ~EndRebuild(c), txn' # NoRebuild
             PROVE  IndexKind(txn.owner)' = "rebuild" /\ indexAt'[txn'.owner] = "apply" /\ unread'[txn'.owner] = {}
  BY <1>2, <1>3 DEF TxnInv
<1>4. txn # NoRebuild /\ txn'.owner = txn.owner
  <2>1. CASE PutRows(c)
    BY <1>1, <2>1 DEF PutRows
  <2>2. CASE txn' = txn
    BY <2>2
  <2>3. CASE WriteNode(c) \/ RemoveRow(c) \/ IndexNode(c) \/ StartRefresh(c) \/ List(c)
    BY <2>2, <2>3 DEF WriteNode, RemoveRow, IndexNode, StartRefresh, List, index
  <2>4. CASE SyncRows(c) \/ Clear(c) \/ LookWhetherComplete(c) \/ Browse(c)
    BY <2>2, <2>4 DEF SyncRows, Clear, LookWhetherComplete, Browse, index
  <2> QED
    BY <2>1, <2>3, <2>4 DEF IndexStep
<1>5. /\ txn.owner \in IndexCall /\ IndexKind(txn.owner) = "rebuild"
      /\ indexAt[txn.owner] = "apply" /\ unread[txn.owner] = {}
  BY <1>0, <1>1, <1>4 DEF TxnInv
<1>6. CASE txn.owner # c
  BY <1>0, <1>4, <1>5, <1>6, OthersStand DEF IndexKind
<1>7. CASE txn.owner = c
  <2>1. /\ ~RemoveRow(c) /\ ~IndexNode(c) /\ ~Clear(c) /\ ~SyncRows(c) /\ ~LookWhetherComplete(c) /\ ~WriteNode(c)
        /\ ~StartRefresh(c) /\ ~List(c) /\ ~Browse(c)
    BY <1>4, <1>5, <1>7 DEF RemoveRow, IndexNode, Clear, SyncRows, LookWhetherComplete, WriteNode, StartRefresh, List, Browse
  <2>2. PutRows(c)
    BY <2>1 DEF IndexStep
  <2> QED
    BY <1>4, <1>5, <1>7, <2>2 DEF PutRows, IndexKind
<1> QED
  BY <1>6, <1>7

LEMMA RefreshStays ==
    ASSUME IndexInv, NEW c \in IndexCall, IndexStep(c), NEW e \in IndexCall
    PROVE  RefreshInv(e)'
<1>0. IndexTypeOK /\ UnderWay(c) /\ TxnInv /\ RefreshInv(e) /\ \A n \in NodeNo : stamp[n] >= 1
  BY DEF IndexInv
<1>1. /\ indexJob \in [IndexCall -> [kind : IndexKinds, node : NodeNo]]
      /\ indexAt \in [IndexCall -> {"start", "wrote", "removed", "list", "apply", "rows", "page", "done", "failed"}]
      /\ unread \in [IndexCall -> SUBSET NodeNo]
      /\ listing \in [IndexCall -> [NodeNo -> Version]]
  BY <1>0 DEF IndexTypeOK, Version
<1>2. quiet' \in [IndexCall -> SUBSET NodeNo]
  BY IndexTypeStays DEF IndexTypeOK
<1>3. ASSUME NEW n \in quiet'[e]
      PROVE  /\ n \in NodeNo /\ NothingOld(n) /\ stamp'[n] = stamp[n]
             /\ row[n] = Right(n) => row'[n] = Right(n)'
  <2>1. n \in NodeNo
    BY <1>2, <1>3
  <2>2. NothingOld(n)
    BY <1>3, <2>1, QuietIsUnthreatened
  <2> QED
    BY <1>0, <1>3, <2>1, <2>2, QuietMeansUnwritten, RightRowsStay
<1>4. ASSUME ~StartRefresh(c) \/ e # c, NEW n \in quiet'[e], e \in Refreshers,
             mark'[e] = mark[e], n \in Refreshed(e)'
      PROVE  n \in Refreshed(e)
  <2>1. IndexKind(e) # "browse"
    BY <1>4 DEF Refreshers, Refreshing
  <2>2. n \in quiet[e]
    BY <1>3, <1>4, <2>1, QuietIsUnthreatened DEF LookWhetherComplete
  <2> QED
    BY <1>3, <1>4, <2>2 DEF Refreshed
<1>5. CASE e # c
  <2>1. /\ indexJob'[e] = indexJob[e] /\ indexAt'[e] = indexAt[e]
        /\ unread'[e] = unread[e] /\ listing'[e] = listing[e] /\ mark'[e] = mark[e]
    BY <1>0, <1>5, OthersStand
  <2>2. IndexKind(e)' = IndexKind(e) /\ (e \in Refreshers' <=> e \in Refreshers)
    BY <2>1 DEF IndexKind, Refreshers
  <2>3. ASSUME e \in Refreshers, NEW n \in Refreshed(e)'
        PROVE  n \in quiet'[e] /\ n \in Refreshed(e)
    <3>1. n \in quiet'[e]
      BY <2>3 DEF Refreshed
    <3> QED
      BY <1>4, <1>5, <2>1, <2>3, <3>1
  <2> QED
    BY <1>0, <1>3, <2>1, <2>2, <2>3 DEF RefreshInv
<1>6. CASE e = c /\ StartRefresh(c)
  <2>1. indexAt'[c] = "list" /\ unread'[c] = NodeNo
    BY <1>1, <1>6 DEF StartRefresh, IndexGo
  <2>2. \A n \in Refreshed(c)' : n \in NodeNo
    BY <1>3, <1>6 DEF Refreshed
  <2> QED
    BY <1>6, <2>1, <2>2 DEF RefreshInv
<1> SUFFICES ASSUME e = c, ~StartRefresh(c), e \in Refreshers'
             PROVE  RefreshInv(c)'
  BY <1>5, <1>6 DEF RefreshInv
<1>7. indexJob' = indexJob /\ mark' = mark
  BY DEF IndexStep, WriteNode, RemoveRow, IndexNode, List, BeginRebuild, PutRows,
     EndRebuild, SyncRows, Clear, LookWhetherComplete, Browse
<1>8. c \in Refreshers /\ IndexKind(c)' = IndexKind(c) /\ IndexKind(c) \in Refreshing
  BY <1>7 DEF Refreshers, IndexKind
<1>9. ASSUME NEW n \in Refreshed(c)'
      PROVE  n \in quiet'[c] /\ n \in Refreshed(c)
  <2>1. n \in quiet'[c]
    BY <1>9 DEF Refreshed
  <2> QED
    BY <1>4, <1>7, <1>8, <1>9, <2>1
<1>10. CASE List(c)
  <2>1. CASE indexAt'[c] = "failed"
    BY <2>1 DEF RefreshInv
  <2>2. CASE indexAt'[c] # "failed"
    <3>1. PICK m \in unread[c] : /\ unread' = [unread EXCEPT ![c] = @ \ {m}]
                                 /\ listing' = [listing EXCEPT ![c][m] = View(m)]
      BY <1>1, <1>10, <2>2 DEF List, IndexEnd, IndexGo
    <3>2. indexAt[c] = "list" /\ indexAt'[c] = "list"
      BY <1>1, <1>10, <2>2 DEF List, IndexEnd, IndexGo
    <3>3. m \in NodeNo
      BY <1>1, <3>1
    <3>4. ASSUME IndexKind(c) = "sync", NEW n \in Refreshed(c)', n \notin unread'[c], listing'[c][n] = Unread
          PROVE  row'[n] = Right(n)'
      <4>1. n \in quiet'[c] /\ n \in Refreshed(c) /\ n \in NodeNo
        BY <1>3, <1>9, <3>4
      <4>2. m # n
        <5>1. SUFFICES ASSUME m = n
                       PROVE  FALSE
          OBVIOUS
        <5>2. listing'[c][n] = View(n)
          BY <1>1, <3>1, <3>3, <5>1
        <5>3. stamp[n] = 0
          BY <3>4, <5>2 DEF View, Unread
        <5> QED
          BY <1>0, <4>1, <5>3
      <4>3. n \notin unread[c] /\ listing[c][n] = Unread
        BY <1>1, <3>1, <3>3, <3>4, <4>1, <4>2
      <4>4. row[n] = Right(n)
        BY <1>0, <1>8, <3>2, <3>4, <4>1, <4>3 DEF RefreshInv
      <4> QED
        BY <1>3, <4>1, <4>4
    <3> QED
      BY <1>8, <3>2, <3>4 DEF RefreshInv
  <2> QED
    BY <2>1, <2>2
<1>11. CASE BeginRebuild(c)
  <2>1. indexAt'[c] = "apply" /\ IndexKind(c) = "rebuild"
    BY <1>1, <1>11 DEF BeginRebuild, IndexGo
  <2> QED
    BY <1>8, <2>1 DEF RefreshInv
<1>12. CASE PutRows(c) \/ EndRebuild(c)
  <2>1. txn # NoRebuild /\ txn.owner = c /\ indexAt[c] = "apply" /\ IndexKind(c) = "rebuild" /\ unread[c] = {}
    BY <1>0, <1>12 DEF PutRows, EndRebuild, TxnInv
  <2>2. InFlight(c)
    BY <2>1 DEF InFlight
  <2>3. CASE indexAt'[c] # "done"
    BY <1>8, <2>1, <2>3 DEF RefreshInv
  <2>4. CASE indexAt'[c] = "done"
    <3>1. row' = [n \in NodeNo |-> RowOf(listing[c][n])]
      BY <1>1, <1>12, <2>1, <2>4 DEF PutRows, EndRebuild, IndexEnd, IndexGo
    <3>2. ASSUME NEW n \in Refreshed(c)'
          PROVE  row'[n] = Right(n)'
      <4>1. n \in quiet'[c] /\ n \in NodeNo /\ NothingOld(n)
        BY <1>3, <1>9, <3>2
      <4>2. RowOf(listing[c][n]) = Right(n)
        BY <1>8, <2>1, <2>2, <4>1, AppliedRowsAreRight
      <4>3. Right(n)' = Right(n)
        BY <1>0, <4>1, QuietMeansUnwritten
      <4> QED
        BY <3>1, <4>1, <4>2, <4>3
    <3> QED
      BY <2>4, <3>2 DEF RefreshInv
  <2> QED
    BY <2>3, <2>4
<1>13. CASE SyncRows(c)
  <2>1. IndexKind(c) = "sync" /\ unread[c] = {} /\ indexAt[c] \in {"list", "apply"} /\ InFlight(c)
    BY <1>13 DEF SyncRows, InFlight
  <2>2. ASSUME NEW n \in Refreshed(c)', listing[c][n] = Unread
        PROVE  row'[n] = Right(n)'
    <3>1. n \in Refreshed(c) /\ n \in quiet'[c]
      BY <1>9, <2>2
    <3>2. row[n] = Right(n)
      BY <1>0, <1>8, <2>1, <2>2, <3>1 DEF RefreshInv
    <3> QED
      BY <1>3, <3>1, <3>2
  <2>3. CASE indexAt'[c] = "failed"
    BY <2>3 DEF RefreshInv
  <2>4. CASE indexAt'[c] = "apply"
    <3>1. PICK m \in NodeNo : /\ listing[c][m].stamp > mark[c]
                              /\ row' = [row EXCEPT ![m] = RowOf(listing[c][m])]
                              /\ listing' = [listing EXCEPT ![c][m] = Unread]
      BY <1>1, <1>13, <2>4 DEF SyncRows, Synced, IndexEnd, IndexGo
    <3>2. ASSUME NEW n \in Refreshed(c)', listing'[c][n] = Unread
          PROVE  row'[n] = Right(n)'
      <4>1. n \in quiet'[c] /\ n \in NodeNo /\ NothingOld(n)
        BY <1>3, <1>9, <3>2
      <4>2. CASE n = m
        <5>1. RowOf(listing[c][n]) = Right(n)
          BY <1>8, <2>1, <3>1, <4>1, <4>2, AppliedRowsAreRight
        <5>2. Right(n)' = Right(n)
          BY <1>0, <4>1, QuietMeansUnwritten
        <5>3. row'[n] = RowOf(listing[c][n])
          BY <1>0, <3>1, <4>2 DEF IndexTypeOK
        <5> QED
          BY <5>1, <5>2, <5>3
      <4>3. CASE n # m
        <5>1. listing[c][n] = Unread
          BY <1>1, <3>1, <3>2, <4>1, <4>3
        <5> QED
          BY <2>2, <3>2, <5>1
      <4> QED
        BY <4>2, <4>3
    <3> QED
      BY <2>4, <3>2 DEF RefreshInv
  <2>5. CASE indexAt'[c] = "done"
    <3>1. \A n \in NodeNo : ~(listing[c][n].stamp > mark[c])
      BY <1>1, <1>13, <2>5 DEF SyncRows, IndexEnd, IndexGo
    <3>2. ASSUME NEW n \in Refreshed(c)'
          PROVE  row'[n] = Right(n)'
      <4>1. n \in quiet'[c] /\ n \in NodeNo /\ NothingOld(n) /\ n \in Refreshed(c)
        BY <1>3, <1>9, <3>2
      <4>2. listing[c][n] = View(n) \/ listing[c][n] = Unread
        BY <1>8, <2>1, <4>1, AppliedRowsAreRight
      <4>3. listing[c][n] # View(n)
        BY <3>1, <4>1 DEF View, Refreshed
      <4> QED
        BY <2>2, <3>2, <4>2, <4>3
    <3> QED
      BY <2>5, <3>2 DEF RefreshInv
  <2> QED
    BY <1>1, <1>13, <2>3, <2>4, <2>5 DEF SyncRows, IndexEnd, IndexGo
<1>14. ~WriteNode(c) /\ ~RemoveRow(c) /\ ~IndexNode(c) /\ ~Clear(c) /\ ~LookWhetherComplete(c) /\ ~Browse(c)
  BY <1>0, <1>8 DEF WriteNode, RemoveRow, IndexNode, Clear, LookWhetherComplete, Browse, UnderWay, Writing, Refreshing
<1> QED
  BY <1>10, <1>11, <1>12, <1>13, <1>14 DEF IndexStep

\* What a browse lists next is the first of what is behind its cursor, so that
\* the rows it has listed are those that are not behind it.
LEMMA CursorMoves ==
    ASSUME IndexTypeOK, NEW c \in IndexCall, NEW n \in NodeNo, NEW m \in NodeNo,
           row[n] # 0, Behind(c, n), \A k \in NodeNo : row[k] # 0 /\ Behind(c, k) /\ k # n => Before(n, k),
           row' = row, cursor'[c] = [stamp |-> row[n], node |-> n], row[m] # 0
    PROVE  Behind(c, m)' <=> Behind(c, m) /\ m # n
<1>1. row[n] \in Int /\ row[m] \in Int /\ n \in Int /\ m \in Int
  BY IndexAssumption DEF IndexTypeOK, Times
<1>2. cursor[c].stamp \in Int /\ cursor[c].node \in Int
  <2>1. cursor[c].stamp \in Times \cup {MaxTime + 1} /\ cursor[c].node \in NodeNo \cup {-1}
    BY DEF IndexTypeOK
  <2> QED
    BY <2>1, IndexAssumption DEF Times
<1>3. Behind(c, m)' <=> (row[m] < row[n] \/ (row[m] = row[n] /\ m > n))
  BY DEF Behind
<1>4. Behind(c, m) <=> (row[m] < cursor[c].stamp \/ (row[m] = cursor[c].stamp /\ m > cursor[c].node))
  BY DEF Behind
<1>5. row[n] < cursor[c].stamp \/ (row[n] = cursor[c].stamp /\ n > cursor[c].node)
  BY DEF Behind
<1>6. Behind(c, m) /\ m # n => row[n] > row[m] \/ (row[n] = row[m] /\ n < m)
  BY DEF Before
<1> QED
  BY <1>1, <1>2, <1>3, <1>4, <1>5, <1>6

LEMMA BrowseStays ==
    ASSUME IndexInv, NEW c \in IndexCall, IndexStep(c), NEW e \in IndexCall
    PROVE  BrowseInv(e)'
<1>0. IndexTypeOK /\ UnderWay(c) /\ TxnInv /\ BrowseInv(e)
  BY DEF IndexInv
<1>1. /\ indexJob \in [IndexCall -> [kind : IndexKinds, node : NodeNo]]
      /\ indexAt \in [IndexCall -> {"start", "wrote", "removed", "list", "apply", "rows", "page", "done", "failed"}]
      /\ quiet \in [IndexCall -> SUBSET NodeNo]
  BY <1>0 DEF IndexTypeOK
<1>2. /\ cursor \in [IndexCall -> [stamp : Times \cup {MaxTime + 1}, node : NodeNo \cup {-1}]]
      /\ listed \in [IndexCall -> [NodeNo -> 0..2]]
      /\ row \in [NodeNo -> Times]
  BY <1>0 DEF IndexTypeOK
<1>3. quiet' \in [IndexCall -> SUBSET NodeNo]
  BY IndexTypeStays DEF IndexTypeOK
<1>4. ASSUME NEW n \in quiet'[e], row[n] = Right(n)
      PROVE  /\ n \in NodeNo /\ row'[n] = Right(n)' /\ row'[n] = row[n]
             /\ cursor'[e] = cursor[e] => (Behind(e, n)' <=> Behind(e, n))
  <2>1. n \in NodeNo
    BY <1>3, <1>4
  <2>2. NothingOld(n) /\ Right(n)' = Right(n)
    BY <1>0, <1>4, <2>1, QuietIsUnthreatened, QuietMeansUnwritten
  <2>3. row'[n] = Right(n)'
    BY <1>4, <2>1, <2>2, RightRowsStay
  <2>4. row'[n] = row[n]
    BY <1>4, <2>2, <2>3
  <2> QED
    BY <2>1, <2>3, <2>4 DEF Behind
<1>5. CASE e # c
  <2>1. /\ indexJob'[e] = indexJob[e] /\ indexAt'[e] = indexAt[e]
        /\ cursor'[e] = cursor[e] /\ listed'[e] = listed[e]
    BY <1>0, <1>5, OthersStand
  <2>2. SUFFICES ASSUME IndexKind(e) = "browse"
                 PROVE  BrowseInv(e)'
    BY <2>1 DEF BrowseInv, IndexKind
  <2>3. quiet'[e] \subseteq quiet[e]
    BY <1>3, <1>5, QuietIsUnthreatened
  <2>4. ASSUME NEW n \in quiet'[e]
        PROVE  /\ row[n] = Right(n) /\ row'[n] = Right(n)' /\ row'[n] = row[n] /\ (Behind(e, n)' <=> Behind(e, n))
               /\ listed[e][n] = IF row[n] = 0 \/ Behind(e, n) THEN 0 ELSE 1
               /\ indexAt[e] = "done" => row[n] = 0 \/ ~Behind(e, n)
    <3>1. /\ row[n] = Right(n)
          /\ listed[e][n] = IF row[n] = 0 \/ Behind(e, n) THEN 0 ELSE 1
          /\ indexAt[e] = "done" => row[n] = 0 \/ ~Behind(e, n)
      BY <1>0, <2>2, <2>3, <2>4 DEF BrowseInv
    <3> QED
      BY <1>4, <2>1, <2>4, <3>1
  <2>5. indexAt[e] = "start" => /\ quiet'[e] = {} /\ cursor[e].stamp = MaxTime + 1
                                /\ \A n \in NodeNo : listed[e][n] = 0
    BY <1>0, <2>2, <2>3 DEF BrowseInv
  <2> QED
    BY <2>1, <2>4, <2>5 DEF BrowseInv
<1> SUFFICES ASSUME e = c, IndexKind(c)' = "browse"
             PROVE  BrowseInv(c)'
  BY <1>5 DEF BrowseInv
<1>6. ~StartRefresh(c)
  BY <1>0, JobsStay DEF IndexKind, Refreshing
<1>7. IndexKind(c) = "browse"
  BY <1>6 DEF IndexStep, IndexKind, WriteNode, RemoveRow, IndexNode, List, BeginRebuild, PutRows,
     EndRebuild, SyncRows, Clear, LookWhetherComplete, Browse
<1>8. LookWhetherComplete(c) \/ Browse(c)
  BY <1>0, <1>6, <1>7 DEF IndexStep, UnderWay, TxnInv, Refreshers, Refreshing, Writing, WriteNode, RemoveRow,
     IndexNode, List, BeginRebuild, PutRows, EndRebuild, SyncRows, Clear
<1>9. row' = row
  BY <1>8 DEF LookWhetherComplete, Browse, index
<1>10. CASE LookWhetherComplete(c)
  <2>1. /\ cursor' = cursor /\ listed' = listed /\ indexAt'[c] \in {"rows", "failed"}
        /\ quiet' = [quiet EXCEPT ![c] =
               IF indexAt[c] = "start" THEN {n \in NodeNo : row[n] = Right(n)} \ Threatened ELSE @]
    BY <1>1, <1>10 DEF LookWhetherComplete, IndexGo
  <2>2. ASSUME NEW n \in quiet'[c]
        PROVE  row[n] = Right(n) /\ listed[c][n] = IF row[n] = 0 \/ Behind(c, n) THEN 0 ELSE 1
    <3>1. CASE indexAt[c] = "start"
      <4>1. n \in NodeNo /\ row[n] = Right(n)
        BY <1>1, <2>1, <2>2, <3>1
      <4>2. cursor[c].stamp = MaxTime + 1 /\ listed[c][n] = 0
        BY <1>0, <1>7, <3>1, <4>1 DEF BrowseInv
      <4>3. row[n] < MaxTime + 1
        BY <1>2, <4>1, IndexAssumption DEF Times
      <4>4. Behind(c, n)
        BY <4>2, <4>3 DEF Behind
      <4> QED
        BY <4>1, <4>2, <4>4
    <3>2. CASE indexAt[c] # "start"
      <4>1. n \in quiet[c]
        BY <1>1, <2>1, <2>2, <3>2
      <4> QED
        BY <1>0, <1>7, <4>1 DEF BrowseInv
    <3> QED
      BY <3>1, <3>2
  <2>3. ASSUME NEW n \in quiet'[c]
        PROVE  /\ row'[n] = Right(n)'
               /\ listed'[c][n] = IF row'[n] = 0 \/ Behind(c, n)' THEN 0 ELSE 1
    <3>1. row[n] = Right(n) /\ listed[c][n] = IF row[n] = 0 \/ Behind(c, n) THEN 0 ELSE 1
      BY <2>2, <2>3
    <3>2. /\ row'[n] = Right(n)' /\ row'[n] = row[n]
          /\ Behind(c, n)' <=> Behind(c, n)
      BY <1>4, <2>1, <2>3, <3>1
    <3> QED
      BY <2>1, <3>1, <3>2
  <2> QED
    BY <2>1, <2>3 DEF BrowseInv
<1>11. CASE Browse(c)
  <2>0. quiet' = quiet /\ indexAt[c] = "rows"
    BY <1>11 DEF Browse
  <2>1. ASSUME NEW n \in quiet[c]
        PROVE  /\ n \in NodeNo /\ row[n] = Right(n) /\ row'[n] = Right(n)' /\ row'[n] = row[n]
               /\ listed[c][n] = IF row[n] = 0 \/ Behind(c, n) THEN 0 ELSE 1
    <3>1. row[n] = Right(n) /\ listed[c][n] = IF row[n] = 0 \/ Behind(c, n) THEN 0 ELSE 1
      BY <1>0, <1>7, <2>1 DEF BrowseInv
    <3> QED
      BY <1>4, <2>0, <2>1, <3>1
  <2>2. CASE /\ {n \in NodeNo : row[n] # 0 /\ Behind(c, n)} = {}
             /\ IndexGo(c, "done")
             /\ UNCHANGED <<cursor, listed>>
    <3>1. indexAt'[c] = "done"
      BY <1>1, <2>2 DEF IndexGo
    <3>2. ASSUME NEW n \in quiet'[c]
          PROVE  /\ row'[n] = Right(n)'
                 /\ listed'[c][n] = IF row'[n] = 0 \/ Behind(c, n)' THEN 0 ELSE 1
                 /\ row'[n] = 0 \/ ~Behind(c, n)'
      <4>1. n \in quiet[c]
        BY <2>0, <3>2
      <4>2. /\ n \in NodeNo /\ row[n] = Right(n) /\ row'[n] = Right(n)' /\ row'[n] = row[n]
            /\ listed[c][n] = IF row[n] = 0 \/ Behind(c, n) THEN 0 ELSE 1
        BY <2>1, <4>1
      <4>3. (Behind(c, n)' <=> Behind(c, n)) /\ listed' = listed
        BY <1>9, <2>2 DEF Behind
      <4>4. row[n] = 0 \/ ~Behind(c, n)
        BY <2>2, <4>2
      <4> QED
        BY <4>2, <4>3, <4>4
    <3> QED
      BY <3>1, <3>2 DEF BrowseInv
  <2>3. CASE \E n \in {n \in NodeNo : row[n] # 0 /\ Behind(c, n)} :
                /\ \A m \in {m \in NodeNo : row[m] # 0 /\ Behind(c, m)} \ {n} : Before(n, m)
                /\ cursor' = [cursor EXCEPT ![c] = [stamp |-> row[n], node |-> n]]
                /\ listed' = [listed EXCEPT ![c][n] = @ + 1]
                /\ IndexGo(c, "page")
    <3>1. PICK n \in NodeNo :
                /\ row[n] # 0 /\ Behind(c, n)
                /\ \A m \in NodeNo : row[m] # 0 /\ Behind(c, m) /\ m # n => Before(n, m)
                /\ cursor' = [cursor EXCEPT ![c] = [stamp |-> row[n], node |-> n]]
                /\ listed' = [listed EXCEPT ![c][n] = @ + 1]
                /\ IndexGo(c, "page")
      BY <2>3
    <3>2. indexAt'[c] = "page" /\ cursor'[c] = [stamp |-> row[n], node |-> n]
      BY <1>1, <1>2, <3>1 DEF IndexGo
    <3>3. ASSUME NEW m \in quiet'[c]
          PROVE  /\ row'[m] = Right(m)'
                 /\ listed'[c][m] = IF row'[m] = 0 \/ Behind(c, m)' THEN 0 ELSE 1
      <4>1. m \in quiet[c]
        BY <2>0, <3>3
      <4>2. /\ m \in NodeNo /\ row[m] = Right(m) /\ row'[m] = Right(m)' /\ row'[m] = row[m]
            /\ listed[c][m] = IF row[m] = 0 \/ Behind(c, m) THEN 0 ELSE 1
        BY <2>1, <4>1
      <4>3. listed'[c][m] = IF m = n THEN listed[c][n] + 1 ELSE listed[c][m]
        BY <1>2, <3>1, <4>2
      <4>4. CASE row[m] = 0
        BY <3>1, <4>2, <4>3, <4>4
      <4>5. CASE row[m] # 0
        <5>1. Behind(c, m)' <=> Behind(c, m) /\ m # n
          BY <1>0, <1>9, <3>1, <3>2, <4>2, <4>5, CursorMoves
        <5>2. CASE m = n
          BY <3>1, <4>2, <4>3, <4>5, <5>1, <5>2
        <5>3. CASE m # n
          BY <4>2, <4>3, <4>5, <5>1, <5>3
        <5> QED
          BY <5>2, <5>3
      <4> QED
        BY <4>4, <4>5
    <3> QED
      BY <3>2, <3>3 DEF BrowseInv
  <2> QED
    BY <1>11, <2>2, <2>3 DEF Browse
<1> QED
  BY <1>8, <1>10, <1>11

LEMMA IndexSteps == IndexInv /\ [IndexNext]_indexVars => IndexInv'
<1>1. ASSUME IndexInv, NEW c \in IndexCall, IndexStep(c)
      PROVE  IndexInv'
  <2>1. IndexTypeOK' /\ time' >= 1 /\ \A n \in NodeNo : stamp'[n] >= 1
    BY <1>1, IndexTypeStays
  <2>2. TxnInv' /\ UnthreatenedInv'
    BY <1>1, TxnStays, UnthreatenedStays
  <2>3. \A e \in IndexCall : UnderWay(e)' /\ RefreshInv(e)' /\ BrowseInv(e)'
    BY <1>1, UnderWayStays, RefreshStays, BrowseStays
  <2> QED
    BY <2>1, <2>2, <2>3 DEF IndexInv
<1>2. ASSUME IndexInv, UNCHANGED indexVars
      PROVE  IndexInv'
  <2>1. /\ UNCHANGED <<indexJob, time, stamp, gone, row, complete, txn, indexAt>>
        /\ UNCHANGED <<unread, listing, mark, cursor, listed, quiet>>
    BY <1>2 DEF indexVars
  <2>2. IndexTypeOK' /\ time' >= 1 /\ \A n \in NodeNo : stamp'[n] >= 1
    BY <1>2, <2>1 DEF IndexInv, IndexTypeOK
  <2>3. TxnInv'
    BY <1>2, <2>1 DEF IndexInv, TxnInv, IndexKind
  <2>4. UnthreatenedInv'
    BY <1>2, <2>1 DEF IndexInv, UnthreatenedInv, InFlight, HoldsNothingOld, Refreshers, IndexKind, View
  <2>5. ASSUME NEW e \in IndexCall
        PROVE  UnderWay(e)' /\ RefreshInv(e)' /\ BrowseInv(e)'
    <3>1. UnderWay(e) /\ RefreshInv(e) /\ BrowseInv(e)
      BY <1>2 DEF IndexInv
    <3>2. UnderWay(e)'
      BY <2>1, <3>1 DEF UnderWay, Refreshers, IndexKind
    <3>3. RefreshInv(e)'
      BY <2>1, <3>1 DEF RefreshInv, Refreshed, Refreshers, IndexKind, Right, RowOf, View
    <3>4. BrowseInv(e)'
      BY <2>1, <3>1 DEF BrowseInv, IndexKind, Behind, Right, RowOf, View
    <3> QED
      BY <3>2, <3>3, <3>4
  <2> QED
    BY <2>2, <2>3, <2>4, <2>5 DEF IndexInv
<1> QED
  BY <1>1, <1>2 DEF IndexNext, IndexStep

LEMMA IndexAlways == IndexSpec => []IndexInv
BY IndexStarts, IndexSteps, PTL DEF IndexSpec

\* When a rebuild or a synchronization is over, the row of every node that is
\* quiet for it and that changed after its mark is what the server has, for any
\* number of calls and nodes.
THEOREM SpecRefreshedIsRight == IndexSpec => []RefreshedIsRight
<1>1. ASSUME IndexInv
      PROVE  RefreshedIsRight
  <2>1. SUFFICES ASSUME NEW c \in Refreshers, indexAt[c] = "done", NEW n \in quiet[c], stamp[n] > mark[c]
                 PROVE  row[n] = Right(n)
    BY DEF RefreshedIsRight
  <2>2. c \in IndexCall
    BY <2>1 DEF Refreshers
  <2>3. RefreshInv(c)
    BY <1>1, <2>2 DEF IndexInv
  <2> QED
    BY <2>1, <2>3 DEF RefreshInv, Refreshed
<1> QED
  BY <1>1, IndexAlways, PTL

\* A browse that ran to its end has listed every active node that is quiet for
\* it exactly once, and none of the archived ones.
THEOREM SpecBrowseListsTheUnchanged == IndexSpec => []BrowseListsTheUnchanged
<1>1. ASSUME IndexInv
      PROVE  BrowseListsTheUnchanged
  <2>1. SUFFICES ASSUME NEW c \in IndexCall, IndexKind(c) = "browse", indexAt[c] = "done", NEW n \in quiet[c]
                 PROVE  listed[c][n] = IF gone[n] THEN 0 ELSE 1
    BY DEF BrowseListsTheUnchanged
  <2>2. /\ row[n] = Right(n)
        /\ listed[c][n] = IF row[n] = 0 \/ Behind(c, n) THEN 0 ELSE 1
        /\ row[n] = 0 \/ ~Behind(c, n)
    BY <1>1, <2>1 DEF IndexInv, BrowseInv
  <2>3. n \in NodeNo
    BY <1>1, <2>1 DEF IndexInv, IndexTypeOK
  <2>4. row[n] = 0 <=> gone[n]
    BY <1>1, <2>2, <2>3 DEF IndexInv, Right, RowOf, View
  <2> QED
    BY <2>2, <2>4
<1> QED
  BY <1>1, IndexAlways, PTL
=============================================================================
