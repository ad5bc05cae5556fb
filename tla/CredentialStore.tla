--------------------------- MODULE CredentialStore ---------------------------
(***************************************************************************)
(* The files of the credential store as several processes of one user see  *)
(* them: the general login, the login of this project, the legacy login in *)
(* the repository, and the selection among them.  What a login is renewed  *)
(* to is the module AuthRenewal; here a login only has an origin, "U" for  *)
(* the general one and "P" for one that was issued to the project.         *)
(***************************************************************************)
EXTENDS Naturals, FiniteSets

CONSTANTS
    LoginCall,  \* the calls under way, each in a process of its own
    Nobody,     \* no call, or no file
    LoginJobs   \* the assignments of jobs to calls that are considered

File == {"user", "project", "legacy"}
Content == {"absent", "blank", "out", "U", "P"}
LoginKinds == {"request", "save", "login", "login_project", "logout", "logout_project", "use_user", "migrate"}
Selecting == {"request", "save", "logout_project"}

ASSUME StoreAssumption == \A j \in LoginJobs : j \in [LoginCall -> LoginKinds]

VARIABLES
    loginJob,    \* what each call does
    file,        \* what is in each credential file
    profile,     \* credential_profile in the selection file
    lockHolder,  \* who holds the lock of each file and of the selection
    loginAt,     \* where each call stands
    chosen,      \* the file a call has settled on
    carried,     \* what it has read from it
    was,         \* the profile it has read
    over         \* history: a project login was selected all the time
loginVars == <<loginJob, file, profile, lockHolder, loginAt, chosen, carried, was, over>>

Profile == {"none", "user", "project"}
Locks == File \cup {"selection"}

LoginTypeOK ==
    /\ loginJob \in LoginJobs
    /\ file \in [File -> Content]
    /\ profile \in Profile
    /\ lockHolder \in [Locks -> LoginCall \cup {Nobody}]
    /\ loginAt \in [LoginCall -> {"start", "project?", "legacy?", "chosen", "locked", "read", "saved",
                                  "merge", "stored", "copied", "done", "refused"}]
    /\ chosen \in [LoginCall -> File \cup {Nobody}]
    /\ carried \in [LoginCall -> Content]
    /\ was \in [LoginCall -> Profile]
    /\ over \in [LoginCall -> BOOLEAN]

Overridden(f, p) == p # "user" /\ (f["project"] # "absent" \/ f["legacy"] # "absent")

LoginInit ==
    /\ loginJob \in LoginJobs
    /\ file \in [user : {"absent", "U"}, project : {"absent", "P"}, legacy : {"absent", "P"}]
    /\ profile \in Profile
    /\ profile = "project" => file["project"] # "absent"
    /\ profile = "user" => file["user"] # "absent"
    /\ lockHolder = [l \in Locks |-> Nobody]
    /\ loginAt = [c \in LoginCall |-> "start"]
    /\ chosen = [c \in LoginCall |-> Nobody]
    /\ carried = [c \in LoginCall |-> "absent"]
    /\ was = [c \in LoginCall |-> "none"]
    /\ over = [c \in LoginCall |-> Overridden(file, profile)]

LoginGo(c, place) == loginAt' = [loginAt EXCEPT ![c] = place]
Choose(c, f) == chosen' = [chosen EXCEPT ![c] = f] /\ LoginGo(c, "chosen")
Free(l) == lockHolder[l] = Nobody
Take(c, l) == lockHolder' = [lockHolder EXCEPT ![l] = c]
Unlock(c) == lockHolder' = [l \in Locks |-> IF lockHolder[l] = c THEN Nobody ELSE lockHolder[l]]
(* What is selected now, for those who have not ended. *)
Watch == over' = [c \in LoginCall |-> over[c] /\ (loginAt[c] = "done" \/ Overridden(file', profile'))]
Store(f, content) ==
    /\ file' = [file EXCEPT ![f] = content]
    /\ UNCHANGED profile
    /\ Watch
NoChange == UNCHANGED <<file, profile, over>>

-----------------------------------------------------------------------------
(* selected(): the selection is read, then one file after the other is     *)
(* looked for; nothing is locked meanwhile.                                *)
Select(c) ==
    /\ loginJob[c] \in Selecting
    /\ \/ /\ loginAt[c] = "start"
          /\ was' = [was EXCEPT ![c] = profile]
          /\ IF profile = "user" THEN Choose(c, "user") ELSE LoginGo(c, "project?") /\ UNCHANGED chosen
       \/ /\ loginAt[c] = "project?"
          /\ IF file["project"] # "absent" THEN Choose(c, "project") ELSE LoginGo(c, "legacy?") /\ UNCHANGED chosen
          /\ UNCHANGED was
       \/ /\ loginAt[c] = "legacy?"
          /\ Choose(c, IF file["legacy"] # "absent" THEN "legacy" ELSE "user")
          /\ UNCHANGED was
    /\ NoChange
    /\ UNCHANGED <<loginJob, lockHolder, carried>>

(* A request carries what is in the file it has settled on. *)
Request(c) ==
    /\ loginJob[c] = "request" /\ loginAt[c] = "chosen"
    /\ carried' = [carried EXCEPT ![c] = file[chosen[c]]]
    /\ LoginGo(c, "done")
    /\ NoChange
    /\ UNCHANGED <<loginJob, lockHolder, chosen, was>>

(* transaction(): the source is settled on before its lock is taken, and   *)
(* stays the same for the read and the write whatever is selected then.    *)
Lock(c) ==
    /\ loginJob[c] \in {"save", "logout_project"} /\ loginAt[c] = "chosen"
    /\ Free(chosen[c])
    /\ Take(c, chosen[c])
    /\ LoginGo(c, "locked")
    /\ NoChange
    /\ UNCHANGED <<loginJob, chosen, carried, was>>

Load(c) ==
    /\ loginJob[c] = "save" /\ loginAt[c] = "locked"
    /\ carried' = [carried EXCEPT ![c] = file[chosen[c]]]
    /\ was' = [was EXCEPT ![c] = profile]
    /\ LoginGo(c, "read")
    /\ NoChange
    /\ UNCHANGED <<loginJob, lockHolder, chosen>>

(* Where the write goes: to the source the transaction is pinned to. *)
SelectsAgain(c) ==   \* mutant of Pinned
    IF profile = "user" THEN "user" ELSE IF file["project"] # "absent" THEN "project"
    ELSE IF file["legacy"] # "absent" THEN "legacy" ELSE "user"
Pinned(c) == chosen[c]

(* write(): what was read goes back, with new tokens or new metadata; a    *)
(* file that has gone comes back without a login.  The general and the     *)
(* project login leave the selection of the project to the selection file. *)
Save(c) ==
    /\ loginJob[c] = "save" /\ loginAt[c] = "read"
    /\ Store(Pinned(c), IF carried[c] = "absent" THEN "blank" ELSE carried[c])
    /\ IF Pinned(c) = "legacy" THEN LoginGo(c, "done") /\ Unlock(c) ELSE LoginGo(c, "saved") /\ UNCHANGED lockHolder
    /\ UNCHANGED <<loginJob, chosen, carried, was>>

(* The selection is read, merged with what the caller has and written,     *)
(* under the lock of the credentials and not that of the selection.  What  *)
(* the caller has holds the profile of its first read, unless a vault      *)
(* keeps the keys apart.                                                   *)
Merge(c) ==
    /\ loginJob[c] = "save" /\ loginAt[c] = "saved"
    /\ \E p \in {was[c], profile} : was' = [was EXCEPT ![c] = p]
    /\ LoginGo(c, "merge")
    /\ NoChange
    /\ UNCHANGED <<loginJob, lockHolder, chosen, carried>>

Merged(c) ==
    /\ loginJob[c] = "save" /\ loginAt[c] = "merge"
    /\ profile' = was[c]
    /\ UNCHANGED file
    /\ Watch
    /\ Unlock(c)
    /\ LoginGo(c, "done")
    /\ UNCHANGED <<loginJob, chosen, carried, was>>

-----------------------------------------------------------------------------
LoginFile(c) == IF loginJob[c] = "login_project" THEN "project" ELSE "user"

(* login(): one file is replaced; a project login then selects itself. *)
Login(c) ==
    /\ loginJob[c] \in {"login", "login_project"} /\ loginAt[c] = "start"
    /\ Free(LoginFile(c))
    /\ Store(LoginFile(c), IF loginJob[c] = "login" THEN "U" ELSE "P")
    /\ LoginGo(c, IF loginJob[c] = "login" THEN "done" ELSE "stored")
    /\ UNCHANGED <<loginJob, lockHolder, chosen, carried, was>>

(* use_user(), and the second half of a project login: under the lock of   *)
(* the selection.                                                          *)
SetProfile(c) ==
    /\ \/ loginJob[c] = "login_project" /\ loginAt[c] = "stored"
       \/ loginJob[c] = "use_user" /\ loginAt[c] = "start" /\ file["user"] = "U"
    /\ Free("selection")
    /\ profile' = IF loginJob[c] = "use_user" THEN "user" ELSE "project"
    /\ UNCHANGED file
    /\ Watch
    /\ LoginGo(c, "done")
    /\ UNCHANGED <<loginJob, lockHolder, chosen, carried, was>>

NoUser(c) ==
    /\ loginJob[c] = "use_user" /\ loginAt[c] = "start" /\ file["user"] # "U"
    /\ LoginGo(c, "refused")
    /\ NoChange
    /\ UNCHANGED <<loginJob, lockHolder, chosen, carried, was>>

(* logout() leaves a tombstone, so that nothing else is selected instead. *)
Logout(c) ==
    /\ \/ /\ loginJob[c] = "logout" /\ loginAt[c] = "start" /\ Free("user")
          /\ Store("user", "out")
          /\ UNCHANGED lockHolder
       \/ /\ loginJob[c] = "logout_project" /\ loginAt[c] = "locked"
          /\ Store(chosen[c], "out")
          /\ Unlock(c)
    /\ LoginGo(c, "done")
    /\ UNCHANGED <<loginJob, chosen, carried, was>>

(* migrate(): under both locks the project file is written, read back, and *)
(* then the legacy file removed; a process that ends in between leaves     *)
(* both.                                                                   *)
Migrate(c) ==
    /\ loginJob[c] = "migrate"
    /\ \/ /\ loginAt[c] = "start" /\ Free("legacy") /\ Free("project")
          /\ IF file["legacy"] \in {"absent", "blank"} \/ file["project"] # "absent"
             THEN LoginGo(c, "refused") /\ UNCHANGED <<lockHolder, carried>> /\ NoChange
             ELSE /\ Store("project", file["legacy"])
                  /\ lockHolder' = [lockHolder EXCEPT !["legacy"] = c, !["project"] = c]
                  /\ carried' = [carried EXCEPT ![c] = file["legacy"]]
                  /\ LoginGo(c, "copied")
       \/ /\ loginAt[c] = "copied"
          /\ Store("legacy", "absent")
          /\ Unlock(c)
          /\ LoginGo(c, "done")
          /\ UNCHANGED carried
       \/ /\ loginAt[c] = "copied"
          /\ Unlock(c)
          /\ LoginGo(c, "refused")
          /\ NoChange
          /\ UNCHANGED carried
    /\ UNCHANGED <<loginJob, chosen, was>>

LoginNext == \E c \in LoginCall :
    \/ Select(c) \/ Request(c) \/ Lock(c) \/ Load(c) \/ Save(c) \/ Merge(c) \/ Merged(c)
    \/ Login(c) \/ SetProfile(c) \/ NoUser(c) \/ Logout(c) \/ Migrate(c)

LoginSpec == LoginInit /\ [][LoginNext]_loginVars

-----------------------------------------------------------------------------
(* A login never gets into the file of the other kind: a save that began   *)
(* before another login was selected, migrated or ended finishes on the    *)
(* file it began with, so that a token of the project is never taken for   *)
(* the general login of the user, or the other way round.                  *)
LoginsStayApart ==
    /\ file["user"] # "P"
    /\ file["project"] # "U"
    /\ file["legacy"] # "U"

(* What the command is described to do, "Move legacy credentials to user   *)
(* data without broadening scope": a request during which a login of the   *)
(* project, or its tombstone, was selected all the time does not carry the *)
(* general login.                                                          *)
OverrideHolds ==
    \A c \in LoginCall : loginJob[c] = "request" /\ loginAt[c] = "done" /\ over[c] => carried[c] # "U"
=============================================================================
