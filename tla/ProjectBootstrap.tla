-------------------------- MODULE ProjectBootstrap --------------------------
(***************************************************************************)
(* How a folder gets its project: MCP workers that resolve the project of  *)
(* their calls and create one when the folder has none, the command that   *)
(* creates a project, and the one that attaches a folder to the project    *)
(* its committed locator names.  Each call is in a process of its own;     *)
(* within one process PROJECT_RESOLUTION_LOCK lets one at a time resolve.  *)
(* A process may end between any two steps, and an answer may be lost.     *)
(*                                                                         *)
(* The user is logged in.  Projects at the server are named by their slug. *)
(* A worker asks for the slug made of the folder's name; the commands that *)
(* create a project take another one from their argument.                  *)
(***************************************************************************)
EXTENDS Naturals, FiniteSets

CONSTANTS
    BootCall,  \* the calls under way
    Unset,     \* no project, or no call
    Slugs,     \* the slugs a project is created with
    Slug,      \* the one made of the name of the folder
    Declared,  \* the project that the locator of a fresh clone names
    BootJobs,  \* the assignments of jobs to calls that are considered
    MaxFaults  \* bound: processes that end and answers that are lost

BootKinds == {"resolve", "create", "init", "attach"}
Projects == Slugs \cup {Declared}

ASSUME BootstrapAssumption ==
    /\ Slug \in Slugs /\ Declared \notin Slugs /\ Unset \notin Projects
    /\ MaxFaults \in Nat
    /\ \A j \in BootJobs :
          /\ j \in [BootCall -> [kind : BootKinds, slug : Slugs]]
          /\ \A c \in BootCall : j[c].kind = "resolve" => j[c].slug = Slug

VARIABLES
    bootJob,     \* what each call does, and the slug it would create a project with
    cloned,      \* the folder came with a locator
    projects,    \* the projects at the server
    selection,   \* project_id in the credential store of the folder
    locator,     \* .napseer/project.json
    bootHolder,  \* the call that holds the bootstrap lock
    bootAt,      \* where each call stands
    mine,        \* the project a call has created, found or fetched
    answer,      \* the project it returned
    faults,
    contested    \* history: the folder has been given two projects, see Contest
bootVars == <<bootJob, cloned, projects, selection, locator, bootHolder, bootAt, mine, answer, faults, contested>>

BootTypeOK ==
    /\ bootJob \in BootJobs /\ cloned \in BOOLEAN
    /\ projects \subseteq Projects
    /\ selection \in Projects \cup {Unset} /\ locator \in Projects \cup {Unset}
    /\ bootHolder \in BootCall \cup {Unset}
    /\ bootAt \in [BootCall -> {"start", "locator", "wait", "again", "post", "find", "save", "check", "replace", "done", "refused", "failed"}]
    /\ mine \in [BootCall -> Projects \cup {Unset}]
    /\ answer \in [BootCall -> Projects \cup {Unset}]
    /\ faults \in 0..MaxFaults
    /\ contested \in BOOLEAN

BootInit ==
    /\ bootJob \in BootJobs
    /\ cloned \in BOOLEAN
    /\ \A c \in BootCall : bootJob[c].kind = "attach" => cloned
    /\ projects = IF cloned THEN {Declared} ELSE {}
    /\ selection = Unset
    /\ locator = IF cloned THEN Declared ELSE Unset
    /\ bootHolder = Unset
    /\ bootAt = [c \in BootCall |-> "start"]
    /\ mine = [c \in BootCall |-> Unset]
    /\ answer = [c \in BootCall |-> Unset]
    /\ faults = 0
    /\ contested = FALSE

BootGo(c, place) == bootAt' = [bootAt EXCEPT ![c] = place]
BootRelease(c) == bootHolder' = IF bootHolder = c THEN Unset ELSE bootHolder
Refuse(c) == BootGo(c, "refused") /\ BootRelease(c) /\ UNCHANGED <<mine, answer>>
Return(c, p) == BootGo(c, "done") /\ BootRelease(c) /\ answer' = [answer EXCEPT ![c] = p]
folder == <<projects, selection, locator>>

-----------------------------------------------------------------------------
(* The selection is saved before the locator is written, and that only     *)
(* after a look at the locator that is there.                              *)
LocatorFirst(place) ==   \* mutant of Following
    CASE place = "begin" -> "check" [] place = "check" -> "replace" [] place = "replace" -> "save" [] OTHER -> "end"
Following(place) ==
    CASE place = "begin" -> "save" [] place = "save" -> "check" [] place = "check" -> "replace" [] OTHER -> "end"

(* The project in the credential store is read first, the locator then. *)
ReadSelection(c) ==
    /\ bootAt[c] \in {"start", "again"}
    /\ mine' = [mine EXCEPT ![c] = selection]
    /\ BootGo(c, "locator")
    /\ UNCHANGED <<bootJob, cloned, folder, bootHolder, answer, faults>>

(* resolve_project_id(): a project that is selected and agrees with the    *)
(* locator is the answer; a locator without access, or one that names      *)
(* another project, ends the call; else the folder has no project yet, and *)
(* the bootstrap lock is waited for, unless the call holds it, having read *)
(* both once more.                                                         *)
Resolve(c) ==
    /\ bootJob[c].kind = "resolve" /\ bootAt[c] = "locator"
    /\ \/ /\ mine[c] # Unset /\ locator \in {Unset, mine[c]}
          /\ Return(c, mine[c])
          /\ UNCHANGED mine
       \/ /\ locator \notin {Unset, mine[c]}
          /\ Refuse(c)
       \/ /\ mine[c] = Unset /\ locator = Unset
          /\ BootGo(c, IF bootHolder = c THEN "post" ELSE "wait")
          /\ UNCHANGED <<bootHolder, mine, answer>>
    /\ UNCHANGED <<bootJob, cloned, folder, faults>>

(* `nap project create` refuses in a folder with a locator, and asks for   *)
(* nothing else; `nap project init` writes the locator of a project that   *)
(* is selected already.  Neither takes the bootstrap lock.                 *)
Command(c) ==
    /\ bootJob[c].kind \in {"create", "init"} /\ bootAt[c] = "locator"
    /\ IF bootJob[c].kind = "init" /\ mine[c] # Unset
       THEN IF locator \in {Unset, mine[c]}
            THEN BootGo(c, "check") /\ UNCHANGED <<bootHolder, mine, answer>>
            ELSE Refuse(c)
       ELSE IF locator # Unset THEN Refuse(c)
            ELSE BootGo(c, "post") /\ UNCHANGED <<bootHolder, mine, answer>>
    /\ UNCHANGED <<bootJob, cloned, folder, faults>>

(* operator_project_attach() fetches the project the locator names. *)
Attach(c) ==
    /\ bootJob[c].kind = "attach" /\ bootAt[c] = "locator"
    /\ IF locator \in projects
       THEN mine' = [mine EXCEPT ![c] = locator] /\ BootGo(c, Following("begin")) /\ UNCHANGED <<bootHolder, answer>>
       ELSE Refuse(c)
    /\ UNCHANGED <<bootJob, cloned, folder, faults>>

(* Whoever gets the lock reads the selection and the locator again. *)
ActsAtOnce == "post"   \* mutant of AfterLock
AfterLock == "again"

TakeLock(c) ==
    /\ bootAt[c] = "wait" /\ bootHolder = Unset
    /\ bootHolder' = c
    /\ BootGo(c, AfterLock)
    /\ UNCHANGED <<bootJob, cloned, folder, mine, answer, faults>>

(* create_project_with_state(): the server creates the project, or says    *)
(* that the slug is taken and is asked for the project that has it.        *)
Post(c) ==
    LET slug == bootJob[c].slug IN
    /\ bootAt[c] = "post"
    /\ IF slug \in projects THEN BootGo(c, "find") /\ UNCHANGED mine
       ELSE BootGo(c, Following("begin")) /\ mine' = [mine EXCEPT ![c] = slug]
    /\ projects' = projects \cup {slug}
    /\ UNCHANGED <<bootJob, cloned, selection, locator, bootHolder, answer, faults>>

Find(c) ==
    /\ bootAt[c] = "find"
    /\ mine' = [mine EXCEPT ![c] = bootJob[c].slug]
    /\ BootGo(c, Following("begin"))
    /\ UNCHANGED <<bootJob, cloned, folder, bootHolder, answer, faults>>

Proceed(c, place) ==
    IF Following(place) = "end" THEN Return(c, mine[c])
    ELSE BootGo(c, Following(place)) /\ UNCHANGED <<bootHolder, answer>>

SaveSelection(c) ==
    /\ bootAt[c] = "save"
    /\ selection' = mine[c]
    /\ Proceed(c, "save")
    /\ UNCHANGED <<bootJob, cloned, projects, locator, mine, faults>>

(* write_project_locator() reads the locator that is there, refuses when   *)
(* it names another project, and replaces the file.                        *)
CheckLocator(c) ==
    /\ bootAt[c] = "check"
    /\ IF locator \in {Unset, mine[c]} THEN Proceed(c, "check") /\ UNCHANGED mine ELSE Refuse(c)
    /\ UNCHANGED <<bootJob, cloned, folder, faults>>

ReplaceLocator(c) ==
    /\ bootAt[c] = "replace"
    /\ locator' = mine[c]
    /\ Proceed(c, "replace")
    /\ UNCHANGED <<bootJob, cloned, projects, selection, mine, faults>>

(* An answer of the server is lost, or the process ends: the lock is free  *)
(* again, and what is on disk and at the server stays.                     *)
Fault(c) ==
    /\ bootAt[c] \notin {"start", "done", "refused", "failed"}
    /\ faults < MaxFaults
    /\ faults' = faults + 1
    /\ BootGo(c, "failed")
    /\ BootRelease(c)
    /\ UNCHANGED <<bootJob, cloned, folder, mine, answer>>

(* A call that failed is made again. *)
Retry(c) ==
    /\ bootAt[c] = "failed"
    /\ BootGo(c, "start")
    /\ UNCHANGED <<bootJob, cloned, folder, bootHolder, mine, answer, faults>>

(* Two calls that have read the folder are about to give it different      *)
(* projects, which only commands can be with each other or with a worker   *)
(* that has the lock; or a command does in a folder with another project   *)
(* selected and no locator, which is what it looks for.                    *)
Giving == {"post", "find", "save", "check", "replace"}
Gives(c) == IF bootAt[c] \in {"post", "find"} THEN bootJob[c].slug ELSE mine[c]
Contest ==
    \E c \in BootCall : bootAt[c] \in Giving /\
        \/ bootAt[c] = "post" /\ locator = Unset /\ selection \notin {Unset, Gives(c)}
        \/ \E d \in BootCall : bootAt[d] \in Giving /\ Gives(d) # Gives(c)

BootNext ==
    /\ \E c \in BootCall :
          \/ ReadSelection(c) \/ Resolve(c) \/ Command(c) \/ Attach(c) \/ TakeLock(c) \/ Post(c) \/ Find(c)
          \/ SaveSelection(c) \/ CheckLocator(c) \/ ReplaceLocator(c) \/ Fault(c) \/ Retry(c)
    /\ contested' = (contested \/ Contest')

BootSpec == BootInit /\ [][BootNext]_bootVars

-----------------------------------------------------------------------------
(* All calls in one folder end up with one project, also when a command    *)
(* names it otherwise than a worker would, and wherever processes end:     *)
(* whoever gets an answer gets the same, and the two files never name      *)
(* different projects, unless the folder has been given two projects as    *)
(* the commands, which take no lock, can give it.  No clone of a declared  *)
(* project makes another one, in any case.                                 *)
OneProjectPerFolder ==
    /\ cloned => projects = {Declared}
    /\ ~contested =>
          /\ \A c, d \in BootCall : answer[c] # Unset /\ answer[d] # Unset => answer[c] = answer[d]
          /\ selection # Unset /\ locator # Unset => selection = locator

(* A process that ends while it creates the project leaves a folder in     *)
(* which the next call goes on: never one with a locator and no selection, *)
(* which every call refuses until somebody attaches the folder by hand.    *)
NeverLockedOut == ~cloned /\ locator # Unset => selection # Unset
=============================================================================
