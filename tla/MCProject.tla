------------------------------ MODULE MCProject -------------------------------
(* What several calls, processes and machines of one project share, one part  *)
(* after another: the scene says which of them a behaviour is about, and the  *)
(* others stay as they begin.                                                 *)
EXTENDS ProjectNodes, LocalIndex, CredentialStore, ProjectBootstrap,
        ProjectSecrets, GatewayRegistration, TLC

CONSTANTS Scenes, a, b, d, x, y, p, q, ownSlug, otherSlug

VARIABLE scene

One(i, j, k) == [c \in {a, b, d} |-> CASE c = a -> i [] c = b -> j [] c = d -> k]

\* Pairs of calls on nodes: what a bulk write, a guarded patch or the closing
\* of a plan may meet.
W(kind, nodes) == [kind |-> kind, nodes |-> nodes, outcome |-> None]
Close(o) == [kind |-> "close", nodes |-> {x}, outcome |-> o]
MCWorks == {[c \in Call |-> IF c = a THEN w[1] ELSE w[2]] : w \in {
    <<W("bulk", {x, y}), W("edit", {x})>>, <<W("bulk", {x, y}), W("bulk", {x, y})>>,
    <<W("folder", {x, y}), W("card", {y})>>, <<W("folder", {x, y}), W("archive", {x})>>,
    <<W("patch", {x}), W("edit", {x})>>, <<W("patch", {x}), W("patch", {x})>>, <<W("patch", {x}), Close(p)>>,
    <<Close(p), Close(q)>>, <<Close(p), W("edit", {x})>>, <<Close(p), Close(p)>>,
    <<W("complete", {x}), W("archive", {x})>>, <<W("create", {x}), W("bulk", {x, y})>>,
    <<W("restore", {x}), W("purge", {x})>>, <<W("bundle", {x}), W("agent", {x})>>,
    <<W("move", {x}), W("upsert", {x})>>, <<W("link", {x}), W("patch", {x})>>}}

\* Two calls that close one plan differently.
MCClosings == {[c \in Call |-> IF c = a THEN Close(p) ELSE Close(q)]}

J(kind, node) == [kind |-> kind, node |-> node]
MCIndexJobs == {
    One(J("browse", 1), J("rebuild", 1), J("edit", 1)), One(J("browse", 1), J("sync", 1), J("archive", 1)),
    One(J("rebuild", 1), J("sync", 1), J("elsewhere", 2)), One(J("move", 1), J("sync", 1), J("browse", 2)),
    One(J("rebuild", 1), J("clear", 1), J("restore", 1)), One(J("edit", 1), J("edit", 1), J("sync", 1)),
    One(J("rebuild", 1), J("rebuild", 1), J("edit", 2))}

MCLoginJobs == {
    One("save", "login_project", "save"), One("save", "migrate", "logout_project"),
    One("save", "use_user", "login"), One("request", "logout_project", "use_user"),
    One("save", "logout", "login_project"), One("request", "migrate", "save")}

B(kind, slug) == [kind |-> kind, slug |-> slug]
MCBootJobs == {
    One(B("resolve", ownSlug), B("resolve", ownSlug), B("create", otherSlug)),
    One(B("resolve", ownSlug), B("init", otherSlug), B("create", ownSlug)),
    One(B("resolve", ownSlug), B("init", otherSlug), B("create", otherSlug)),
    One(B("resolve", ownSlug), B("attach", ownSlug), B("resolve", ownSlug)),
    One(B("resolve", ownSlug), B("attach", ownSlug), B("init", otherSlug))}

\* Two calls of one process and one of another.
S(i, j, k, env, encrypted) ==
    [kind |-> One(i, j, k), on |-> One("here", "here", "there"),
     env |-> [h \in {"here", "there"} |-> IF h = "here" THEN "right" ELSE env], encrypted |-> encrypted]
MCSettings == {
    S("setup", "write", "chat", "other", FALSE), S("setup", "setup", "content", "right", FALSE),
    S("chat", "setup", "chat", "other", FALSE),
    S("rotate", "read", "rotate", "right", TRUE), S("write", "read", "rotate", "right", TRUE),
    S("read", "lock", "write", "right", TRUE), S("content", "metadata", "rotate", "right", TRUE),
    S("rotate", "other", "rotate", "other", TRUE), S("move", "rotate", "read", "right", TRUE),
    S("read", "read", "rotate", "right", TRUE), S("write", "disable", "read", "right", TRUE),
    S("other", "rotate", "write", "none", TRUE), S("rotate", "lock", "setup", "right", TRUE)}

MCRegJobs == {
    One("configure", "preregister", "activate"), One("run", "activate", "activate"), One("run", "run", "configure"),
    One("replace", "replace", "renew"), One("repair", "renew", "renew"), One("repair", "repair", "renew")}

\* A part that the scene is not about begins in one of its states.
ProjectInit ==
    /\ scene \in Scenes
    /\ scene # "nodes" => /\ work = CHOOSE w \in Works : TRUE
                          /\ state = [n \in Node |-> "active"]
    /\ scene # "index" => /\ indexJob = CHOOSE j \in IndexJobs : TRUE
                          /\ stamp = [n \in NodeNo |-> 1] /\ row = stamp /\ complete = TRUE
                          /\ gone = [n \in NodeNo |-> FALSE]
    /\ scene # "logins" => /\ loginJob = CHOOSE j \in LoginJobs : TRUE
                           /\ file = [f \in File |-> "absent"] /\ profile = "none"
    /\ scene # "bootstrap" => bootJob = CHOOSE j \in BootJobs : TRUE
    /\ scene # "bootstrap" => cloned = TRUE
    /\ scene # "secrets" => setting = CHOOSE s \in Settings : ~s.encrypted
    /\ scene # "registration" => regJob = CHOOSE j \in RegJobs : TRUE
    /\ scene # "registration" => registrations = <<>> /\ vaultLocked = FALSE
    /\ NodesInit /\ IndexInit /\ LoginInit /\ BootInit /\ SecretsInit /\ RegInit

ProjectNext ==
    /\ \/ scene = "nodes" /\ NodesNext /\ UNCHANGED <<indexVars, loginVars, bootVars, secretsVars, regVars>>
       \/ scene = "index" /\ IndexNext /\ UNCHANGED <<nodesVars, loginVars, bootVars, secretsVars, regVars>>
       \/ scene = "logins" /\ LoginNext /\ UNCHANGED <<nodesVars, indexVars, bootVars, secretsVars, regVars>>
       \/ scene = "bootstrap" /\ BootNext /\ UNCHANGED <<nodesVars, indexVars, loginVars, secretsVars, regVars>>
       \/ scene = "secrets" /\ SecretsNext /\ UNCHANGED <<nodesVars, indexVars, loginVars, bootVars, regVars>>
       \/ scene = "registration" /\ RegNext /\ UNCHANGED <<nodesVars, indexVars, loginVars, bootVars, secretsVars>>
    /\ UNCHANGED scene

ProjectSpec == ProjectInit /\ [][ProjectNext]_<<scene, nodesVars, indexVars, loginVars, bootVars, secretsVars, regVars>>

TypeOK == NodesTypeOK /\ IndexTypeOK /\ LoginTypeOK /\ BootTypeOK /\ SecretsTypeOK /\ RegTypeOK
===============================================================================
