------------------------------- MODULE Packages -------------------------------
(***************************************************************************)
(* trailstep add, remove, update and workflows: registrations of workflows *)
(* in three config files and the one package most of them come from, which *)
(* is installed in two places.  The scopes local and project share the     *)
(* install root of the project; the global scope has its own.              *)
(*                                                                         *)
(* A command runs in several steps and may be killed between them.  A      *)
(* command that waits at a prompt holds what it read before, while other   *)
(* commands run to their ends.                                             *)
(***************************************************************************)
EXTENDS Integers, FiniteSets

CONSTANTS
    PkgWorkflow,   \* the workflows of the package
    FileWorkflow,  \* the workflows of a file of the user
    Published,        \* the latest published version
    MaxCommands,   \* bound on the commands started
    MaxKills       \* bound on the commands killed

\* A package is published; version 0 stands for none.
ASSUME PackageAssumption == Published \in Nat \ {0}

VARIABLES
    registry,  \* the registrations of each config file, by name
    roles,     \* the recommended config merged into each, by package version
    modules,   \* the version under node_modules of each install root, 0 for none
    declared,  \* the version package.json asks for, 0 for none
    cmd,       \* the command at work
    prompt,    \* what the command that waits at a prompt has read
    mine,      \* the roots that hold the package of the user's own accord
    lost,      \* the roots that lost the package in one of the ways noted below
    started, kills

pkVars == <<registry, roles, modules, declared, cmd, prompt, mine, lost, started, kills>>

Scope == {"local", "project", "global"}
InstallRoot == {"cwd", "home"}
\* workflowPackageInstallRootForScope
RootOf(scope) == IF scope = "global" THEN "home" ELSE "cwd"

RegName == PkgWorkflow \cup FileWorkflow
\* what a registration points at, and the metadata of a package it was added from
Pointer == ({"pkg"} \X PkgWorkflow) \cup ({"file"} \X FileWorkflow)
NoMeta == [source |-> "none"]
PkgMeta == [source : {"npm", "github"}, owned : BOOLEAN, target : Pointer]
NoReg == [target |-> <<>>, meta |-> NoMeta]
Registered == [target : Pointer, meta : PkgMeta \cup {NoMeta}]

\* no snapshot was taken; the directory is not in the snapshot
NoSnap == [dir |-> -2, declared |-> 0]
NoCommand == [op |-> "idle"]
NoPrompt == [held |-> "nothing"]

\* what earlier commands registered in a scope: every workflow of the package
Earlier(owned) ==
    [n \in RegName |->
        IF n \in PkgWorkflow
        THEN [target |-> <<"pkg", n>>,
              meta |-> [source |-> "npm", owned |-> owned, target |-> <<"pkg", n>>]]
        ELSE NoReg]
Nothing == [n \in RegName |-> NoReg]

\* The package is installed by the user, declared in a fresh clone, or absent, and nothing
\* is registered; or it was installed for local, and project reuses it.
PKInit ==
    /\ \E start \in {<<0, 0, FALSE>>, <<1, 1, FALSE>>, <<0, 1, FALSE>>, <<1, 1, TRUE>>} :
          /\ modules = [r \in InstallRoot |-> IF r = "cwd" THEN start[1] ELSE 0]
          /\ declared = [r \in InstallRoot |-> IF r = "cwd" THEN start[2] ELSE 0]
          /\ registry = [s \in Scope |-> IF start[3] /\ s # "global" THEN Earlier(s = "local")
                                         ELSE Nothing]
          /\ roles = [s \in Scope |-> IF start[3] /\ s # "global" THEN {1} ELSE {}]
          /\ mine = IF start[1] # 0 /\ ~start[3] THEN {"cwd"} ELSE {}
    /\ cmd = NoCommand /\ prompt = NoPrompt /\ lost = {} /\ started = 0 /\ kills = 0

-----------------------------------------------------------------------------
PkStart(c) ==
    /\ cmd = NoCommand /\ started < MaxCommands
    /\ started' = started + 1 /\ cmd' = c
    /\ UNCHANGED kills
PkGo(at) == cmd' = [cmd EXCEPT !.at = at] /\ UNCHANGED <<started, kills>>
PkEnd == cmd' = NoCommand /\ UNCHANGED <<started, kills>>
PkAt(op, at) == cmd # NoCommand /\ cmd.op = op /\ cmd.at = at

Holds(root) == modules[root] # 0

\* the registrations with package metadata, as <<scope, name>>
Entries == {e \in Scope \X RegName : registry[e[1]][e[2]] # NoReg}
Meta(e) == registry[e[1]][e[2]].meta
PkgEntries == {e \in Entries : Meta(e) # NoMeta}

-----------------------------------------------------------------------------
(* add *)
Add(scope, at, source, meta, snap) ==
    [op |-> "add", at |-> at, scope |-> scope, source |-> source, meta |-> meta, snap |-> snap]

\* prepareAddSource: a file of the user, or a bare name that resolves, needs no package
AddUnbacked(scope) ==
    /\ \/ PkStart(Add(scope, "plan", "file", NoMeta, NoSnap))
       \/ Holds(RootOf(scope)) /\ PkStart(Add(scope, "plan", "pkg", NoMeta, NoSnap))
    /\ UNCHANGED <<registry, roles, modules, declared, prompt, mine, lost>>

\* ensureNpmWorkflowPackageAvailable: reuse what is installed
AddReusing(scope) ==
    /\ Holds(RootOf(scope))
    /\ PkStart(Add(scope, "plan", "pkg", [source |-> "npm", owned |-> FALSE], NoSnap))
    /\ UNCHANGED <<registry, roles, modules, declared, prompt, mine, lost>>

\* createWorkflowPackageInstallSnapshot, before an install, a reinstall or an upgrade;
\* the package directory of a github ref is not known and not in the snapshot
AddInstalling(scope, source) ==
    LET root == RootOf(scope)
        dir == IF source = "npm" THEN modules[root] ELSE -1
    IN /\ PkStart(Add(scope, "install", "pkg", [source |-> source, owned |-> TRUE],
                      [dir |-> dir, declared |-> declared[root]]))
       /\ UNCHANGED <<registry, roles, modules, declared, prompt, mine, lost>>

\* installNpmWorkflowPackage: the package manager installs a version, or fails; a github
\* package that cannot be identified afterwards ends the command as well, and stays
InstallPackage ==
    /\ PkAt("add", "install")
    /\ LET root == RootOf(cmd.scope)
       IN \/ /\ \E v \in 1..Published :
                   /\ modules' = [modules EXCEPT ![root] = v]
                   /\ declared' = [declared EXCEPT ![root] = v]
             /\ PkGo("plan") \/ (cmd.meta.source = "github" /\ PkEnd)
          \/ PkEnd /\ UNCHANGED <<modules, declared>>
    /\ UNCHANGED <<registry, roles, prompt, mine, lost>>

\* validateAndBuildRegistryTargets: the workflows a user may pick from a source
Choices(source) == (SUBSET IF source = "pkg" THEN PkgWorkflow ELSE FileWorkflow) \ {{}}

\* findExistingRegistrationScope
Conflicts(scope, names) ==
    {n \in names : \E s \in IF scope = "global" THEN {"global"} ELSE {"project", "local"} :
                      registry[s][n] # NoReg}

\* resolveRegistrationConflictActions: a conflict is replaced or skipped
Resolved(scope, names) == {names \ skipped : skipped \in SUBSET Conflicts(scope, names)}

\* buildAddRegistrationPlan: nothing left to register, a cancel or an error cleans up
PlanRegistrations ==
    /\ PkAt("add", "plan")
    /\ \/ \E picked \in Choices(cmd.source) :
            \E names \in Resolved(cmd.scope, picked) \ {{}} :
               /\ cmd' = [op |-> "add", at |-> "write", scope |-> cmd.scope, source |-> cmd.source,
                          meta |-> cmd.meta, snap |-> cmd.snap, names |-> names]
               /\ UNCHANGED <<started, kills>>
       \/ IF cmd.snap = NoSnap THEN PkEnd ELSE PkGo("rollback")
    /\ UNCHANGED <<registry, roles, modules, declared, prompt, mine, lost>>

\* createPackageRegistryMetadata
MetaFor(meta, target) ==
    IF meta = NoMeta THEN NoMeta
    ELSE [source |-> meta.source, owned |-> meta.owned, target |-> target]

\* writeWorkflowRegistryEntries
WriteRegistrations ==
    /\ PkAt("add", "write")
    /\ registry' = [registry EXCEPT ![cmd.scope] =
          [n \in RegName |->
             IF n \in cmd.names
             THEN [target |-> <<cmd.source, n>>, meta |-> MetaFor(cmd.meta, <<cmd.source, n>>)]
             ELSE @[n]]]
    /\ mine' = IF cmd.meta # NoMeta /\ cmd.meta.owned THEN mine \ {RootOf(cmd.scope)} ELSE mine
    /\ lost' = IF cmd.snap # NoSnap THEN lost \ {RootOf(cmd.scope)} ELSE lost
    /\ PkGo("config")
    /\ UNCHANGED <<roles, modules, declared, prompt>>

\* applyRecommendedConfigForPreparedSource
ApplyRecommended ==
    /\ PkAt("add", "config")
    /\ roles' = [roles EXCEPT ![cmd.scope] =
          IF cmd.source = "pkg" /\ Holds(RootOf(cmd.scope)) THEN @ \cup {modules[RootOf(cmd.scope)]}
          ELSE @]
    /\ PkEnd
    /\ UNCHANGED <<registry, modules, declared, prompt, mine, lost>>

\* rollbackWorkflowPackageInstall: the manifest first, then the directory is removed
\* and copied back
RollBackFiles ==
    /\ PkAt("add", "rollback")
    /\ declared' = [declared EXCEPT ![RootOf(cmd.scope)] = cmd.snap.declared]
    /\ IF cmd.snap.dir = -1 THEN PkEnd ELSE PkGo("restore")
    /\ UNCHANGED <<registry, roles, modules, prompt, mine, lost>>
RollBackDirectory ==
    /\ PkAt("add", "restore")
    /\ modules' = [modules EXCEPT ![RootOf(cmd.scope)] = 0]
    /\ IF cmd.snap.dir = 0 THEN PkEnd ELSE PkGo("copy")
    /\ UNCHANGED <<registry, roles, declared, prompt, mine, lost>>
CopyDirectory ==
    /\ PkAt("add", "copy")
    /\ modules' = [modules EXCEPT ![RootOf(cmd.scope)] = cmd.snap.dir]
    /\ PkEnd
    /\ UNCHANGED <<registry, roles, declared, prompt, mine, lost>>

-----------------------------------------------------------------------------
(* remove, and Remove in the interactive list *)
Without(scope, name) == [registry EXCEPT ![scope][name] = NoReg]

Cleaning(scope, name, entry) ==
    [op |-> "remove", at |-> "cleanup", scope |-> scope, entry |-> entry]

\* the registration is read and deleted from its config file
Remove(scope, name) ==
    /\ registry[scope][name] # NoReg
    /\ registry' = Without(scope, name)
    /\ PkStart(Cleaning(scope, name, registry[scope][name]))
    /\ UNCHANGED <<roles, modules, declared, prompt, mine, lost>>

\* isSameWorkflowPackage
SamePackage(e, scope, meta) == e[1] = scope /\ Meta(e).source = meta.source

\* Mutant: nobody asks who else uses the package.
UninstallsUnasked(scope, entry) == entry.meta.target = entry.target /\ entry.meta.owned

\* cleanupRemovedWorkflowPackageInstall, up to the package manager
Uninstalls(scope, entry) ==
    /\ entry.meta.target = entry.target
    /\ ~\E e \in PkgEntries : SamePackage(e, scope, entry.meta)
    /\ entry.meta.owned

\* the package manager removes the package, or fails; a registration of the scope or
\* the source that was not asked about loses it
CleanupPackage ==
    /\ PkAt("remove", "cleanup")
    /\ LET root == RootOf(cmd.scope)
       IN \/ UNCHANGED <<modules, declared, lost>>
          \/ /\ cmd.entry.meta # NoMeta /\ Uninstalls(cmd.scope, cmd.entry)
             /\ modules' = [modules EXCEPT ![root] = 0]
             /\ declared' = [declared EXCEPT ![root] = 0]
             /\ lost' = IF \E e \in PkgEntries : RootOf(e[1]) = root
                             /\ (e[1] # cmd.scope \/ Meta(e).source # cmd.entry.meta.source)
                        THEN lost \cup {root} ELSE lost
    /\ PkEnd
    /\ UNCHANGED <<registry, roles, prompt, mine>>

-----------------------------------------------------------------------------
(* the interactive list of workflows, in another terminal *)
Hold(p) == /\ cmd = NoCommand /\ prompt = NoPrompt /\ started < MaxCommands
           /\ prompt' = p /\ started' = started + 1
           /\ UNCHANGED <<registry, roles, modules, declared, cmd, mine, lost, kills>>

Select(scope, name) ==
    /\ registry[scope][name] # NoReg
    /\ Hold([held |-> "entry", scope |-> scope, name |-> name, entry |-> registry[scope][name]])

\* removeSelectedEntry: what was selected decides on the cleanup
RemoveSelected ==
    /\ cmd = NoCommand /\ prompt.held = "entry"
    /\ registry' = Without(prompt.scope, prompt.name)
    /\ cmd' = Cleaning(prompt.scope, prompt.name, prompt.entry)
    /\ prompt' = NoPrompt
    /\ UNCHANGED <<roles, modules, declared, mine, lost, started, kills>>

\* moveWorkflowRegistryEntryInConfig
Moved(scope, from, to, target) ==
    [Without(scope, from) EXCEPT ![scope][to] = [target |-> target, meta |-> registry[scope][from].meta]]

\* applyRename: the target that was selected, the metadata that is there now
RenameSelected(to) ==
    /\ cmd = NoCommand /\ prompt.held = "entry" /\ to # prompt.name
    /\ registry' = Moved(prompt.scope, prompt.name, to, prompt.entry.target)
    /\ prompt' = NoPrompt
    /\ UNCHANGED <<roles, modules, declared, cmd, mine, lost, started, kills>>

-----------------------------------------------------------------------------
(* update *)
\* resolveWorkflowPackageUpdateTargets: the roots of the npm registrations, of which an
\* update covers all, those of one workflow, or none
Targets == {RootOf(e[1]) : e \in {x \in PkgEntries :
               Meta(x).source = "npm" /\ Meta(x).target = registry[x[1]][x[2]].target}}

\* planRecommendedConfigApplications: the config files with something to add
Additions == {s \in Scope : /\ \E e \in PkgEntries : e[1] = s
                            /\ Holds(RootOf(s)) /\ modules[RootOf(s)] \notin roles[s]}

\* the plan, with the config files as they will be written, is shown at the prompt;
\* a package that package.json does not list ends the command
PlanUpdate ==
    \E roots \in SUBSET Targets :
       LET changed == {r \in roots : declared[r] # Published} IN
       /\ \A r \in roots : declared[r] # 0
       /\ changed # {} \/ Additions # {}
       /\ Hold([held |-> "plan", roots |-> changed, configs |-> registry,
                roles |-> [s \in Scope |-> IF s \in Additions
                                           THEN roles[s] \cup {modules[RootOf(s)]} ELSE roles[s]],
                merged |-> Additions])

\* the user confirms the update, and separately the recommended config
ConfirmUpdate ==
    /\ cmd = NoCommand /\ prompt.held = "plan"
    /\ \E merged \in {{}, prompt.merged} :
          cmd' = [op |-> "update", at |-> "rewrite", roots |-> prompt.roots, merged |-> merged,
                  configs |-> prompt.configs, roles |-> prompt.roles]
    /\ prompt' = NoPrompt
    /\ UNCHANGED <<registry, roles, modules, declared, mine, lost, started, kills>>
DeclinePrompt ==
    /\ cmd = NoCommand /\ prompt # NoPrompt /\ prompt' = NoPrompt
    /\ UNCHANGED <<registry, roles, modules, declared, cmd, mine, lost, started, kills>>

\* rewritePackageJsonDependencies, which leaves out what is no longer listed
RewriteRanges ==
    /\ PkAt("update", "rewrite") /\ cmd.roots # {}
    /\ \E r \in cmd.roots :
          /\ r = "home" => "cwd" \notin cmd.roots
          /\ declared' = [declared EXCEPT ![r] = IF @ = 0 THEN 0 ELSE Published]
          /\ cmd' = [cmd EXCEPT !.at = "npm"]
    /\ UNCHANGED <<registry, roles, modules, prompt, mine, lost, started, kills>>

\* the install of a group: a failure ends the update with the ranges rewritten; a
\* package that package.json no longer lists is pruned
InstallGroup ==
    /\ PkAt("update", "npm")
    /\ \E r \in cmd.roots :
          /\ r = "home" => "cwd" \notin cmd.roots
          /\ \/ /\ modules' = [modules EXCEPT ![r] = declared[r]]
                /\ lost' = IF declared[r] = 0 THEN lost \cup {r} ELSE lost
                /\ cmd' = [cmd EXCEPT !.at = "rewrite", !.roots = @ \ {r}]
             \/ cmd' = NoCommand /\ UNCHANGED <<modules, lost>>
    /\ UNCHANGED <<registry, roles, declared, prompt, mine, started, kills>>

\* applyRecommendedConfigApplications: a config file is replaced by the planned one
MergePlanned ==
    /\ PkAt("update", "rewrite") /\ cmd.roots = {}
    /\ IF cmd.merged = {} THEN PkEnd /\ UNCHANGED <<registry, roles, lost>>
       ELSE \E s \in cmd.merged :
              /\ registry' = [registry EXCEPT ![s] = cmd.configs[s]]
              /\ roles' = [roles EXCEPT ![s] = cmd.roles[s]]
              /\ lost' = IF registry'[s] # registry[s] THEN lost \cup {RootOf(s)} ELSE lost
              /\ cmd' = [cmd EXCEPT !.merged = @ \ {s}]
              /\ UNCHANGED <<started, kills>>
    /\ UNCHANGED <<modules, declared, prompt, mine>>

-----------------------------------------------------------------------------
\* the process of the command ends; a rollback between removing and copying loses the
\* package
KillCommand ==
    /\ cmd # NoCommand /\ kills < MaxKills /\ kills' = kills + 1
    /\ lost' = IF PkAt("add", "copy") THEN lost \cup {RootOf(cmd.scope)} ELSE lost
    /\ cmd' = NoCommand
    /\ UNCHANGED <<registry, roles, modules, declared, prompt, mine, started>>

PKNext ==
    \/ \E s \in Scope : \/ AddUnbacked(s) \/ AddReusing(s)
                        \/ \E source \in {"npm", "github"} : AddInstalling(s, source)
    \/ InstallPackage \/ PlanRegistrations \/ WriteRegistrations \/ ApplyRecommended
    \/ RollBackFiles \/ RollBackDirectory \/ CopyDirectory
    \/ \E s \in Scope, n \in RegName : Remove(s, n) \/ Select(s, n)
    \/ CleanupPackage \/ RemoveSelected \/ \E n \in RegName : RenameSelected(n)
    \/ PlanUpdate \/ ConfirmUpdate \/ DeclinePrompt
    \/ RewriteRanges \/ InstallGroup \/ MergePlanned \/ KillCommand

PKSpec == PKInit /\ [][PKNext]_pkVars

-----------------------------------------------------------------------------
PKTypeOK ==
    /\ registry \in [Scope -> [RegName -> Registered \cup {NoReg}]]
    /\ modules \in [InstallRoot -> 0..Published] /\ declared \in [InstallRoot -> 0..Published]
    /\ roles \in [Scope -> SUBSET (1..Published)]
    /\ mine \subseteq InstallRoot /\ lost \subseteq InstallRoot
    /\ started \in 0..MaxCommands /\ kills \in 0..MaxKills

RollingBack(root) == PkAt("add", "copy") /\ RootOf(cmd.scope) = root

\* A package stays installed for as long as a registration with package metadata relies
\* on it, and for as long as the user's own installation was not taken over: a removal
\* asks the registrations of its scope and source first and uninstalls only what
\* TrailStep installed, and a rollback restores.  A root is excused once a removal took
\* the package from the other scope or source that shares it, a rollback was killed, or an
\* update planned before another command went on with what it had read: it wrote an old
\* config file back, or installed a package.json that no longer lists the package.
PackagesStay ==
    \A root \in InstallRoot :
        (\E e \in PkgEntries : RootOf(e[1]) = root) \/ root \in mine
        => Holds(root) \/ root \in lost \/ RollingBack(root)
=============================================================================
