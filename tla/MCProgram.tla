------------------------------ MODULE MCProgram ------------------------------
(* Two servers, whose names collide across the files, two hooks, and a few  *)
(* of the ways to start the program.                                        *)
EXTENDS Program, Configuration

FilesSrv == {"atlas", "beads"}

FilesOrder == <<"atlas", "beads">>

From(src, phases, valid) == [phases |-> phases, valid |-> valid, from |-> src]

Of(plugs, rems) == [parses |-> TRUE, plugins |-> plugs, remotes |-> rems]

(* The user's file: a plugin without phases and a remote.                   *)
UserFile ==
  Of("beads" :> From("user", {}, TRUE), "atlas" :> From("user", {"act", "orient"}, TRUE))

(* The project's file takes both names.                                     *)
ProjectFile ==
  Of("beads" :> From("project", {"act"}, TRUE), "atlas" :> From("project", {"act"}, TRUE))

(* A project file that shadows the user's remote with a plugin.             *)
Shadowing ==
  Of("atlas" :> From("project", {"decide"}, TRUE), "beads" :> From("project", {"act"}, TRUE))

FlagFile ==
  Of(NoEntries, ("atlas" :> From("flag", {"act"}, FALSE))
                  @@ ("beads" :> From("flag", {"decide"}, TRUE)))

Unparsable == [ProjectFile EXCEPT !.parses = FALSE]

Interverse == "atlas" :> From("interverse", {}, TRUE)

AskBash == [on |-> {"bash", "beads"}, closed |-> FALSE]

GuardAll == [on |-> Tool, closed |-> TRUE]

HookFile(hs) == [exists |-> TRUE, parses |-> TRUE, hooks |-> hs]

Base == [NoFiles EXCEPT !.user = UserFile]

(* Ways to start: the TUI over the project's file, in plan mode over a file *)
(* that shadows, with --plugins, and print mode with and without --iterate, *)
(* once outside every project, where the user's files are read twice.       *)
Started ==
  {[flags |-> NoFlags, files |-> [Base EXCEPT !.project = ProjectFile]],
   [flags |-> [NoFlags EXCEPT !.plan = TRUE, !.phase = "orient"],
    files |-> [Base EXCEPT !.project = Shadowing, !.userHooks = HookFile(<<GuardAll>>)]],
   [flags |-> [NoFlags EXCEPT !.phase = "reflect"],
    files |-> [NoFiles EXCEPT !.explicit = TRUE, !.flag = FlagFile, !.user = UserFile]],
   [flags |-> [NoFlags EXCEPT !.phase = "build"],
    files |-> [Base EXCEPT !.interverse = Interverse, !.project = Unparsable]],
   [flags |-> [NoFlags EXCEPT !.mode = "print", !.iterate = 1, !.test = TRUE],
    files |-> [Base EXCEPT !.userHooks = HookFile(<<AskBash>>),
                           !.projectHooks = HookFile(<<GuardAll>>)]],
   [flags |-> [NoFlags EXCEPT !.mode = "print", !.phase = "reflect", !.plan = TRUE],
    files |-> [Base EXCEPT !.projectHooks = HookFile(<<AskBash, GuardAll>>)]],
   [flags |-> [NoFlags EXCEPT !.mode = "print", !.iterate = 1],
    files |-> [Base EXCEPT !.userHooks = [NoHooks EXCEPT !.exists = TRUE, !.parses = FALSE]]],
   [flags |-> [NoFlags EXCEPT !.mode = "print"],
    files |-> [Base EXCEPT !.project = UserFile, !.userHooks = HookFile(<<GuardAll>>),
                           !.projectHooks = HookFile(<<GuardAll>>)]],
   [flags |-> [NoFlags EXCEPT !.mode = "print", !.phase = "observe"], files |-> Base]}
-----------------------------------------------------------------------------
(* The configuration on disk: a home, a project in it with a directory of   *)
(* its own, each with skills, those of a plugin, and commands.              *)
AtHome == <<"home">>
AtWork == <<"home", "work">>
AtSub == <<"home", "work", "sub">>

Key(k, v) == [key |-> k, value |-> v]
SkillFile(n) == [delimited |-> TRUE, lines |-> <<Key("name", n), Key("description", "does")>>]
CommandFile(n) == [name |-> n, parses |-> TRUE, type |-> "", template |-> TRUE, script |-> FALSE]

Everything ==
  [p \in {AtHome, AtWork} \X {"skills", "plugin", "commands"} |->
     IF p[2] = "commands" THEN <<CommandFile("go"), [CommandFile("no") EXCEPT !.template = FALSE]>>
                          ELSE <<SkillFile("go"), SkillFile(p[2])>>]

Disks ==
  {[home |-> AtHome, skaffen |-> sk, git |-> g,
    plugins |-> [d \in {AtHome, AtWork} |-> <<"plugin">>],
    holds |-> [p \in there |-> Everything[p]]] :
     sk \in SUBSET {<<>>, AtHome, AtWork}, g \in SUBSET {AtHome, AtWork, AtSub},
     there \in SUBSET DOMAIN Everything}

(* The order of precedence that SkillDirs documents (config.go:94).         *)
Tier(p) == (IF p[1] = AtHome THEN 0 ELSE 2) + (IF p[2] = "skills" THEN 1 ELSE 2)

(* A project root has a .skaffen and is between home and the directory, and *)
(* the claude process runs in a directory around the repository.            *)
ASSUME RootsAreAbove ==
  \A disk \in Disks : \A r \in findProjectRoot(disk, AtSub) :
    /\ r \in disk.skaffen /\ IsPrefix(AtHome, r) /\ IsPrefix(r, AtSub)
    /\ \A c \in resolveProjectRoot(disk, AtSub), g \in gitRoot(disk, AtSub) : IsPrefix(c, g)

(* No skill of a higher tier is overridden.                                 *)
ASSUME HighestTierWins ==
  \A disk \in Disks : \A n \in DOMAIN Skills(disk, AtSub) :
    \A i \in DOMAIN SkillDirs(disk, AtSub) :
      LET p == SkillDirs(disk, AtSub)[i] IN
      n \in Named(LoadSkills(disk, p, "")) => Tier(p) <= Tier(Skills(disk, AtSub)[n].from)

LabelledByTier(disk) ==
  LET skills == Skills(disk, AtSub) IN
  \A n \in DOMAIN skills : skills[n].source = SkillLabels[Tier(skills[n].from)]

(* The labels are right where every tier has its one directory, and wrong   *)
(* for the commands and skills of a project whose user has none.            *)
ASSUME LabelsByPlace ==
  \A disk \in Disks : disk.skaffen = {AtHome, AtWork} /\ AtHome \notin disk.git =>
    /\ DOMAIN disk.holds = DOMAIN Everything => LabelledByTier(disk)
    /\ DOMAIN disk.holds = {<<AtWork, "skills">>} => ~LabelledByTier(disk)

(* Outside every project the user's own files count twice.                  *)
ASSUME HomeIsAProject ==
  \A disk \in Disks : disk.skaffen = {AtHome} =>
    LET full == [disk EXCEPT !.holds = [p \in {<<AtHome, "routing.json">>} |-> <<>>]] IN
    /\ findProjectRoot(disk, AtSub) = {AtHome}
    /\ RoutingPaths(full, AtSub) = <<<<AtHome, "routing.json">>, <<AtHome, "routing.json">>>>
    /\ KeybindingsPaths(full, AtSub) = <<>>

(* The line by line reading is that of yaml, for keys given once, values of *)
(* one word, and true and false written so.                                 *)
FrontLines ==
  {Key("name", "go"), Key("description", "does"), Key("triggers", ""), Key("item", "x"),
   Key("user_invocable", "true"), Key("user_invocable", "false"), Key("name", Flow),
   Key("triggers", Flow)}

ASSUME ReadsLikeYaml ==
  \A lines \in SeqOf(FrontLines, 4) :
    LET file == [delimited |-> TRUE, lines |-> lines] IN
    Yaml(lines) # {} => parseFrontmatter(file) = Yaml(lines)

(* Two plugins of which one has skills of one name in two directories: what *)
(* the user, the project or the program itself defines stays as it is, and  *)
(* nothing but which of the two skills it is depends on the order of a map. *)
Markdown(n) == [name |-> n, matter |-> "", parses |-> TRUE, body |-> TRUE]

Interflux ==
  [name |-> "interflux", parses |-> TRUE, agents |-> <<Markdown("explore")>>,
   skills |-> {[dir |-> <<d, "skills">>, files |-> <<SkillFile("go"), SkillFile("twice")>>] :
                 d \in {"one", "two"}},
   commands |-> {[dir |-> "commands", files |-> <<Markdown("go"), Markdown("flux")>>]}]

Interpath == [Interflux EXCEPT !.name = "interpath", !.agents = <<>>]

CustomTypes == <<[name |-> <<"", "explore">>, parses |-> TRUE]>>

ASSUME PluginsOverrideNothing ==
  \A disk \in Disks :
    disk.skaffen = {AtHome, AtWork} /\ disk.git = {} =>
      LET got == Capabilities(disk, AtSub, CustomTypes, <<Interflux, Interpath>>) IN
      /\ \A c \in got :
           /\ \A n \in DOMAIN Skills(disk, AtSub) : c.skills[n] = Skills(disk, AtSub)[n]
           /\ \A n \in DOMAIN Commands(disk, AtSub) : c.commands[n] = Commands(disk, AtSub)[n]
           /\ c.agents[<<"", "explore">>].from = "project"
           /\ \A n \in DOMAIN c.skills : c.skills[n].source = "interverse-plugin" =>
                c.skills[n].from[1] \in {"one", "two"} /\ n \notin DOMAIN Skills(disk, AtSub)
      /\ \A c, d \in got : c.commands = d.commands /\ c.agents = d.agents
      /\ Cardinality(got) > 1
=============================================================================
