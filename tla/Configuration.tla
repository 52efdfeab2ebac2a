---------------------------- MODULE Configuration ----------------------------
(* What the program finds on disk before it starts: the project it is in,   *)
(* the files and directories that configure it, and from them the slash     *)
(* commands, the skills and the types of subagents it offers.               *)
(*                                                                          *)
(* A directory is the sequence of the names on its path.  A disk is a       *)
(* record: home, the directories with a .skaffen and with a .git, the       *)
(* plugins of each .skaffen that have skills ("plugins"), and "holds", what *)
(* is where: from a place, a directory and what its .skaffen has, to the    *)
(* files found there, sorted by name.                                       *)
EXTENDS Naturals, FiniteSets, FiniteSetsExt, SequencesExt, TLC

(* The directory and all above it.                                          *)
Upwards(dir) == {SubSeq(dir, 1, n) : n \in 0 .. Len(dir)}

(* The deepest and the highest of directories on one path: at most one.     *)
Deepest(dirs) == {d \in dirs : \A e \in dirs : Len(e) <= Len(d)}

Highest(dirs) == {d \in dirs : \A e \in dirs : Len(d) <= Len(e)}

gitRoot(disk, dir) == Deepest(Upwards(dir) \cap disk.git)

(* walkUpForDir looks into home as well, which has a .skaffen as a rule.    *)
walkUpForDir(disk, dir) ==
  Deepest({d \in Upwards(dir) \cap disk.skaffen :
             IsPrefix(disk.home, dir) => IsPrefix(disk.home, d)})

findProjectRoot(disk, dir) ==
  LET git == gitRoot(disk, dir) IN
  IF git # {} /\ git \subseteq disk.skaffen THEN git ELSE walkUpForDir(disk, dir)

(* Where the claude process runs: the outermost repository around dir.      *)
resolveProjectRoot(disk, dir) == Highest(Upwards(dir) \cap disk.git)

(* The user's directory and the project's, which may be the same.           *)
Homes(disk, dir) == <<disk.home>> \o SetToSeq(findProjectRoot(disk, dir))

There(disk, places) == SelectSeq(places, LAMBDA p : p \in DOMAIN disk.holds)

(* Config: the user's file and then the project's, those that exist.        *)
Paths(disk, dir, what) ==
  LET homes == Homes(disk, dir) IN
  There(disk, [i \in DOMAIN homes |-> <<homes[i], what>>])

RoutingPaths(disk, dir) == Paths(disk, dir, "routing.json")

KeybindingsPaths(disk, dir) == Paths(disk, dir, "keybindings.json")

CommandDirs(disk, dir) == Paths(disk, dir, "commands")

(* Each home's skills and those of its plugins.                             *)
SkillDirs(disk, dir) ==
  LET homes == Homes(disk, dir)
      of(d) == <<<<d, "skills">>>> \o [i \in DOMAIN disk.plugins[d] |-> <<d, disk.plugins[d][i]>>]
  IN There(disk, FlattenSeq([i \in DOMAIN homes |-> of(homes[i])]))
-----------------------------------------------------------------------------
(* SKILL.md: the lines between the delimiters, each a key with a value or   *)
(* an item of a list.  A value in brackets or braces is Flow.               *)
Flow == "[...]"

Blank == [name |-> "", description |-> "", invocable |-> "", triggers |-> 0,
          listing |-> FALSE, complex |-> FALSE]

(* parseFrontmatter reads line by line and gives up at a complex value; the *)
(* last of several lines with one key counts.                               *)
ReadLine(fm, line) ==
  LET top == [fm EXCEPT !.listing = (line.key = "triggers")] IN
  CASE fm.complex -> fm
    [] ~fm.complex /\ line.key = "item" ->
         IF fm.listing THEN [fm EXCEPT !.triggers = @ + 1] ELSE fm
    [] ~fm.complex /\ line.key # "item" /\ line.value = Flow -> [fm EXCEPT !.complex = TRUE]
    [] ~fm.complex /\ line.key \in {"name", "description"} /\ line.value # Flow ->
         [top EXCEPT ![line.key] = line.value]
    [] ~fm.complex /\ line.key = "user_invocable" /\ line.value # Flow ->
         IF line.value \in {"true", "false"} THEN [top EXCEPT !.invocable = line.value] ELSE top
    [] OTHER -> top

Skill(fm) ==
  [name |-> fm.name, description |-> fm.description, invocable |-> fm.invocable,
   triggers |-> fm.triggers]

(* yaml.Unmarshal, as far as parseFrontmatter needs it: a key twice is an   *)
(* error, and so are a value of the wrong type and an item that belongs to  *)
(* nothing.                                                                 *)
Yaml(lines) ==
  LET at(key) == {i \in DOMAIN lines : lines[i].key = key}
      value(key) == IF at(key) = {} THEN "" ELSE lines[Max(at(key))].value
      boolean == CASE value("user_invocable") \in {"true", "True"} -> "true"
                   [] value("user_invocable") \in {"false", "False"} -> "false"
                   [] OTHER -> ""
      wrong == \/ \E i, j \in DOMAIN lines :
                    i # j /\ lines[i].key = lines[j].key /\ lines[i].key # "item"
               \/ \E k \in {"name", "description"} : value(k) = Flow
               \/ value("user_invocable") \notin {"", "true", "True", "false", "False"}
               \/ value("triggers") \notin {"", Flow}
               \/ \E i \in at("item") :
                    \/ i = 1
                    \/ lines[i - 1].key \notin {"item", "triggers"}
                    \/ lines[i - 1].value = Flow
  IN IF wrong THEN {}
     ELSE {[name |-> value("name"), description |-> value("description"), invocable |-> boolean,
            triggers |-> IF value("triggers") = Flow THEN 1 ELSE Cardinality(at("item"))]}

(* At most one skill: none without delimiters or with an error.             *)
parseFrontmatter(file) ==
  LET fm == FoldLeft(ReadLine, Blank, file.lines) IN
  CASE ~file.delimited -> {}
    [] file.delimited /\ fm.complex -> Yaml(file.lines)
    [] OTHER -> {Skill(fm)}

(* skill.LoadDir: what has no name or no description is left out; what does *)
(* not say otherwise may be invoked by the user.                            *)
LoadSkills(disk, place, source) ==
  LET files == disk.holds[place]
      defs(file) == {[name |-> s.name, invocable |-> s.invocable # "false", source |-> source,
                      from |-> place] :
                       s \in {s \in parseFrontmatter(file) : s.name # "" /\ s.description # ""}}
  IN FlattenSeq([i \in DOMAIN files |-> SetToSeq(defs(files[i]))])

(* A command's TOML file: a template unless it says script, and not without *)
(* the text of its type.                                                    *)
parseFile(file) ==
  /\ file.parses
  /\ file.type \in {"", "template", "script"}
  /\ IF file.type = "script" THEN file.script ELSE file.template

LoadCommands(disk, place, source) ==
  LET files == SelectSeq(disk.holds[place], parseFile) IN
  [i \in DOMAIN files |-> [name |-> files[i].name, source |-> source, from |-> place]]

Named(defs) == {defs[i].name : i \in DOMAIN defs}

FirstOf(defs) == [n \in Named(defs) |-> defs[Min({i \in DOMAIN defs : defs[i].name = n})]]

LastOf(defs) == [n \in Named(defs) |-> defs[Max({i \in DOMAIN defs : defs[i].name = n})]]

(* A directory's label goes by its place in the list, which only has        *)
(* directories that exist.                                                  *)
Label(labels, i) == IF i \in DOMAIN labels THEN labels[i] ELSE "user"

SkillLabels == <<"user", "user-plugin", "project", "project-plugin">>

CommandLabels == <<"user", "project">>

(* skill.LoadAll and command.LoadAll, of what each directory defines: later *)
(* directories override earlier ones.                                       *)
LoadAll(loaded) == LastOf(FlattenSeq(loaded))

Skills(disk, dir) ==
  LET dirs == SkillDirs(disk, dir) IN
  LoadAll([i \in DOMAIN dirs |-> LoadSkills(disk, dirs[i], Label(SkillLabels, i))])

Commands(disk, dir) ==
  LET dirs == CommandDirs(disk, dir) IN
  LoadAll([i \in DOMAIN dirs |-> LoadCommands(disk, dirs[i], Label(CommandLabels, i))])
-----------------------------------------------------------------------------
(* The Markdown files of an Interverse plugin: a command needs a text, for  *)
(* which a file without front matter counts as a whole; an agent does not.  *)
(* The name of the front matter counts before the file's.                   *)
MarkdownName(file) == IF file.matter = "" THEN file.name ELSE file.matter

parseMarkdownFile(file) == file.parses /\ file.body

LoadMarkdownDir(place) ==
  LET files == SelectSeq(place.files, parseMarkdownFile) IN
  [i \in DOMAIN files |->
     [name |-> MarkdownName(files[i]), source |-> "interverse-plugin", from |-> place.dir]]

(* An agent's name has the plugin's in front: names of types are pairs, of  *)
(* a plugin or "" and a name.                                               *)
LoadMarkdownAgents(plugin, files) ==
  LET read == SelectSeq(files, LAMBDA f : f.parses) IN
  [i \in DOMAIN read |-> [name |-> <<plugin, MarkdownName(read[i])>>, from |-> plugin]]

(* The directories of a plugin, one after another.                          *)
PluginSkills(places) ==
  LET of(p) == LoadSkills([holds |-> p.dir :> p.files], p.dir, "interverse-plugin") IN
  FlattenSeq([i \in DOMAIN places |-> of(places[i])])

PluginCommands(places) == FlattenSeq([i \in DOMAIN places |-> LoadMarkdownDir(places[i])])

(* plugin.Discover: the parents of the skills and commands a manifest names *)
(* are the keys of a map and come in any order, the first command of a name *)
(* is kept.                                                                 *)
Discover(plugin) ==
  {[skills |-> PluginSkills(s), commands |-> FirstOf(PluginCommands(c)),
    agents |-> LoadMarkdownAgents(plugin.name, plugin.agents)] :
     s \in SetToSeqs(plugin.skills), c \in SetToSeqs(plugin.commands)}

(* TypeRegistry: the files of the project replace the built-in types, and   *)
(* Register keeps what is there.                                            *)
loadFromDir(files) ==
  LET custom == SelectSeq(files, LAMBDA f : f.parses /\ f.name # <<"", "">>) IN
  LastOf([i \in DOMAIN custom |-> [name |-> custom[i].name, from |-> "project"]])

NewTypeRegistry(files) ==
  loadFromDir(files)
    @@ [n \in {""} \X {"explore", "general"} |-> [name |-> n, from |-> "built-in"]]

Register(types, agents) == types @@ FirstOf(agents)

(* plugin.Inject: what exists wins.                                         *)
Inject(caps, found) ==
  [skills |-> caps.skills @@ FirstOf(found.skills),
   commands |-> caps.commands @@ found.commands,
   agents |-> Register(caps.agents, found.agents)]

(* runTUI: the plugins of interverse/, one after another in the order of    *)
(* their names; those whose manifest does not parse are left out.           *)
Capabilities(disk, dir, types, interverse) ==
  LET inject(sofar, plugin) ==
        IF ~plugin.parses THEN sofar
        ELSE {Inject(caps, found) : caps \in sofar, found \in Discover(plugin)}
  IN FoldLeft(inject,
       {[skills |-> Skills(disk, dir), commands |-> Commands(disk, dir),
         agents |-> NewTypeRegistry(types)]},
       interverse)
=============================================================================
