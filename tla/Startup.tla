------------------------------- MODULE Startup -------------------------------
(* From the command line and the configuration files to a tool registry:    *)
(* initConfig, the stdio plugins and remote servers, the hooks, and which   *)
(* tools the registry offers in which phase.                                *)
(*                                                                          *)
(* A server offers one tool, named for it.  A file that does not exist is   *)
(* one without entries.  Entries carry "from", the file they come from,     *)
(* which the code does not keep.                                            *)
EXTENDS Naturals, Sequences, FiniteSets

CONSTANTS
  Server,      (* names of stdio plugins and remote servers                  *)
  NameOrder,   (* the same names, sorted                                     *)
  Invocations  (* what the program may be started with: flags and files      *)

PhaseOrder == <<"observe", "orient", "decide", "act", "reflect", "compound">>

Phase == {PhaseOrder[i] : i \in 1 .. 6}

(* The strings a file or a flag may give for a phase.                       *)
PhaseName == Phase \cup {"build"}

ReadOnly == {"read", "glob", "grep", "ls"}

Builtin == ReadOnly \cup {"write", "edit", "bash"}

OwnTool == Builtin \cup {"web_search", "web_fetch", "quality_history", "Agent"}

Tool == OwnTool \cup Server

(* A server's tool has the server's name in front, so it is none of ours;   *)
(* "from" says where an entry is.                                           *)
ASSUME StartupAssumption ==
  /\ Server \cap OwnTool = {}
  /\ \A i \in Invocations :
       /\ \A n \in DOMAIN i.files.flag.remotes : i.files.flag.remotes[n].from = "flag"
       /\ \A n \in DOMAIN i.files.user.remotes : i.files.user.remotes[n].from = "user"

Source == {"flag", "user", "project", "interverse"}

(* A plugin, or a [remote] table: the phases it names, and whether it       *)
(* resolves to a server or passes validateRemote.                           *)
Entry == [phases : SUBSET PhaseName, valid : BOOLEAN, from : Source]

(* A hook: the tools its matcher takes, and whether its errors deny.        *)
Hook == [on : SUBSET Tool, closed : BOOLEAN]

NoEntries == [n \in {} |-> [phases |-> {}, valid |-> FALSE, from |-> "user"]]

NoFile == [parses |-> TRUE, plugins |-> NoEntries, remotes |-> NoEntries]

NoHooks == [exists |-> FALSE, parses |-> TRUE, hooks |-> <<>>]

(* What is left of the files when they have been read.                      *)
NoFiles ==
  [explicit |-> FALSE, flag |-> NoFile, user |-> NoFile, project |-> NoFile,
   interverse |-> NoEntries, userHooks |-> NoHooks, projectHooks |-> NoHooks]

NoFlags == [mode |-> "tui", phase |-> "act", plan |-> FALSE, iterate |-> 0, test |-> FALSE]

VARIABLES
  stage,      (* "config", "load", "connect", "wire", "ready", "exit", "gone" *)
  flags,      (* flagMode, flagPhase, flagPlanMode, flagIterate, flagTestCmd *)
  files,      (* the configuration files                                     *)
  plugins,    (* the stdio plugins initConfig returns                        *)
  remotes,    (* the remote servers it returns                               *)
  hooks,      (* the executor's hooks, in order                              *)
  waiting,    (* servers not tried yet                                       *)
  servers,    (* stdio servers that run                                      *)
  connected,  (* remote servers connected                                    *)
  tools,      (* Registry.tools                                              *)
  gates       (* Registry.gates: the pairs of a phase and a tool it has      *)

config == <<flags, files, plugins, remotes, hooks>>
registry == <<tools, gates>>
started == <<stage, config, waiting, servers, connected, registry>>
-----------------------------------------------------------------------------
(* resolvePlugin: without phases a plugin gets the phase "build".           *)
Resolved(e) == IF e.phases = {} THEN [e EXCEPT !.phases = {"build"}] ELSE e

Valid(entries) == {n \in DOMAIN entries : entries[n].valid}

(* LoadConfig; what does not parse is reported and left out.                *)
LoadConfig(file) ==
  [n \in (IF file.parses THEN Valid(file.plugins) ELSE {}) |-> Resolved(file.plugins[n])]

(* LoadRemoteConfig; validateRemote wants phases the registry knows.        *)
LoadRemoteConfig(file) ==
  [n \in {m \in Valid(file.remotes) :
            file.parses /\ file.remotes[m].phases # {} /\ file.remotes[m].phases \subseteq Phase}
     |-> file.remotes[n]]

(* MergePluginConfigs: the second wins.                                     *)
MergePluginConfigs(base, project) ==
  [n \in DOMAIN base \cup DOMAIN project |->
     IF n \in DOMAIN project THEN project[n] ELSE base[n]]

(* DiscoverPlugins: every plugin with a server, for act.                    *)
Discovered(f) ==
  [n \in Valid(f.interverse) |->
     [f.interverse[n] EXCEPT !.phases = {"act", "build"}]]

(* The plugins of initConfig: explicit files win over discovered plugins,   *)
(* the project's over the user's, and --plugins replaces both.              *)
StdioPlugins(f) ==
  MergePluginConfigs(Discovered(f),
    IF f.explicit THEN LoadConfig(f.flag)
                  ELSE MergePluginConfigs(LoadConfig(f.user), LoadConfig(f.project)))

ProjectWins(f) ==
  IF f.explicit THEN f.flag ELSE IF f.project = NoFile THEN f.user ELSE f.project

(* The one file remote servers are read from.                               *)
TrustedFile(f) == IF f.explicit THEN f.flag ELSE f.user

(* DropCollidingRemotes: a stdio plugin never shadows a remote.             *)
DropCollidingRemotes(found, stdio) ==
  [n \in DOMAIN found \ DOMAIN stdio |-> found[n]]

(* hooks.MergeConfig: the groups of the first, then those of the second.    *)
MergeConfig(global, project) == global \o project

(* loadHooks: the first file that exists is the base.  If it does not parse *)
(* there are no hooks at all; a second that does not parse is left out.     *)
LoadHooks(f) ==
  LET present == SelectSeq(<<f.userHooks, f.projectHooks>>, LAMBDA h : h.exists) IN
  IF present = <<>> \/ ~present[1].parses THEN <<>>
  ELSE IF Len(present) = 2 /\ present[2].parses
         THEN MergeConfig(present[1].hooks, present[2].hooks)
         ELSE present[1].hooks
-----------------------------------------------------------------------------
(* defaultGates and RegisterBuiltins.                                       *)
DefaultGates ==
  ({"observe", "orient", "decide"} \X ReadOnly)
    \cup ({"act"} \X Builtin)
    \cup ({"reflect"} \X (ReadOnly \cup {"bash", "edit"}))
    \cup ({"compound"} \X {"read", "glob", "ls", "bash", "edit", "write"})
    \cup ({"orient", "decide", "act"} \X {"web_search", "web_fetch"})

(* RegisterForPhases.                                                       *)
RegisterForPhases(t, phases) ==
  /\ tools' = tools \cup {t}
  /\ gates' = gates \cup (phases \X {t})

(* Registry.Tools, the tools of a phase, which plan mode cuts down.         *)
Tools(phase, plan) ==
  {t \in tools : <<phase, t>> \in gates /\ (plan => t \in ReadOnly)}
-----------------------------------------------------------------------------
StartupInit ==
  /\ stage = "config"
  /\ \E i \in Invocations : flags = i.flags /\ files = i.files
  /\ plugins = NoEntries /\ remotes = NoEntries /\ hooks = <<>>
  /\ waiting = {} /\ servers = {} /\ connected = {}
  /\ tools = {} /\ gates = {}

(* runPrint knows the phases it takes; runTUI takes any.                    *)
PhaseAccepted == flags.mode = "print" => flags.phase \in Phase \ {"observe"}

BadPhase ==
  /\ stage = "config" /\ ~PhaseAccepted
  /\ stage' = "gone"
  /\ UNCHANGED <<config, waiting, servers, connected, registry>>

(* RegisterBuiltins and initConfig, then loadHooks of the same files.       *)
InitConfig ==
  /\ stage = "config" /\ PhaseAccepted
  /\ plugins' = StdioPlugins(files)
  /\ remotes' = DropCollidingRemotes(LoadRemoteConfig(TrustedFile(files)), StdioPlugins(files))
  /\ hooks' = LoadHooks(files)
  /\ files' = NoFiles
  /\ tools' = Builtin \cup {"web_search", "web_fetch"} /\ gates' = DefaultGates
  /\ stage' = "load" /\ waiting' = DOMAIN plugins'
  /\ UNCHANGED <<flags, servers, connected>>

(* LoadAll takes the answers of servers started side by side as they come.  *)
PluginAnswers(p) ==
  /\ stage = "load" /\ p \in waiting
  /\ waiting' = waiting \ {p}
  /\ \/ servers' = servers \cup {p} /\ RegisterForPhases(p, plugins[p].phases)
     \/ UNCHANGED <<servers, registry>>
  /\ UNCHANGED <<stage, config, connected>>

(* startMCPForTUI connects remotes; startMCPForPrint passes none on.        *)
ConnectsRemotes == flags.mode = "tui" /\ DOMAIN remotes # {}

PluginsLoaded ==
  /\ stage = "load" /\ waiting = {}
  /\ \/ ConnectsRemotes /\ stage' = "connect" /\ waiting' = DOMAIN remotes
     \/ ~ConnectsRemotes /\ stage' = "wire" /\ UNCHANGED waiting
  /\ UNCHANGED <<config, servers, connected, registry>>

IsNext(n) ==
  n \in waiting /\ \A i, j \in DOMAIN NameOrder :
    NameOrder[j] = n /\ NameOrder[i] \in waiting => j <= i

(* connectRemotes, in name order: consent, discovery, tool listing.         *)
RemoteAnswers(n) ==
  /\ stage = "connect" /\ IsNext(n)
  /\ waiting' = waiting \ {n}
  /\ \/ connected' = connected \cup {n} /\ RegisterForPhases(n, remotes[n].phases)
     \/ UNCHANGED <<connected, registry>>
  /\ UNCHANGED <<stage, config, servers>>

(* Every remote was tried, or Ctrl-C skipped the rest.                      *)
RemotesDone ==
  /\ stage = "connect" /\ waiting' = {} /\ stage' = "wire"
  /\ UNCHANGED <<config, servers, connected, registry>>

(* What runTUI and runPrint register last.                                  *)
LastGates ==
  {<<"orient", "quality_history">>} \cup {g \in {<<"act", "Agent">>} : flags.mode = "tui"}

(* runPrint returns an error for --iterate without --test-cmd.              *)
FlagsAgree == flags.mode = "print" /\ flags.iterate > 0 => flags.test

StartupType ==
  /\ stage \in {"config", "load", "connect", "wire", "ready", "exit", "gone"}
  /\ flags \in [mode : {"tui", "print"}, phase : PhaseName, plan : BOOLEAN,
                iterate : Nat, test : BOOLEAN]
  /\ files \in {NoFiles} \cup {i.files : i \in Invocations}
  /\ DOMAIN plugins \subseteq Server /\ \A n \in DOMAIN plugins : plugins[n] \in Entry
  /\ DOMAIN remotes \subseteq Server /\ \A n \in DOMAIN remotes : remotes[n] \in Entry
  /\ hooks \in Seq(Hook)
  /\ waiting \subseteq Server /\ servers \subseteq Server /\ connected \subseteq Server
  /\ tools \subseteq Tool /\ gates \subseteq PhaseName \X Tool
=============================================================================
