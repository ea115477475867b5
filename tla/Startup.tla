------------------------------- MODULE Startup -------------------------------
(***************************************************************************)
(* A bot from its builder to its last Close: the builder's chain of calls, *)
(* Run's goroutines (the main loop that completes the plugins, and the     *)
(* scheduler that ranges over them meanwhile), the messages it answers as  *)
(* MessageRouting says, and the end.                                       *)
(***************************************************************************)
EXTENDS Integers, MessageRouting

CONSTANTS
    Chain,       \* the builder's calls in the user's main function, in order
    Settings     \* the configurations it may be given

IsSequence(s) == s \in Seq(ToSet(s))

(* A call adds a plugin, which it may instantiate only when configured; its *)
(* constructor may be one that fails, and may return something to close.   *)
ASSUME ChainAssumption ==
    /\ IsSequence(Chain)
    /\ \A i \in DOMAIN Chain :
          {Chain[i].configurable, Chain[i].mayFail, Chain[i].closer} \subseteq BOOLEAN
ASSUME ActionsAssumption ==
    \A i \in DOMAIN Chain :
        \A actions \in {Chain[i].plugin.commands, Chain[i].plugin.hearActions} :
            /\ IsSequence(actions)
            /\ \A k \in DOMAIN actions : IsSequence(actions[k].options)
ASSUME SettingsAssumption ==
    \A s \in Settings : {s.responseCacheSize, s.partitionCount} \subseteq Nat \cup {-1}

VARIABLES
    settings,    \* the configuration file
    phase,       \* where the main goroutine is
    calls,       \* how many calls of the chain were made
    err,         \* the builder's error: the call that it comes from, or None
    failed,      \* history: the calls that failed
    opened,      \* history: the calls whose closer was opened
    closers,     \* the bot's closers, by their calls
    mainLoop,    \* where runInternal is
    injected,    \* how many plugins have their services
    identity,    \* whether the bot knows its own
    help,        \* the commands that help lists
    scheduler,   \* where startActionScheduler is
    scan,        \* the plugins it ranges over
    scanned,     \* how many of them it has gone over
    jobs         \* the library's jobs, with their task or without

builderVars == <<calls, err, failed, opened, closers>>
loopVars == <<mainLoop, injected, identity, help>>
schedulerVars == <<scheduler, scan, scanned, jobs>>
vars == <<config, plugins, routingVars, settings, phase, builderVars, loopVars,
          schedulerVars>>

None == -1
NewBotFails == 0
Unset == -1

-----------------------------------------------------------------------------
(* The builder *)

IsPowerOfTwo(n) == \E k \in 0..n : n = 2^k

WithDefault(value, default) == IF value = Unset THEN default ELSE value

(* LayerConfigWithDefaults, whose default is 16 partitions.                *)
PartitionCount == WithDefault(settings.partitionCount, 16)

(* New reads the size of the cache before the defaults are layered under   *)
(* the configuration: one that is not set is zero, which the cache refuses. *)
NewFails == WithDefault(settings.responseCacheSize, 0) = 0 \/ ~IsPowerOfTwo(PartitionCount)

NewBot ==
    /\ phase = "new"
    /\ phase' = "building"
    /\ err' = IF NewFails THEN NewBotFails ELSE None
    /\ failed' = IF NewFails THEN {NewBotFails} ELSE {}
    /\ UNCHANGED <<config, plugins, routingVars, settings, calls, opened, closers,
                   loopVars, schedulerVars>>

Call == Chain[calls + 1]

NextCall ==
    /\ phase = "building" /\ calls < Len(Chain)
    /\ calls' = calls + 1
    /\ UNCHANGED <<config, routingVars, settings, phase, loopVars, schedulerVars>>

(* MUTANT of FirstError: the last one is kept.                             *)
LastError(i) == i

FirstError(i) == IF err = None THEN i ELSE err

(* What the configuration has for the plugin of the next call.             *)
Configuration ==
    IF Call.plugin.name \in DOMAIN settings.pluginConfig
    THEN settings.pluginConfig[Call.plugin.name]
    ELSE "missing"

(* loadPluginConfig of a plugin without a configuration.                   *)
MissingConfiguration ==
    /\ NextCall
    /\ Call.configurable /\ err = None /\ Configuration = "missing"
    /\ err' = calls + 1
    /\ failed' = failed \cup {calls + 1}
    /\ UNCHANGED <<plugins, opened, closers>>

(* After an error, a configurable plugin is not even instantiated.         *)
NotInstantiated ==
    /\ NextCall
    /\ Call.configurable /\ err # None
    /\ UNCHANGED <<plugins, err, failed, opened, closers>>

(* GetPluginConfig takes the tree under the plugin's name, and follows a   *)
(* nil pointer when there is a value instead.                              *)
ConfigurationPanics ==
    /\ phase = "building" /\ calls < Len(Chain)
    /\ Call.configurable /\ err = None /\ Configuration = "value"
    /\ phase' = "buildPanicked"
    /\ UNCHANGED <<config, plugins, routingVars, settings, builderVars,
                   loopVars, schedulerVars>>

Instantiated == Call.configurable => err = None /\ Configuration = "tree"

WithFailingPlugin ==
    /\ NextCall
    /\ Instantiated /\ Call.mayFail
    /\ err' = FirstError(calls + 1)
    /\ failed' = failed \cup {calls + 1}
    /\ UNCHANGED <<plugins, opened, closers>>

(* What is not configurable is instantiated as an argument of the call,    *)
(* whatever came before it.                                                *)
WithPlugin ==
    /\ NextCall
    /\ Instantiated
    /\ opened' = IF Call.closer THEN opened \cup {calls + 1} ELSE opened
    /\ IF err = None
       THEN /\ plugins' = Append(plugins, Call.plugin)
            /\ closers' = IF Call.closer THEN Append(closers, calls + 1) ELSE closers
       ELSE UNCHANGED <<plugins, closers>>
    /\ UNCHANGED <<err, failed>>

Build ==
    /\ phase = "building" /\ calls = Len(Chain)
    /\ phase' = IF err = None THEN "built" ELSE "refused"
    /\ UNCHANGED <<config, plugins, routingVars, settings, builderVars,
                   loopVars, schedulerVars>>

-----------------------------------------------------------------------------
(* Run *)

Running == phase = "running"

(* Run starts the scheduler and the main loop and waits.                   *)
Run ==
    /\ phase = "built"
    /\ IF settings.validTimeLocation
       THEN phase' = "running" /\ scheduler' = "starting" /\ mainLoop' = "starting"
       ELSE phase' = "returned" /\ UNCHANGED <<scheduler, mainLoop>>
    /\ UNCHANGED <<config, plugins, routingVars, settings, builderVars,
                   injected, identity, help, scan, scanned, jobs>>

LoopStep(from, to) ==
    /\ Running /\ mainLoop = from
    /\ mainLoop' = to
    /\ UNCHANGED <<config, routingVars, settings, phase, builderVars,
                   schedulerVars>>

(* MUTANT of HelpNamespace: the instance's option is not looked at.        *)
HelpNamespaceOfPlugin(plugin) == IF plugin.namespaceCommands THEN plugin.name ELSE ""

HelpNamespace(plugin) ==
    IF config.namespaceCommands /\ plugin.namespaceCommands THEN plugin.name ELSE ""

(* findAllActions: the commands that are not hidden.                       *)
VisibleCommands ==
    UNION {LET commands == plugins[i].commands
           IN  {[id |-> ActionID(plugins[i], "command", k), usage |-> commands[k].usage,
                 namespace |-> HelpNamespace(plugins[i])] :
                   k \in {l \in DOMAIN commands : ~commands[l].hidden /\ commands[l].usage # ""}} :
           i \in DOMAIN plugins}

HelpPlugin ==
    [name |-> "help", namespaceCommands |-> FALSE, hearActions |-> <<>>,
     scheduledActions |-> <<>>,
     commands |-> <<[matches |-> {"help"}, answersNil |-> {}, hidden |-> FALSE,
                     usage |-> "help", options |-> <<AnswerInThread>>]>>]

(* newHelpPlugin lists what is registered, which it is not itself.         *)
NewHelpPlugin ==
    /\ LoopStep("starting", "registering")
    /\ help' = VisibleCommands
    /\ UNCHANGED <<plugins, injected, identity>>

RegisterHelpPlugin ==
    /\ LoopStep("registering", "injecting")
    /\ plugins' = Append(plugins, HelpPlugin)
    /\ UNCHANGED <<injected, identity, help>>

(* injectServicesToPlugins, a plugin at a time.                            *)
InjectServices ==
    /\ Running /\ mainLoop = "injecting"
    /\ injected < Len(plugins)
    /\ injected' = injected + 1
    /\ UNCHANGED <<config, plugins, routingVars, settings, phase, builderVars,
                   mainLoop, identity, help, schedulerVars>>

StartWorkers ==
    /\ injected = Len(plugins)
    /\ LoopStep("injecting", "connecting")
    /\ UNCHANGED <<plugins, injected, identity, help>>

(* MUTANT of CacheSelfIdentity: an error is logged and the loop goes on.   *)
CacheSelfIdentityOrNot ==
    /\ LoopStep("connecting", "looping")
    /\ identity' \in BOOLEAN
    /\ UNCHANGED <<plugins, injected, help>>

(* The first connection: Slack sends messages after it only.               *)
CacheSelfIdentity ==
    /\ \/ LoopStep("connecting", "looping") /\ identity' = TRUE
       \/ LoopStep("connecting", "over") /\ UNCHANGED identity
    /\ UNCHANGED <<plugins, injected, help>>

(* Invalid credentials, or an error at a later connection.                 *)
Abort ==
    /\ \E from \in {"connecting", "looping"} : LoopStep(from, "over")
    /\ UNCHANGED <<plugins, injected, identity, help>>

(* MessageRouting, with the main loop delivering and the workers at work.  *)
Deliver ==
    /\ Running /\ mainLoop = "looping"
    /\ UserSays \/ Echo
    /\ UNCHANGED <<settings, phase, builderVars, loopVars, schedulerVars>>

Work ==
    /\ Running
    /\ Route
    /\ UNCHANGED <<settings, phase, builderVars, loopVars, schedulerVars>>

-----------------------------------------------------------------------------
(* The scheduler's goroutine *)

SchedulerStep ==
    /\ Running
    /\ UNCHANGED <<config, plugins, routingVars, settings, phase, builderVars,
                   loopVars>>

(* The range expression reads the slice of plugins once.                   *)
RangeOverPlugins ==
    /\ scheduler = "starting"
    /\ SchedulerStep
    /\ scheduler' = "scheduling"
    /\ scan' = plugins
    /\ UNCHANGED <<scanned, jobs>>

(* Without a lock: the slice may be read half written, with the new length *)
(* and the array of the old one.                                           *)
RangeTorn ==
    /\ Running /\ scheduler = "starting" /\ mainLoop = "registering"
    /\ phase' = "panicked"
    /\ UNCHANGED <<config, plugins, routingVars, settings, builderVars,
                   loopVars, schedulerVars>>

SubDay == {"hours", "minutes", "seconds"}

(* NewJob's own check, and that of the scheduler's library.                *)
NewJobFails(schedule) ==
    \/ schedule.atTime # "" /\ schedule.unit \in SubDay
    \/ schedule.atTime = "malformed"

(* The action is not run: by NewJob's or Do's error, which is only logged. *)
Refused(action) == NewJobFails(action) \/ action.doFails

Job(i, k, task) == [plugin |-> i, action |-> k, task |-> task]

(* MUTANT of Scheduled: an error ends the loop over the plugin's actions.  *)
ScheduledUntilError(i, plugin) ==
    LET actions == plugin.scheduledActions
    IN  {Job(i, k, ~Refused(actions[k])) :
            k \in {l \in DOMAIN actions : \A m \in 1..(l - 1) : ~Refused(actions[m])}}

(* NewJob registers the job with the library before anything can fail, so  *)
(* that what is refused leaves a job without a task.                       *)
Scheduled(i, plugin) ==
    {Job(i, k, ~Refused(plugin.scheduledActions[k])) : k \in DOMAIN plugin.scheduledActions}

ScheduleActions ==
    /\ scheduler = "scheduling" /\ scanned < Len(scan)
    /\ SchedulerStep
    /\ jobs' = jobs \cup Scheduled(scanned + 1, scan[scanned + 1])
    /\ scanned' = scanned + 1
    /\ UNCHANGED <<scheduler, scan>>

StartScheduler ==
    /\ scheduler = "scheduling" /\ scanned = Len(scan)
    /\ SchedulerStep
    /\ scheduler' = "started"
    /\ UNCHANGED <<scan, scanned, jobs>>

(* A scheduled action that is due before its plugin has its services.  Its *)
(* other runs do nothing to what is modelled here.                         *)
ActionWithoutServices ==
    /\ Running /\ scheduler = "started"
    /\ \E job \in jobs : job.task /\ job.plugin > injected
    /\ phase' = "panicked"
    /\ UNCHANGED <<config, plugins, routingVars, settings, builderVars,
                   loopVars, schedulerVars>>

-----------------------------------------------------------------------------
(* The end *)

(* The main loop's message or the signal watcher's ends Run, unless it has *)
(* failed at once, and main ends with its deferred Close, which calls all  *)
(* closers, whichever fail.                                                *)
RunReturns == phase = "returned" \/ (Running /\ mainLoop # "starting")

Close ==
    /\ RunReturns
    /\ phase' = "exited"
    /\ UNCHANGED <<config, plugins, routingVars, settings, builderVars, loopVars,
                   schedulerVars>>

-----------------------------------------------------------------------------
Init ==
    /\ RoutingInit
    /\ plugins = <<>>
    /\ settings \in Settings
    /\ phase = "new" /\ calls = 0
    /\ err = None /\ failed = {}
    /\ opened = {} /\ closers = <<>>
    /\ mainLoop = "off" /\ injected = 0 /\ identity = FALSE /\ help = {}
    /\ scheduler = "off" /\ scan = <<>> /\ scanned = 0 /\ jobs = {}

Next ==
    \/ NewBot \/ MissingConfiguration \/ ConfigurationPanics \/ NotInstantiated
    \/ WithFailingPlugin \/ WithPlugin
    \/ Build \/ Run
    \/ NewHelpPlugin \/ RegisterHelpPlugin \/ InjectServices \/ StartWorkers
    \/ CacheSelfIdentity \/ Abort \/ Deliver \/ Work
    \/ RangeOverPlugins \/ RangeTorn \/ ScheduleActions \/ StartScheduler
    \/ ActionWithoutServices
    \/ Close

Spec == Init /\ [][Next]_vars

-----------------------------------------------------------------------------
(* Properties *)

(* Build gives a bot only if every call succeeded, and then one with all   *)
(* plugins of the chain, in its order, and all that they opened; else the  *)
(* error of the call that failed first, whatever failed after it.          *)
FirstErrorWins ==
    /\ phase = "refused" => failed # {} /\ err = Min(failed)
    /\ phase \notin {"new", "building", "refused", "buildPanicked"} =>
          /\ failed = {}
          /\ \A i \in DOMAIN Chain : plugins[i] = Chain[i].plugin
          /\ ToSet(closers) = opened /\ IsInjective(closers)

(* No message is handled before all plugins, help included, have their     *)
(* services and the bot knows who it is: with neither it would panic, or   *)
(* take every message for a command.                                       *)
ReadyBeforeMessages ==
    routed > 0 => identity /\ injected = Len(plugins) /\ Last(plugins) = HelpPlugin

(* What help tells the user to write triggers the action it is told of,    *)
(* although help reads the namespaces at the start and routing by message. *)
HelpIsAccurate ==
    \A command \in help :
        LET written == [prefixed |-> TRUE, namespace |-> command.namespace,
                        body |-> command.usage]
            responses == RouteCommand(Event("user", FALSE, "public", 0, written))
        IN  \E k \in DOMAIN responses : responses[k].id = command.id

(* The scheduler starts with one job for each scheduled action, those      *)
(* behind a refused one as well, though the plugins are completed while it *)
(* ranges over them: with its task if the action is valid, and without one *)
(* if it was refused.                                                      *)
BadScheduleStopsNoOther ==
    scheduler = "started" =>
        LET actions(i) == Chain[i].plugin.scheduledActions
            With(i, k) == {job.task : job \in {j \in jobs : j.plugin = i /\ j.action = k}}
        IN  /\ \A i \in DOMAIN Chain : \A k \in DOMAIN actions(i) :
                  With(i, k) = {~Refused(actions(i)[k])}
            /\ \A job \in jobs : job.plugin \in DOMAIN Chain
=============================================================================
