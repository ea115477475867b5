--------------------------- MODULE MessageRouting ---------------------------
(***************************************************************************)
(* Which plugin actions answer a message, and where their answers go:      *)
(* routeMessage over the registered plugins, and the options of an answer  *)
(* on their way to SendMessage.  Slack shows the bot its own messages too. *)
(* How the plugins come to be registered is Startup's.                     *)
(***************************************************************************)
EXTENDS Naturals, SequencesExt

CONSTANTS
    Texts,       \* what a message may say
    OldThread,   \* the timestamp of a thread from before the bot connected
    MaxEvents    \* bound: events received

(* A text is what it addresses, prefix and namespace, and what it says.    *)
(* An action matches some bodies, answers nil to some of them, and gives   *)
(* all its other answers the same options.                                 *)
ASSUME TextsAssumption ==
    \A t \in Texts : t.prefixed \in BOOLEAN /\ {"namespace", "body"} \subseteq DOMAIN t
ASSUME OldThreadAssumption == MaxEvents \in Nat /\ OldThread > MaxEvents

VARIABLES
    config,      \* the configuration and the options of the instance
    plugins,     \* the registered plugins, in order
    events,      \* the events received; an event's timestamp is its position
    routed,      \* how many of them were handled
    posts,       \* what the bot sent
    echoed       \* how many of its messages Slack has shown it

routingVars == <<events, routed, posts, echoed>>

Configs == [threadedReplies : BOOLEAN, broadcastThreadedReplies : BOOLEAN,
            namespaceCommands : BOOLEAN]

Event(author, edited, channel, thread, text) ==
    [author |-> author, edited |-> edited, channel |-> channel,
     thread |-> thread, text |-> text]

-----------------------------------------------------------------------------
(* The options of an answer, as the entries of sendOpts that they set.     *)

AnswerInThread == [threadedReply |-> TRUE]
AnswerInExistingThread(ts) == [threadedReply |-> TRUE, threadTimestamp |-> ts]
AnswerInThreadWithBroadcast == [threadedReply |-> TRUE, broadcast |-> TRUE]
AnswerInThreadWithoutBroadcast == [threadedReply |-> TRUE, broadcast |-> FALSE]
AnswerWithoutThreading == [threadedReply |-> FALSE]
AnswerEphemeral(user) == [ephemeralMsgToUserID |-> user]

(* Each option in turn, over what the ones before have set: of those which *)
(* set an entry, the last one's stays.                                     *)
ApplyAnswerOpts(options) ==
    [name \in UNION {DOMAIN options[i] : i \in DOMAIN options} |->
        options[Max({i \in DOMAIN options : name \in DOMAIN options[i]})][name]]

Opt(sendOpts, name, default) ==
    IF name \in DOMAIN sendOpts THEN sendOpts[name] ELSE default

(* sendNewMessage: the thread a response goes to, 0 for none, and whether  *)
(* the channel sees it, too.                                               *)
Destination(options, defaultThread) ==
    LET sendOpts == ApplyAnswerOpts(options)
        threaded == config.threadedReplies \/ Opt(sendOpts, "threadedReply", FALSE)
    IN  [thread |-> IF threaded THEN Opt(sendOpts, "threadTimestamp", defaultThread) ELSE 0,
         broadcast |-> /\ threaded
                       /\ \/ config.broadcastThreadedReplies
                          \/ Opt(sendOpts, "broadcast", FALSE)]

-----------------------------------------------------------------------------
(* The message as slackscot sees it.  Slack gives the user of an edit in   *)
(* the SubMessage only, and no bot id.                                     *)

OuterUser(e) == IF e.edited THEN "" ELSE e.author
OuterBotID(e) == IF e.edited \/ e.author # "us" THEN "" ELSE "us"

NormalizedUser(e) == IF e.edited THEN e.author ELSE OuterUser(e)

(* MUTANT of IsBot: the user is taken from the event as it came.           *)
IsBotByOuterUser(e) == OuterUser(e) = "us" \/ OuterBotID(e) = "us"

IsBot(e) == NormalizedUser(e) = "us" \/ OuterBotID(e) = "us"

IsDirectMessage(e) == e.channel = "direct"
IsCommand(e) == e.text.prefixed \/ IsDirectMessage(e)

(* newIncomingMsgWithNormalizedText: a direct message keeps its prefix.    *)
NormalizedText(e) ==
    IF IsDirectMessage(e) THEN e.text ELSE [e.text EXCEPT !.prefixed = FALSE]

Namespaced(plugin) == config.namespaceCommands /\ plugin.namespaceCommands

MatchedNamespace(plugin, text) ==
    Namespaced(plugin) => ~text.prefixed /\ text.namespace = plugin.name

WithoutNamespace(plugin, text) ==
    IF Namespaced(plugin) THEN [text EXCEPT !.namespace = ""] ELSE text

-----------------------------------------------------------------------------
(* Routing.  A response is the id of its action and its answer's options.  *)

ExistingThread(e) == IF e.thread = 0 THEN <<>> ELSE <<AnswerInExistingThread(e.thread)>>

(* MUTANT of ReplyOptions: the existing thread is looked at last.          *)
ReplyOptionsThreadLast(e) ==
    (IF IsCommand(e) /\ IsDirectMessage(e) THEN <<AnswerWithoutThreading>> ELSE <<>>)
        \o ExistingThread(e)

(* useExistingThreadIfAny and then the reply strategy, of which only that  *)
(* for direct messages has an option to add.                               *)
ReplyOptions(e) ==
    ExistingThread(e)
        \o (IF IsDirectMessage(e) THEN <<AnswerWithoutThreading>> ELSE <<>>)

Answers(action, text) ==
    /\ ~text.prefixed /\ text.namespace = ""
    /\ text.body \in action.matches \ action.answersNil

(* MUTANT of ActionID: two actions of a plugin have the same.              *)
ActionIDByType(plugin, type, i) == <<plugin.name, type, 0>>

ActionID(plugin, type, i) == <<plugin.name, type, i>>

(* The actions are tried in order, each gives at most one response.        *)
TryPluginActions(plugin, type, actions, text, e) ==
    FlattenSeq([i \in DOMAIN actions |->
        IF Answers(actions[i], text)
        THEN <<[id |-> ActionID(plugin, type, i),
                options |-> actions[i].options \o ReplyOptions(e)]>>
        ELSE <<>>])

TryCommands(plugin, e) ==
    LET text == NormalizedText(e)
    IN  IF MatchedNamespace(plugin, text)
        THEN TryPluginActions(plugin, "command", plugin.commands,
                              WithoutNamespace(plugin, text), e)
        ELSE <<>>

TryHearActions(plugin, e) ==
    TryPluginActions(plugin, "hearAction", plugin.hearActions, NormalizedText(e), e)

DefaultAnswer(e) == [id |-> <<"default">>, options |-> ReplyOptions(e)]

(* MUTANT of RouteCommand: the default answer only when no namespace was    *)
(* matched.                                                                *)
RouteCommandByNamespace(e) ==
    IF \E i \in DOMAIN plugins : MatchedNamespace(plugins[i], NormalizedText(e))
    THEN FlattenSeq([i \in DOMAIN plugins |-> TryCommands(plugins[i], e)])
    ELSE <<DefaultAnswer(e)>>

RouteCommand(e) ==
    LET responses == FlattenSeq([i \in DOMAIN plugins |-> TryCommands(plugins[i], e)])
    IN  IF responses = <<>> THEN <<DefaultAnswer(e)>> ELSE responses

RouteMessage(e) ==
    IF IsBot(e) THEN <<>>
    ELSE IF IsCommand(e) THEN RouteCommand(e)
    ELSE FlattenSeq([i \in DOMAIN plugins |-> TryHearActions(plugins[i], e)])

-----------------------------------------------------------------------------
RoutingInit ==
    /\ config \in Configs
    /\ events = <<>>
    /\ routed = 0
    /\ posts = <<>>
    /\ echoed = 0

(* Somebody writes or edits a message; an edit comes without its thread.   *)
UserSays ==
    /\ Len(events) < MaxEvents
    /\ \E edited \in BOOLEAN, channel \in {"direct", "public"},
          thread \in {0, OldThread}, text \in Texts :
           /\ edited => thread = 0
           /\ events' = Append(events, Event("user", edited, channel, thread, text))
    /\ UNCHANGED <<config, plugins, routed, posts, echoed>>

(* Slack shows the bot a message it has sent, or updated.                  *)
Echo ==
    /\ Len(events) < MaxEvents
    /\ echoed < Len(posts)
    /\ LET post == posts[echoed + 1] IN
         \E edited \in BOOLEAN, text \in Texts :
             events' = Append(events, Event("us", edited, events[post.event].channel,
                                            IF edited THEN 0 ELSE post.thread, text))
    /\ echoed' = echoed + 1
    /\ UNCHANGED <<config, plugins, routed, posts>>

(* The next event's answers, in the order of routeMessage.  They are sent; *)
(* of an edit, those which ResponseTracker does not find in the cache.     *)
Route ==
    /\ routed < Len(events)
    /\ LET i == routed + 1
           responses == RouteMessage(events[i])
       IN  posts' = posts \o [k \in DOMAIN responses |->
                       LET to == Destination(responses[k].options, i)
                       IN  [event |-> i, action |-> responses[k].id,
                            thread |-> to.thread, broadcast |-> to.broadcast]]
    /\ routed' = routed + 1
    /\ UNCHANGED <<config, plugins, events, echoed>>

-----------------------------------------------------------------------------
(* Properties *)

(* The bot never answers a message of its own, neither one it sent nor one *)
(* it updated, whatever the message says: it does not talk to itself.      *)
NeverAnswersItself ==
    \A k \in DOMAIN posts : events[posts[k].event].author # "us"

(* RegisterPlugin takes several plugins of one name.                       *)
SharedNames ==
    {plugins[i].name : i \in {j \in DOMAIN plugins :
        \E k \in DOMAIN plugins \ {j} : plugins[k].name = plugins[j].name}}

(* No two responses to an event have the same action id, by which the      *)
(* response cache keeps them: the second would take the first one's place  *)
(* and leave it where no edit or deletion reaches it.  Plugins that share  *)
(* their name are excepted, for an id has nothing else of its plugin.      *)
OneAnswerPerAction ==
    \A k, l \in DOMAIN posts :
        posts[k].event = posts[l].event /\ posts[k].action = posts[l].action =>
            k = l \/ posts[k].action[1] \in SharedNames

(* Every command is answered, by the default action if by no other, which  *)
(* answers alone and nothing but commands.                                 *)
CommandsAnswered ==
    \A i \in 1..routed :
        LET actions == {posts[k].action : k \in {l \in DOMAIN posts : posts[l].event = i}}
        IN  /\ events[i].author # "us" /\ IsCommand(events[i]) => actions # {}
            /\ <<"default">> \in actions => actions = {<<"default">>} /\ IsCommand(events[i])

(* An answer to a new message of a thread goes to that thread, one to a    *)
(* direct message to no thread unless all replies are configured to, any   *)
(* other to the channel or to a thread under the message; only replies in  *)
(* threads are broadcast.  Edits are excepted: their event has neither the *)
(* thread nor the timestamp of the message.                                *)
Whereabouts(i) ==
    IF IsDirectMessage(events[i]) /\ ~config.threadedReplies THEN {0}
    ELSE IF events[i].thread # 0 THEN {events[i].thread}
    ELSE IF config.threadedReplies THEN {i}
    ELSE {0, i}

RepliesInContext ==
    \A k \in DOMAIN posts :
        /\ events[posts[k].event].edited \/ posts[k].thread \in Whereabouts(posts[k].event)
        /\ posts[k].broadcast => posts[k].thread # 0
=============================================================================
