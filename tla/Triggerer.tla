----------------------------- MODULE Triggerer -----------------------------
(***************************************************************************)
(* The triggerer plugin (plugins/triggerer.go) on its storage: commands    *)
(* register, forget and list triggers, in a channel or anywhere, and every *)
(* other message is looked at twice, once to match triggers and once to    *)
(* react, each time by scanning the two silos one after the other while    *)
(* other workers execute commands.                                         *)
(***************************************************************************)
EXTENDS LevelStore

CONSTANTS
    Workers,      \* the goroutines that execute actions
    emojiTriggerTypeID, standardTriggerTypeID, \* what a trigger begins with
    globalSiloName,
    Channels,     \* the channels messages are heard in
    KnownNames,   \* bound: the triggers that may be registered at the start
    MaxMessages   \* bound: messages heard

ASSUME SilosAreChannels ==
    globalSiloName \notin Channels /\ Silos = Channels \cup {globalSiloName}
ASSUME NamesAssumption ==
    \A n \in Names : n # <<>> /\ Head(n) \in {emojiTriggerTypeID, standardTriggerTypeID}

VARIABLES
    work,         \* the action every worker is executing
    heard,        \* counts the messages, for the bound
    seen          \* history: what every entry has been during the work

vars == <<storeVars, work, heard, seen>>

Idle == [at |-> "idle"]
Emoji == {n \in Names : Head(n) = emojiTriggerTypeID}
Standard == {n \in Names : Head(n) = standardTriggerTypeID}

NoTriggers == [n \in Names |-> {}]

(* What a reaction is stored as: a standard one as it is, even if nothing  *)
(* is left of it but blanks, which are trimmed; an emoji one by its emojis, *)
(* and not at all without any.                                             *)
Encodings(n) ==
    IF n \in Standard THEN Entries \ {{}} ELSE Entries \ {{noString}}

Init ==
    /\ \E content \in [Keys -> Entries] :
           /\ \A k \in Keys :
                 content[k] \in IF k[2] \in KnownNames THEN Encodings(k[2]) \cup {{}} ELSE {{}}
           /\ NewLevelDB(content)
    /\ work = [w \in Workers |-> Idle]
    /\ heard = 0
    /\ seen = [w \in Workers |-> [k \in Keys |-> {}]]

Begin(w, action) ==
    /\ work[w] = Idle
    /\ heard < MaxMessages
    /\ heard' = heard + 1
    /\ work' = [work EXCEPT ![w] = action]
    /\ UNCHANGED storeVars

Goto(w, at) == work' = [work EXCEPT ![w].at = at]

-----------------------------------------------------------------------------
(* The commands *)

(* "trigger [anywhere] on <name> with <reaction>"                          *)
HearRegister(w) ==
    \E c \in Channels, s \in Silos, n \in Names : \E encoded \in Encodings(n) :
        /\ s \in {c, globalSiloName}
        /\ Begin(w, [at |-> "register", silo |-> s, name |-> n, reaction |-> encoded])

InvalidReaction(w) ==
    /\ work[w].at = "register" /\ work[w].reaction = {}
    /\ Goto(w, "error")
    /\ UNCHANGED <<storeVars, heard>>

(* MUTANT of Register: the error of the put is not looked at.              *)
RegisterRegardless(w) ==
    /\ work[w].at = "register" /\ work[w].reaction # {}
    /\ \/ Write(work[w].silo, work[w].name, work[w].reaction)
       \/ UNCHANGED storeVars
    /\ Goto(w, "registered")
    /\ UNCHANGED heard

(* registerTrigger looks up the reaction it replaces, for its answer only. *)
Register(w) ==
    /\ work[w].at = "register" /\ work[w].reaction # {}
    /\ \/ /\ Write(work[w].silo, work[w].name, work[w].reaction)
          /\ Goto(w, "registered")
       \/ /\ Goto(w, "error")
          /\ UNCHANGED storeVars
    /\ UNCHANGED heard

(* "forget trigger on <name>".  What unread has is history: the silos for  *)
(* which the database returned an error to this action.                    *)
HearForget(w) ==
    \E c \in Channels, n \in Names :
        Begin(w, [at |-> "forget", channel |-> c, name |-> n, silo |-> c, deleted |-> {},
                  unread |-> {}])

(* No trigger in the channel: deleteTrigger tries the one of all channels. *)
LookFurther(w, failed) ==
    work' = [work EXCEPT ![w].at = IF work[w].silo = globalSiloName THEN "none found" ELSE "forget",
                         ![w].silo = globalSiloName, ![w].unread = @ \cup failed]

(* deleteChannelTrigger: first its lookup, whose error is not looked at,   *)
(* and neither is whether an empty reaction is stored ...                  *)
Find(w) ==
    /\ work[w].at = "forget"
    /\ \/ /\ ~closed /\ GetSiloString(work[w].silo, work[w].name) \notin TakenForNone
          /\ Goto(w, "forgetting")
       \/ /\ ~closed /\ GetSiloString(work[w].silo, work[w].name) \in TakenForNone
          /\ LookFurther(w, {})
       \/ LookFurther(w, {work[w].silo})
    /\ UNCHANGED <<storeVars, heard>>

(* MUTANT of Forget: a deletion that failed in the channel is tried on the *)
(* trigger of all channels.                                                *)
ForgetOrFallBack(w) ==
    /\ work[w].at = "forgetting"
    /\ \/ /\ Write(work[w].silo, work[w].name, {})
          /\ work' = [work EXCEPT ![w].at = "forgotten", ![w].deleted = @ \cup {work[w].silo}]
       \/ /\ work' = [work EXCEPT ![w].at = "forget", ![w].silo = globalSiloName]
          /\ UNCHANGED storeVars
    /\ UNCHANGED heard

(* ... and then its deletion.                                              *)
Forget(w) ==
    /\ work[w].at = "forgetting"
    /\ \/ /\ Write(work[w].silo, work[w].name, {})
          /\ work' = [work EXCEPT ![w].at = "forgotten", ![w].deleted = @ \cup {work[w].silo}]
       \/ /\ Goto(w, "error")
          /\ UNCHANGED storeVars
    /\ UNCHANGED heard

-----------------------------------------------------------------------------
(* Reacting *)

(* A message includes some of the triggers.                                *)
HearMessage(w) ==
    \E c \in Channels, said \in SUBSET Names :
        Begin(w, [at |-> "match", channel |-> c, said |-> said,
                  global |-> NoTriggers, reactions |-> {}, unread |-> {}])

(* "list triggers" and "list emoji triggers" are about those of a type.    *)
HearList(w) ==
    \E c \in Channels, type \in {Standard, Emoji} :
        Begin(w, [at |-> "list", channel |-> c, said |-> type,
                  global |-> NoTriggers, reactions |-> {}, unread |-> {}])

(* MUTANT of ByName: the trigger of all channels wins.                     *)
ByNameGlobalFirst(global, channel) ==
    [n \in Names |-> IF global[n] # {} THEN global[n] ELSE channel[n]]

(* getTriggersByType: the channel's triggers override those of all.        *)
ByName(global, channel) ==
    [n \in Names |-> IF channel[n] # {} THEN channel[n] ELSE global[n]]

Scanning == [match |-> "matching", react |-> "reacting", list |-> "listing"]

ScanGlobal(w) ==
    /\ work[w].at \in DOMAIN Scanning
    /\ CanScan(globalSiloName)
    /\ work' = [work EXCEPT ![w].global = ScanSilo(globalSiloName), ![w].at = Scanning[@]]
    /\ UNCHANGED <<storeVars, heard>>

(* Nothing is matched, done or listed when one of the scans fails.         *)
FailToLoad(w) ==
    /\ work[w].at \in DOMAIN Scanning \cup Range(Scanning)
    /\ LET silo == IF work[w].at \in DOMAIN Scanning THEN globalSiloName ELSE work[w].channel
       IN  \/ ~closed /\ ScanFails(silo) /\ Goto(w, "failed to load")
           \/ work' = [work EXCEPT ![w].at = "failed to load", ![w].unread = {silo}]
    /\ UNCHANGED <<storeVars, heard>>

(* MUTANT of Matching: the message's triggers of the channel alone.        *)
MatchingInChannel(w) ==
    {n \in work[w].said : ScanSilo(work[w].channel)[n] # {}}

(* The triggers of the message, by the scans just done.                    *)
Matching(w) ==
    {n \in work[w].said : ByName(work[w].global, ScanSilo(work[w].channel))[n] # {}}

(* matchTriggers: reactOnTriggers is invoked if there are any.             *)
Match(w) ==
    /\ work[w].at = "matching" /\ CanScan(work[w].channel)
    /\ Goto(w, IF Matching(w) = {} THEN "reacted" ELSE "react")
    /\ UNCHANGED <<storeVars, heard>>

(* The reactions to some of them, by the same scans.                       *)
Reactions(w, names) ==
    {<<n, ByName(work[w].global, ScanSilo(work[w].channel))[n]>> : n \in names}

(* reactOnTriggers, after scanning anew: all emoji triggers react, and the *)
(* first standard one in the order of the map.                             *)
React(w) ==
    /\ work[w].at = "reacting" /\ CanScan(work[w].channel)
    /\ \E S \in SUBSET (Matching(w) \cap Standard) :
           /\ Cardinality(S) = IF Matching(w) \cap Standard = {} THEN 0 ELSE 1
           /\ work' = [work EXCEPT ![w].at = "reacted",
                  ![w].reactions = Reactions(w, S \cup (Matching(w) \cap Emoji))]
    /\ UNCHANGED <<storeVars, heard>>

(* listTriggers *)
List(w) ==
    /\ work[w].at = "listing" /\ CanScan(work[w].channel)
    /\ work' = [work EXCEPT ![w].at = "listed", ![w].reactions = Reactions(w, Matching(w))]
    /\ UNCHANGED <<storeVars, heard>>

-----------------------------------------------------------------------------
AnswerKinds == {"registered", "forgotten", "none found", "error",
                "reacted", "listed", "failed to load"}

Finish(w) ==
    /\ work[w].at \in AnswerKinds
    /\ work' = [work EXCEPT ![w] = Idle]
    /\ UNCHANGED <<storeVars, heard>>

(* What the entries have been since the worker heard its message.          *)
Observe ==
    seen' = [w \in Workers |->
        IF work'[w] = Idle THEN [k \in Keys |-> {}]
        ELSE [k \in Keys |-> seen[w][k] \cup {GetSiloString(k[1], k[2])'}]]

Step(w) ==
    \/ HearRegister(w) \/ InvalidReaction(w) \/ Register(w)
    \/ HearForget(w) \/ Find(w) \/ Forget(w)
    \/ HearMessage(w) \/ HearList(w) \/ ScanGlobal(w) \/ FailToLoad(w)
    \/ Match(w) \/ React(w) \/ List(w)
    \/ Finish(w)

(* When a signal ends Run, the deferred Close closes the plugin's storage, *)
(* while workers go on until the process is gone.                          *)
CloseStorage == Close /\ UNCHANGED <<work, heard, seen>>

Next ==
    \/ \E w \in Workers : Step(w) /\ Observe
    \/ CloseStorage

Spec == Init /\ [][Next]_vars

-----------------------------------------------------------------------------
(* Properties.  An entry that has not been {} during the work of a worker  *)
(* was a registered trigger all the time.                                  *)

Throughout(w, s, n) == {} \notin seen[w][<<s, n>>]

(* A reaction, done or listed, is one that was registered while the        *)
(* message was handled, and the channel's one if the channel had the       *)
(* trigger all the time: the "channel version wins" (triggerer.go:513),    *)
(* however the scans and the commands of other workers interleave.         *)
ReactsAsRegistered ==
    \A w \in Workers : work[w].at \in {"reacted", "listed"} =>
        \A r \in work[w].reactions :
            LET inChannel == seen[w][<<work[w].channel, r[1]>>]
                anywhere == seen[w][<<globalSiloName, r[1]>>]
            IN  /\ r[1] \in work[w].said /\ r[2] # {}
                /\ r[2] \in (IF {} \in inChannel THEN inChannel \cup anywhere ELSE inChannel)

(* A message that includes a trigger which stays registered, in the channel *)
(* or anywhere, is reacted on: by every such emoji trigger and by one of    *)
(* the standard ones; a list has all that stay registered.  But none is when *)
(* the database returned an error, or a trigger with the delimiter of the  *)
(* storage has been in one of the silos.                                   *)
NoTriggerMissed ==
    \A w \in Workers :
      /\ work[w].at = "failed to load" =>
            \/ work[w].unread # {}
            \/ \E s \in {work[w].channel, globalSiloName}, n \in Names :
                Contains(n, siloKeyDelimiter) /\ seen[w][<<s, n>>] # {{}}
      /\ work[w].at \in {"reacted", "listed"} =>
        LET steady == {n \in work[w].said :
                          Throughout(w, work[w].channel, n) \/ Throughout(w, globalSiloName, n)}
            reacting == {r[1] : r \in work[w].reactions}
        IN  /\ steady \cap Emoji \subseteq reacting
            /\ steady \cap Standard # {} => reacting \cap Standard # {}
            /\ work[w].at = "listed" => steady \subseteq reacting

(* A lookup of the trigger did not find it, and was wrong to only because  *)
(* the reaction was empty or the database returned an error.               *)
NotFound(w, s) ==
    \/ s \in work[w].unread
    \/ seen[w][<<s, work[w].name>>] \cap TakenForNone # {}

(* A forget command deletes one trigger at most, and that of all channels  *)
(* only if it did not find the channel's: not because deleting it failed,  *)
(* and not in place of a channel's trigger that others register or forget  *)
(* at the same time.                                                       *)
ForgetsOnlyOne ==
    \A w \in Workers : "deleted" \in DOMAIN work[w] =>
        /\ Cardinality(work[w].deleted) <= 1
        /\ globalSiloName \in work[w].deleted => NotFound(w, work[w].channel)

(* What a command's answer says was so: the reaction registered was there, *)
(* the trigger forgotten was not, and one that was said not to be found    *)
(* was not found in either silo.                                           *)
AnswersAreTrue ==
    \A w \in Workers :
        /\ work[w].at = "registered" =>
               work[w].reaction \in seen[w][<<work[w].silo, work[w].name>>]
        /\ work[w].at = "forgotten" =>
               \A s \in work[w].deleted : {} \in seen[w][<<s, work[w].name>>]
        /\ work[w].at = "none found" =>
               NotFound(w, work[w].channel) /\ NotFound(w, globalSiloName)
=============================================================================
