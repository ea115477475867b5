---------------------------- MODULE Conversation ---------------------------
(***************************************************************************)
(* Workers that answer from the services their plugins share.  The help    *)
(* command looks up its author in the UserInfoCache, a message heard by    *)
(* karma every user it gives or takes points, while other workers look up  *)
(* theirs; what is no command is also heard by the FingerQuoter.  Events   *)
(* are handled in the order OrderedProcessing has.                         *)
(***************************************************************************)
EXTENDS OrderedProcessing, UserInfoCache, FingerQuoter

CONSTANTS
    Configurations,  \* of the finger quoter: frequency, channels, ignored
    ChannelOf,       \* the channel of a message
    Draws            \* the numbers drawn for the seed a timestamp makes

(* A content is whether it is the help command, the users to be looked up  *)
(* for its answer, in that order, and its text.                            *)
ASSUME SaidAssumption ==
    \A c \in Contents : c.help \in BOOLEAN /\ c.users \in Seq(Users)
ASSUME CallersAssumption == Callers = EventIds

(* The candidates of a text are fewer than an int32 counts, and of those   *)
(* numbers that a generator draws without end, some is accepted.           *)
ASSUME CandidatesAssumption ==
    \A c \in Contents :
        Candidates(c.text) \in Seq(LongWords) /\ Len(Candidates(c.text)) < 2^Width
ASSUME DrawsAssumption ==
    \A m \in MessageIds :
        /\ Draws[m] \in Seq(Nat)
        /\ \A n \in 1..(2^Width - 1) : Accepted(Draws[m], n) # {}

VARIABLES
    config,    \* the finger quoter's configuration
    asks,      \* the users a handler has still to look up
    quote,     \* the word its answer quotes, if any
    at,        \* where it is
    panicked   \* the process is gone

answerVars == <<asks, quote, at>>
serviceVars == <<profile, told, lookup, userProfileCache>>
talkVars == <<received, active, done, serviceVars, config, answerVars, panicked>>

TalkInit ==
    /\ OrderInit
    /\ CacheInit
    /\ config \in Configurations
    /\ asks = [i \in EventIds |-> <<>>]
    /\ quote = [i \in EventIds |-> <<>>]
    /\ at = [i \in EventIds |-> "waiting"]
    /\ panicked = FALSE

(* MUTANT of Timestamp: an edit keeps its event's timestamp.               *)
TimestampOfEvent(i) == i

(* normalizeIncomingMessage gives an edit the timestamp of its message.    *)
Timestamp(i) == IF received[i].kind = "changed" THEN received[i].about ELSE i

IsHandled(i) == received[i].kind \in {"new", "changed"} /\ ~received[i].tooOld
IsCommand(i) == received[i].content.help
Text(i) == received[i].content.text

HearEvent(e) ==
    /\ Receive(e)
    /\ UNCHANGED <<serviceVars, config, answerVars, panicked>>

StartAnswer(i) ==
    /\ Begin(i)
    /\ at' = [at EXCEPT ![i] = IF IsHandled(i) THEN "answering" ELSE "finished"]
    /\ asks' = [asks EXCEPT ![i] = IF IsHandled(i) THEN received[i].content.users ELSE <<>>]
    /\ UNCHANGED <<serviceVars, config, quote, panicked>>

(* showHelp looks up the author, recordKarma each thing that is a user.    *)
LookUp(i) ==
    /\ at[i] = "answering" /\ asks[i] # <<>>
    /\ Ask(i, Head(asks[i]))
    /\ UNCHANGED <<userProfileCache, received, active, done, config, answerVars, panicked>>

(* MUTANT of UseProfile: a profile is asked for until there is one.        *)
UseProfileOrAskAgain(i) ==
    /\ at[i] = "answering"
    /\ Return(i)
    /\ asks' = [asks EXCEPT ![i] = IF lookup[i].result = NoProfile THEN @ ELSE Tail(@)]
    /\ UNCHANGED <<userProfileCache, received, active, done, config, quote, at, panicked>>

(* Without a profile help greets nobody, and karma has the id as it is.    *)
UseProfile(i) ==
    /\ at[i] = "answering"
    /\ Return(i)
    /\ asks' = [asks EXCEPT ![i] = Tail(@)]
    /\ UNCHANGED <<userProfileCache, received, active, done, config, quote, at, panicked>>

ShowHelp(i) ==
    /\ at[i] = "answering" /\ asks[i] = <<>> /\ IsCommand(i)
    /\ at' = [at EXCEPT ![i] = "finished"]
    /\ UNCHANGED <<serviceVars, received, active, done, config, asks, quote, panicked>>

Hears(i) == at[i] = "answering" /\ asks[i] = <<>> /\ ~IsCommand(i)
Listens(i) == ChannelEnabled(ChannelOf[received[i].about], config.channels, config.ignored)

(* The quoter, after karma, hears what is no command, and may answer in a  *)
(* channel it listens to.                                                  *)
HearText(i) ==
    /\ Hears(i)
    /\ Listens(i) => Drawable(config.frequency)
    /\ at' = [at EXCEPT ![i] = "finished"]
    /\ quote' = [quote EXCEPT ![i] =
         IF Listens(i) /\ Triggers(Draws[Timestamp(i)], config.frequency)
         THEN Quote(Draws[Timestamp(i)], Text(i)) ELSE <<>>]
    /\ UNCHANGED <<serviceVars, received, active, done, config, asks, panicked>>

(* A frequency that is no positive int32 passes the plugin's constructor,  *)
(* and ends the process at the first message.                              *)
Panic(i) ==
    /\ Hears(i) /\ Listens(i) /\ ~Drawable(config.frequency)
    /\ panicked' = TRUE
    /\ UNCHANGED <<serviceVars, received, active, done, config, answerVars>>

EndAnswer(i) ==
    /\ at[i] = "finished"
    /\ Finish(i)
    /\ UNCHANGED <<serviceVars, config, answerVars, panicked>>

AnswerStep(i) ==
    \/ StartAnswer(i) \/ LookUp(i) \/ UseProfile(i) \/ ShowHelp(i)
    \/ HearText(i) \/ Panic(i) \/ EndAnswer(i)
    \/ /\ GetUserInfo(i)
       /\ UNCHANGED <<received, active, done, config, answerVars, panicked>>

UserChanges(u) ==
    /\ ChangeProfile(u)
    /\ UNCHANGED <<userProfileCache, received, active, done, config, answerVars, panicked>>

TalkNext ==
    /\ ~panicked
    /\ \/ \E e \in Events : HearEvent(e)
       \/ \E i \in EventIds : AnswerStep(i)
       \/ \E u \in Users : UserChanges(u)

(* Workers go on; Slack answers or refuses; nobody has to say anything.    *)
TalkSpec ==
    /\ TalkInit /\ [][TalkNext]_talkVars
    /\ \A i \in EventIds : WF_talkVars(~panicked /\ AnswerStep(i))

-----------------------------------------------------------------------------
(* Properties *)

(* GetUserInfo: whatever lookups overlap, fail or evict each other's       *)
(* entries, each answers with a profile Slack has given for that user, and *)
(* with none only if Slack, asked by this very lookup, gave none.          *)
LookupsAreTrue == DirectorySpec

(* "We preserve the same matches when messages get updated"                *)
(* (fingerquoter.go:76): of the versions of a message that have a          *)
(* candidate, all are quoted or none; those with the same number of        *)
(* candidates have the one at the same place quoted.                       *)
EditsKeepTheDecision ==
    \A i, j \in done :
        LET heard == {k \in {i, j} : IsHandled(k) /\ ~IsCommand(k)}
            ci == Candidates(Text(i))
            cj == Candidates(Text(j))
        IN  heard = {i, j} /\ received[i].about = received[j].about /\ ci # <<>> /\ cj # <<>>
              => /\ quote[i] = <<>> <=> quote[j] = <<>>
                 /\ Len(ci) = Len(cj) /\ quote[i] # <<>> =>
                      \E k \in 1..Len(ci) : quote[i] = <<ci[k]>> /\ quote[j] = <<cj[k]>>

(* Every event is answered in the end, whatever lookups fail and whoever   *)
(* looks up the same users, unless the process dies.                       *)
EveryHandlerEnds ==
    \A i \in EventIds : i \in active ~> (i \in done \/ panicked)
=============================================================================
