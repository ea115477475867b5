\* Two events in two lanes, a cache of one for two users who change their
\* profiles, requests that fail, and three configurations of the quoter.
CONSTANTS
    alice = alice
    bob = bob
    MaxEvents = 2
    Contents <- MCContents
    Lane <- MCLane
    Callers <- EventIds
    Users <- MCUsers
    MaxProfiles = 2
    UserInfoCacheSize = 1
    Width = 3
    LongWords <- MCLongWords
    Configurations <- MCConfigurations
    ChannelOf <- MCChannelOf
    Draws <- MCDraws
SPECIFICATION TalkSpec
CHECK_DEADLOCK FALSE
INVARIANTS EditsKeepTheDecision
PROPERTIES LookupsAreTrue EveryHandlerEnds
