--------------------------- MODULE UserDirectory ---------------------------
(***************************************************************************)
(* What a plugin may expect of its UserInfoFinder (user.go): it gets a     *)
(* profile that Slack has given the bot for that very user, at its own     *)
(* request or earlier, and none only if Slack was asked for it and gave    *)
(* none.  How recent a profile is, is not promised.                        *)
(***************************************************************************)
EXTENDS Naturals

CONSTANTS
    Callers,     \* the goroutines that look up users
    Users,       \* what they take for user ids
    MaxProfiles  \* bound on the profiles a user has over time

ASSUME MaxProfilesAssumption == MaxProfiles \in Nat

(* The profiles of a user are numbered from 1 on.                          *)
NoProfile == 0
Profiles == 1..MaxProfiles

VARIABLES
    profile,   \* what Slack has for a user id: nothing, for one of no user
    told,      \* the profiles Slack has given the bot for it (history)
    lookup     \* the lookup a caller is in

directoryVars == <<profile, told, lookup>>

NoLookup == [at |-> "none"]

DirectoryTypeOK ==
    /\ profile \in [Users -> Profiles \cup {NoProfile}]
    /\ told \in [Users -> SUBSET Profiles]
    /\ lookup \in [Callers ->
         {NoLookup} \cup [at : {"asked", "loading"}, user : Users]
           \cup [at : {"loaded"}, user : Users, result : Profiles]
           \cup [at : {"answered"}, user : Users, result : Profiles \cup {NoProfile}]]

DirectoryInit ==
    /\ profile \in [Users -> {p \in Profiles : p = 1} \cup {NoProfile}]
    /\ told = [u \in Users |-> {}]
    /\ lookup = [c \in Callers |-> NoLookup]

(* A user changes the profile.                                             *)
ChangeProfile(u) ==
    /\ profile[u] \in Profiles /\ profile[u] < MaxProfiles
    /\ profile' = [profile EXCEPT ![u] = @ + 1]
    /\ UNCHANGED <<told, lookup>>

(* GetUserInfo is called ...                                               *)
Ask(c, u) ==
    /\ lookup[c] = NoLookup
    /\ lookup' = [lookup EXCEPT ![c] = [at |-> "asked", user |-> u]]
    /\ UNCHANGED <<profile, told>>

(* ... answers with what the bot was told before ...                       *)
Recall(c) ==
    /\ lookup[c].at = "asked"
    /\ \E p \in told[lookup[c].user] :
         lookup' = [lookup EXCEPT ![c] =
                      [at |-> "answered", user |-> lookup[c].user, result |-> p]]
    /\ UNCHANGED <<profile, told>>

(* ... or asks Slack ...                                                   *)
Inquire(c) ==
    /\ lookup[c].at = "asked"
    /\ lookup' = [lookup EXCEPT ![c] = [at |-> "loading", user |-> lookup[c].user]]
    /\ UNCHANGED <<profile, told>>

Tell(c) ==
    /\ lookup[c].at = "loading"
    /\ LET u == lookup[c].user IN
         /\ profile[u] # NoProfile
         /\ told' = [told EXCEPT ![u] = @ \cup {profile[u]}]
         /\ lookup' = [lookup EXCEPT ![c] =
                         [at |-> "loaded", user |-> u, result |-> profile[u]]]
    /\ UNCHANGED profile

(* ... which may have no such user, or not answer ...                      *)
Refuse(c) ==
    /\ lookup[c].at = "loading"
    /\ lookup' = [lookup EXCEPT ![c] =
                    [at |-> "answered", user |-> lookup[c].user, result |-> NoProfile]]
    /\ UNCHANGED <<profile, told>>

Relay(c) ==
    /\ lookup[c].at = "loaded"
    /\ lookup' = [lookup EXCEPT ![c] =
                    [at |-> "answered", user |-> lookup[c].user, result |-> lookup[c].result]]
    /\ UNCHANGED <<profile, told>>

(* ... and returns.                                                        *)
Return(c) ==
    /\ lookup[c].at = "answered"
    /\ lookup' = [lookup EXCEPT ![c] = NoLookup]
    /\ UNCHANGED <<profile, told>>

DirectoryNext ==
    \/ \E u \in Users : ChangeProfile(u)
    \/ \E c \in Callers :
         \/ \E u \in Users : Ask(c, u)
         \/ Recall(c) \/ Inquire(c) \/ Tell(c) \/ Refuse(c) \/ Relay(c) \/ Return(c)

DirectorySpec == DirectoryInit /\ [][DirectoryNext]_directoryVars
=============================================================================
