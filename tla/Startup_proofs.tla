--------------------------- MODULE Startup_proofs ---------------------------
(***************************************************************************)
(* The life of a bot, for any chain of plugins, any configurations and any *)
(* number of events: what its builder returns, when it is ready, what its  *)
(* scheduler starts with, which messages it answers, and where.            *)
(***************************************************************************)
EXTENDS Startup, SequenceTheorems, WellFoundedInduction, TLAPS

-----------------------------------------------------------------------------
(* Induction over the naturals, for sets of them: tlapm does not apply the *)
(* library's theorems about predicates.                                    *)

LEMMA Least ==
    ASSUME NEW T \in SUBSET Nat, T # {}
    PROVE  \E x \in T : \A y \in T : x <= y
<1>. DEFINE R == {p \in Nat \X Nat : p[1] < p[2]}
<1>1. R = OpToRel(<, Nat)
  BY Zenon DEF OpToRel
<1>2. IsWellFoundedOn(R, Nat)
  BY <1>1, NatLessThanWellFounded
<1>3. PICK x \in T : \A y \in T : ~(<<y, x>> \in R)
  <2>. HIDE DEF R
  <2>. QED
    BY <1>2, WFMin
<1>4. \A y \in T : ~(y < x)
  BY <1>3
<1>. QED
  BY <1>4

LEMMA Induction ==
    ASSUME NEW T \in SUBSET Nat, 0 \in T, \A n \in T : n + 1 \in T
    PROVE  T = Nat
<1>. DEFINE U == Nat \ T
<1>1. SUFFICES ASSUME U # {} PROVE FALSE
  OBVIOUS
<1>2. PICK n \in U : \A m \in U : n <= m
  BY <1>1, Least
<1>3. n \in Nat /\ n # 0 /\ n - 1 \in Nat /\ n - 1 \notin U
  BY <1>2
<1>. QED
  BY <1>2, <1>3

-----------------------------------------------------------------------------
(* FlattenSeq *)

(* The i-th prefix of the result is the one before it and the i-th sequence. *)
FlatStep(f, seqs, i) == f[i] = IF i = 1 THEN seqs[i] ELSE f[i-1] \o seqs[i]

(* What FlattenSeq chooses.                                                *)
Flat(f, seqs) ==
    f = [i \in 1..Len(seqs) |-> IF i = 1 THEN seqs[i] ELSE f[i-1] \o seqs[i]]

LEMMA FlatSteps ==
    ASSUME NEW f, NEW seqs, Flat(f, seqs), NEW i \in 1..Len(seqs)
    PROVE  FlatStep(f, seqs, i)
<1>. DEFINE g == [j \in 1..Len(seqs) |-> IF j = 1 THEN seqs[j] ELSE f[j-1] \o seqs[j]]
<1>1. g[i] = IF i = 1 THEN seqs[i] ELSE f[i-1] \o seqs[i]
  OBVIOUS
<1>2. f = g
  BY DEF Flat
<1>. HIDE DEF g
<1>. QED
  BY <1>1, <1>2 DEF FlatStep

LEMMA FlatExtends ==
    ASSUME NEW S, NEW seqs \in Seq(Seq(S)), NEW n \in Nat, n + 1 <= Len(seqs),
           NEW f \in [1..n -> Seq(S)], \A i \in 1..n : FlatStep(f, seqs, i)
    PROVE  \E g \in [1..(n+1) -> Seq(S)] : \A i \in 1..(n+1) : FlatStep(g, seqs, i)
<1>. DEFINE last == IF n = 0 THEN seqs[1] ELSE f[n] \o seqs[n+1]
            g == [i \in 1..(n+1) |-> IF i = n + 1 THEN last ELSE f[i]]
<1>1. n + 1 \in 1..Len(seqs) /\ seqs[n+1] \in Seq(S)
  OBVIOUS
<1>2. last \in Seq(S)
  <2>1. ASSUME n # 0 PROVE f[n] \in Seq(S)
    BY <2>1
  <2>. QED
    BY <1>1, <2>1, ConcatProperties
<1>. HIDE DEF last
<1>3. g \in [1..(n+1) -> Seq(S)]
  BY <1>2
<1>4. g[n+1] = last /\ \A i \in 1..n : g[i] = f[i]
  OBVIOUS
<1>. HIDE DEF g
<1>5. ASSUME NEW i \in 1..(n+1) PROVE FlatStep(g, seqs, i)
  <2>1. CASE i = n + 1
    <3>1. n # 0 => g[i-1] = f[n]
      BY <1>4, <2>1
    <3>. QED
      BY <1>4, <2>1, <3>1 DEF FlatStep, last
  <2>2. CASE i # n + 1
    <3>1. i \in 1..n /\ (i # 1 => i - 1 \in 1..n)
      BY <2>2
    <3>2. FlatStep(f, seqs, i) /\ g[i] = f[i] /\ (i # 1 => g[i-1] = f[i-1])
      BY <1>4, <3>1
    <3>3. CASE i = 1
      BY <3>2, <3>3 DEF FlatStep
    <3>4. CASE i # 1
      BY <3>2, <3>4 DEF FlatStep
    <3>. QED
      BY <3>3, <3>4
  <2>. QED
    BY <2>1, <2>2
<1>. QED
  BY <1>3, <1>5

LEMMA FlatExists ==
    ASSUME NEW S, NEW seqs \in Seq(Seq(S))
    PROVE  \E f \in [1..Len(seqs) -> Seq(S)] : Flat(f, seqs)
<1>. DEFINE Extends(n) == \E f \in [1..n -> Seq(S)] : \A i \in 1..n : FlatStep(f, seqs, i)
            T == {n \in Nat : n <= Len(seqs) => Extends(n)}
<1>1. Extends(0)
  <2>. DEFINE f == [i \in 1..0 |-> <<>>]
  <2>1. f \in [1..0 -> Seq(S)]
    OBVIOUS
  <2>2. \A i \in 1..0 : FlatStep(f, seqs, i)
    OBVIOUS
  <2>. HIDE DEF f
  <2>. QED
    BY <2>1, <2>2
<1>2. ASSUME NEW n \in Nat, n + 1 <= Len(seqs), Extends(n) PROVE Extends(n + 1)
  BY <1>2, FlatExtends
<1>. HIDE DEF Extends
<1>3. \A n \in T : n + 1 \in T
  BY <1>2
<1>4. T = Nat
  <2>1. 0 \in T
    BY <1>1
  <2>. HIDE DEF T
  <2>. QED
    BY <1>3, <2>1, Induction DEF T
<1>5. Extends(Len(seqs))
  BY <1>4
<1>6. PICK f \in [1..Len(seqs) -> Seq(S)] : \A i \in 1..Len(seqs) : FlatStep(f, seqs, i)
  BY <1>5 DEF Extends
<1>. QED
  BY <1>6 DEF Flat, FlatStep

LEMMA FlattenSeqIsFlat ==
    ASSUME NEW S, NEW seqs \in Seq(Seq(S)), seqs # <<>>
    PROVE  \E f : Flat(f, seqs) /\ FlattenSeq(seqs) = f[Len(seqs)]
<1>. DEFINE f == CHOOSE f : Flat(f, seqs)
<1>1. Flat(f, seqs)
  BY FlatExists
<1>2. FlattenSeq(seqs) = f[Len(seqs)]
  BY DEF FlattenSeq, Flat
<1>. QED
  BY <1>1, <1>2

(* What FlattenSeq returns: the elements of all the sequences, and no two  *)
(* with the same id unless they have it already.  Ids of some names are    *)
(* excepted.                                                               *)
DistinctIDs(out, names) ==
    \A k, l \in DOMAIN out : out[k].id = out[l].id => k = l \/ out[k].id[1] \in names

DistinctInputs(seqs, names) ==
    \A i, j \in DOMAIN seqs : \A a \in DOMAIN seqs[i], b \in DOMAIN seqs[j] :
        seqs[i][a].id = seqs[j][b].id => (i = j /\ a = b) \/ seqs[i][a].id[1] \in names

LEMMA FlattenSeqElements ==
    ASSUME NEW S, NEW seqs \in Seq(Seq(S)), NEW names, NEW out, out = FlattenSeq(seqs)
    PROVE  /\ out \in Seq(S)
           /\ \A k \in DOMAIN out :
                 \E i \in DOMAIN seqs : \E j \in DOMAIN seqs[i] : out[k] = seqs[i][j]
           /\ \A i \in DOMAIN seqs : \A j \in DOMAIN seqs[i] :
                 \E k \in DOMAIN out : out[k] = seqs[i][j]
           /\ DistinctInputs(seqs, names) => DistinctIDs(out, names)
<1>. DEFINE Origins(o, n) ==
              \A k \in DOMAIN o : \E i \in 1..n : \E j \in DOMAIN seqs[i] : o[k] = seqs[i][j]
            Complete(o, n) ==
              \A i \in 1..n : \A j \in DOMAIN seqs[i] : \E k \in DOMAIN o : o[k] = seqs[i][j]
            Good(o, n) ==
              o \in Seq(S) /\ Origins(o, n) /\ Complete(o, n)
                  /\ (DistinctInputs(seqs, names) => DistinctIDs(o, names))
<1>1. ASSUME seqs = <<>> PROVE Good(FlattenSeq(seqs), 0)
  <2>1. FlattenSeq(seqs) = <<>>
    BY <1>1 DEF FlattenSeq
  <2>2. DistinctIDs(<<>>, names)
    BY DEF DistinctIDs
  <2>. QED
    BY <2>1, <2>2
<1>2. ASSUME seqs # <<>> PROVE Good(FlattenSeq(seqs), Len(seqs))
  <2>1. PICK f : Flat(f, seqs) /\ FlattenSeq(seqs) = f[Len(seqs)]
    BY <1>2, FlattenSeqIsFlat
  <2>2. Len(seqs) \in Nat \ {0} /\ DOMAIN seqs = 1..Len(seqs)
    BY <1>2
  <2>3. Good(f[1], 1)
    <3>1. f[1] = seqs[1] /\ seqs[1] \in Seq(S)
      BY <2>1, <2>2 DEF Flat
    <3>2. Origins(seqs[1], 1)
      OBVIOUS
    <3>3. Complete(seqs[1], 1)
      OBVIOUS
    <3>4. DistinctInputs(seqs, names) => DistinctIDs(seqs[1], names)
      BY <2>2 DEF DistinctInputs, DistinctIDs
    <3>. QED
      BY <3>1, <3>2, <3>3, <3>4
  <2>. HIDE DEF Good
  <2>4. ASSUME NEW n \in Nat \ {0}, n + 1 <= Len(seqs), Good(f[n], n)
        PROVE  Good(f[n+1], n + 1)
    <3>. DEFINE s == f[n]  t == seqs[n+1]  o == s \o t
    <3>1. f[n+1] = o /\ n + 1 \in DOMAIN seqs /\ n \in 1..Len(seqs)
      <4>1. n + 1 \in 1..Len(seqs) /\ n + 1 # 1 /\ (n + 1) - 1 = n
        BY <2>4
      <4>2. FlatStep(f, seqs, n + 1)
        BY <2>1, <4>1, FlatSteps
      <4>3. f[n+1] = f[(n+1)-1] \o seqs[n+1]
        BY <4>1, <4>2 DEF FlatStep
      <4>4. f[n+1] = o
        BY <4>1, <4>3
      <4>. QED
        BY <2>2, <4>1, <4>4
    <3>. USE DEF Good
    <3>2. s \in Seq(S) /\ t \in Seq(S)
      BY <2>4, <3>1
    <3>. HIDE DEF s, t
    <3>3. /\ o \in Seq(S) /\ Len(o) = Len(s) + Len(t)
          /\ \A k \in DOMAIN s : k \in DOMAIN o /\ o[k] = s[k]
          /\ \A j \in DOMAIN t : Len(s) + j \in DOMAIN o /\ o[Len(s) + j] = t[j]
          /\ \A k \in DOMAIN o :
                k \in DOMAIN s \/ (k - Len(s) \in DOMAIN t /\ o[k] = t[k - Len(s)])
      BY <3>2, ConcatProperties
    <3>. HIDE DEF o
    <3>4. Origins(o, n + 1)
      <4>1. TAKE k \in DOMAIN o
      <4>2. CASE k \in DOMAIN s
        <5>1. \E i \in 1..n : \E j \in DOMAIN seqs[i] : s[k] = seqs[i][j]
          BY <2>4, <4>2 DEF s
        <5>. QED
          BY <3>3, <4>2, <5>1
      <4>3. CASE k - Len(s) \in DOMAIN t /\ o[k] = t[k - Len(s)]
        BY <4>3 DEF t
      <4>. QED
        BY <3>3, <4>2, <4>3
    <3>5. Complete(o, n + 1)
      <4>1. TAKE i \in 1..(n + 1)
      <4>2. TAKE j \in DOMAIN seqs[i]
      <4>3. CASE i \in 1..n
        <5>1. \E k \in DOMAIN s : s[k] = seqs[i][j]
          BY <2>4, <4>3 DEF s
        <5>. QED
          BY <3>3, <5>1
      <4>4. CASE i = n + 1
        <5>1. j \in DOMAIN t /\ t[j] = seqs[i][j]
          BY <4>4 DEF t
        <5>. QED
          BY <3>3, <5>1
      <4>. QED
        BY <4>3, <4>4
    <3>6. ASSUME DistinctInputs(seqs, names) PROVE DistinctIDs(o, names)
      <4>. USE DEF DistinctInputs, DistinctIDs
      <4>1. TAKE k, l \in DOMAIN o
      <4>2. HAVE o[k].id = o[l].id
      <4>3. \A p \in DOMAIN s, q \in DOMAIN t : s[p].id = t[q].id => s[p].id[1] \in names
        <5>1. TAKE p \in DOMAIN s, q \in DOMAIN t
        <5>2. PICK i \in 1..n : \E j \in DOMAIN seqs[i] : s[p] = seqs[i][j]
          BY <2>4 DEF s
        <5>3. i \in DOMAIN seqs /\ i # n + 1
          BY <2>2, <3>1
        <5>. QED
          BY <3>1, <3>6, <5>2, <5>3 DEF t
      <4>4. CASE k \in DOMAIN s /\ l \in DOMAIN s
        BY <2>4, <3>3, <3>6, <4>2, <4>4 DEF s
      <4>5. CASE k \in DOMAIN s /\ l \notin DOMAIN s
        BY <3>3, <4>2, <4>3, <4>5
      <4>6. CASE k \notin DOMAIN s /\ l \in DOMAIN s
        BY <3>3, <4>2, <4>3, <4>6
      <4>7. CASE k \notin DOMAIN s /\ l \notin DOMAIN s
        <5>1. k - Len(s) = l - Len(s) \/ o[k].id[1] \in names
          BY <3>1, <3>3, <3>6, <4>2, <4>7 DEF t
        <5>. QED
          BY <3>2, <3>3, <5>1
      <4>. QED
        BY <4>4, <4>5, <4>6, <4>7
    <3>. QED
      BY <3>1, <3>3, <3>4, <3>5, <3>6
  <2>. DEFINE T == {n \in Nat : n \in 1..Len(seqs) => Good(f[n], n)}
  <2>5. T = Nat
    <3>1. 0 \in T
      OBVIOUS
    <3>2. ASSUME NEW n \in T PROVE n + 1 \in T
      BY <2>3, <2>4, <3>2
    <3>. HIDE DEF T
    <3>. QED
      BY <3>1, <3>2, Induction DEF T
  <2>. QED
    BY <2>1, <2>2, <2>5
<1>3. DOMAIN seqs = 1..Len(seqs) /\ (seqs = <<>> => Len(seqs) = 0)
  OBVIOUS
<1>4. Good(FlattenSeq(seqs), Len(seqs))
  BY <1>1, <1>2, <1>3
<1>5. out \in Seq(S) /\ Origins(out, Len(seqs)) /\ Complete(out, Len(seqs))
      /\ (DistinctInputs(seqs, names) => DistinctIDs(out, names))
  BY <1>4
<1>6. /\ \A k \in DOMAIN out :
            \E i \in DOMAIN seqs : \E j \in DOMAIN seqs[i] : out[k] = seqs[i][j]
      /\ \A i \in DOMAIN seqs : \A j \in DOMAIN seqs[i] :
            \E k \in DOMAIN out : out[k] = seqs[i][j]
  <2>1. ASSUME NEW k \in DOMAIN out
        PROVE  \E i \in DOMAIN seqs : \E j \in DOMAIN seqs[i] : out[k] = seqs[i][j]
    <3>1. PICK i \in 1..Len(seqs) : \E j \in DOMAIN seqs[i] : out[k] = seqs[i][j]
      BY <1>5
    <3>. QED
      BY <1>3, <3>1
  <2>2. ASSUME NEW i \in DOMAIN seqs, NEW j \in DOMAIN seqs[i]
        PROVE  \E k \in DOMAIN out : out[k] = seqs[i][j]
    <3>1. i \in 1..Len(seqs)
      BY <1>3
    <3>. QED
      BY <1>5, <3>1
  <2>. QED
    BY <2>1, <2>2
<1>. QED
  BY <1>5, <1>6
-----------------------------------------------------------------------------
(* The inductive invariant *)

Plugins == {Chain[i].plugin : i \in DOMAIN Chain}

Unbuilt == {"new", "building", "refused", "buildPanicked"}
Preparing == Unbuilt \cup {"built"}
Completed == {"injecting", "connecting", "looping", "over"}
Injected == {"connecting", "looping", "over"}

(* As long as nothing failed, the builder has what the calls gave it; the  *)
(* error is that of the first call that failed.                            *)
BuildInv ==
    /\ calls \in 0..Len(Chain)
    /\ failed \subseteq 0..calls
    /\ phase = "new" => err = None
    /\ err = None => failed = {}
    /\ err # None => err \in failed /\ \A i \in failed : err <= i
    /\ opened \subseteq 1..calls
    /\ err = None => closers \in Seq(1..calls) /\ ToSet(closers) = opened /\ IsInjective(closers)
    /\ phase = "refused" => err # None
    /\ phase \notin Unbuilt => err = None /\ calls = Len(Chain)

(* The plugins are those of the calls, and the help plugin from when it is *)
(* registered, before any is given its services.                           *)
PluginsInv ==
    /\ plugins \in Seq(Plugins \cup {HelpPlugin})
    /\ err = None =>
          /\ Len(plugins) = IF mainLoop \in Completed THEN calls + 1 ELSE calls
          /\ \A i \in 1..calls : plugins[i] = Chain[i].plugin
    /\ mainLoop \in Completed => plugins[Len(Chain) + 1] = HelpPlugin

LoopInv ==
    /\ mainLoop \in {"off", "starting", "registering"} \cup Completed
    /\ phase \in Preparing => mainLoop = "off" /\ scheduler = "off"
    /\ injected \in Nat /\ injected <= Len(plugins)
    /\ mainLoop \in Injected => injected = Len(plugins)
    /\ mainLoop = "looping" => identity = TRUE
    /\ events # <<>> => identity = TRUE /\ mainLoop \in {"looping", "over"}

(* What help lists, once it was created, are visible commands of the chain. *)
HelpInv ==
    /\ mainLoop \in {"off", "starting"} => help = {}
    /\ \A command \in help :
          \E i \in DOMAIN Chain : \E k \in DOMAIN Chain[i].plugin.commands :
              /\ ~Chain[i].plugin.commands[k].hidden /\ Chain[i].plugin.commands[k].usage # ""
              /\ command.id = ActionID(Chain[i].plugin, "command", k)
              /\ command.usage = Chain[i].plugin.commands[k].usage
              /\ command.namespace = HelpNamespace(Chain[i].plugin)

(* The jobs of the chain's first n plugins.                                *)
JobsOf(n) == UNION {Scheduled(i, Chain[i].plugin) : i \in {j \in DOMAIN Chain : j <= n}}

(* The plugins in s, of which n were gone over: those of the chain, and    *)
(* maybe help.                                                             *)
RangesOver(s, n) ==
    /\ Len(s) \in {Len(Chain), Len(Chain) + 1}
    /\ \A i \in DOMAIN Chain : s[i] = Chain[i].plugin
    /\ Len(s) = Len(Chain) + 1 => s[Len(Chain) + 1] = HelpPlugin
    /\ n <= Len(s)

(* The jobs are those of the plugins gone over, and the plugins ranged     *)
(* over are the chain's, whether or not help is one of them.               *)
ScheduleInv ==
    /\ scheduler \in {"off", "starting", "scheduling", "started"}
    /\ scheduler \in {"off", "starting"} => scanned = 0
    /\ scanned \in Nat /\ jobs = JobsOf(scanned)
    /\ scheduler \in {"scheduling", "started"} => RangesOver(scan, scanned)
    /\ scheduler = "started" => scanned = Len(scan)

(* Every answer is one to a message that was handled, and not the bot's.   *)
PostsInv ==
    /\ IsSequence(events) /\ IsSequence(posts)
    /\ routed \in Nat /\ routed <= Len(events)
    /\ \A k \in DOMAIN posts :
          posts[k].event \in 1..routed /\ events[posts[k].event].author # "us"
    /\ OneAnswerPerAction
    /\ CommandsAnswered

StartInv == BuildInv /\ PluginsInv /\ LoopInv /\ HelpInv /\ ScheduleInv

NamesNoThread(options) == \A o \in DOMAIN options : "threadTimestamp" \notin DOMAIN options[o]

(* No action's own options name a thread: only those that slackscot adds   *)
(* for the message it answers.                                             *)
NoActionNamesThread ==
    \A i \in DOMAIN Chain :
        \A actions \in {Chain[i].plugin.commands, Chain[i].plugin.hearActions} :
            \A k \in DOMAIN actions : NamesNoThread(actions[k].options)

(* A command that help shows answers to the usage that help shows of it.   *)
UsagesAnswered ==
    \A i \in DOMAIN Chain : \A k \in DOMAIN Chain[i].plugin.commands :
        LET command == Chain[i].plugin.commands[k]
        IN  ~command.hidden => command.usage \in command.matches \ command.answersNil

-----------------------------------------------------------------------------
(* Sequences *)

LEMMA Sequences ==
    ASSUME NEW s, IsSequence(s)
    PROVE  s \in Seq(ToSet(s)) /\ Len(s) \in Nat /\ DOMAIN s = 1..Len(s)
BY DEF IsSequence

LEMMA IsSequenceIntro ==
    ASSUME NEW S, NEW s \in Seq(S)
    PROVE  IsSequence(s)
<1>1. s \in [1..Len(s) -> ToSet(s)] /\ Len(s) \in Nat
  BY DEF ToSet
<1>. QED
  BY <1>1 DEF IsSequence

(* u is s and then t, element by element.                                  *)
IsConcat(u, s, t) ==
    /\ IsSequence(u) /\ Len(u) = Len(s) + Len(t)
    /\ \A k \in DOMAIN s : k \in DOMAIN u /\ u[k] = s[k]
    /\ \A k \in DOMAIN t : Len(s) + k \in DOMAIN u /\ u[Len(s) + k] = t[k]
    /\ \A k \in DOMAIN u : k \in DOMAIN s \/ \E j \in DOMAIN t : k = Len(s) + j

LEMMA ConcatSequences ==
    ASSUME NEW s, IsSequence(s), NEW t, IsSequence(t), NEW u, u = s \o t
    PROVE  IsConcat(u, s, t)
<1>. DEFINE S == ToSet(s) \cup ToSet(t)
<1>1. s \in Seq(S) /\ t \in Seq(S)
  <2>1. s \in Seq(ToSet(s)) /\ t \in Seq(ToSet(t))
    BY DEF IsSequence
  <2>. HIDE DEF S
  <2>2. ToSet(s) \subseteq S /\ ToSet(t) \subseteq S
    BY DEF S
  <2>. QED
    BY <2>1, <2>2, SeqMonotonic
<1>. HIDE DEF S
<1>2. /\ u \in Seq(S) /\ Len(u) = Len(s) + Len(t)
      /\ \A k \in 1..(Len(s) + Len(t)) : u[k] = IF k <= Len(s) THEN s[k] ELSE t[k - Len(s)]
  BY <1>1, ConcatProperties
<1>3. /\ Len(s) \in Nat /\ Len(t) \in Nat /\ DOMAIN s = 1..Len(s) /\ DOMAIN t = 1..Len(t)
      /\ DOMAIN u = 1..(Len(s) + Len(t))
  BY <1>1, <1>2
<1>4. IsSequence(u)
  BY <1>2, IsSequenceIntro
<1>5. \A k \in DOMAIN s : k \in DOMAIN u /\ u[k] = s[k]
  BY <1>2, <1>3
<1>6. ASSUME NEW k \in DOMAIN t PROVE Len(s) + k \in DOMAIN u /\ u[Len(s) + k] = t[k]
  <2>1. /\ Len(s) + k \in 1..(Len(s) + Len(t)) /\ ~(Len(s) + k <= Len(s))
        /\ (Len(s) + k) - Len(s) = k
    BY <1>3
  <2>. QED
    BY <1>2, <1>3, <2>1
<1>7. ASSUME NEW k \in DOMAIN u, k \notin DOMAIN s PROVE \E j \in DOMAIN t : k = Len(s) + j
  <2>1. k - Len(s) \in DOMAIN t /\ k = Len(s) + (k - Len(s))
    BY <1>3, <1>7
  <2>. QED
    BY <2>1
<1>. QED
  BY <1>2, <1>4, <1>5, <1>6, <1>7 DEF IsConcat

LEMMA AppendSequence ==
    ASSUME NEW s, IsSequence(s), NEW x, NEW u, u = Append(s, x)
    PROVE  /\ IsSequence(u) /\ Len(u) = Len(s) + 1 /\ u[Len(s) + 1] = x
           /\ \A k \in DOMAIN s : k \in DOMAIN u /\ u[k] = s[k]
<1>. DEFINE S == ToSet(s) \cup {x}
<1>1. s \in Seq(S)
  <2>1. s \in Seq(ToSet(s)) /\ ToSet(s) \subseteq S
    BY DEF IsSequence
  <2>. HIDE DEF S
  <2>. QED
    BY <2>1, SeqMonotonic
<1>2. x \in S
  OBVIOUS
<1>. HIDE DEF S
<1>3. /\ u \in Seq(S) /\ Len(u) = Len(s) + 1 /\ u[Len(s) + 1] = x
      /\ \A k \in 1..Len(s) : u[k] = s[k]
      /\ Len(s) \in Nat /\ DOMAIN s = 1..Len(s) /\ DOMAIN u = 1..(Len(s) + 1)
  BY <1>1, <1>2, AppendProperties
<1>4. IsSequence(u)
  BY <1>3, IsSequenceIntro
<1>. QED
  BY <1>3, <1>4

LEMMA AppendInjective2 ==
    ASSUME NEW S, NEW s \in Seq(S), IsInjective(s), NEW x \in S, x \notin ToSet(s)
    PROVE  /\ Append(s, x) \in Seq(S) /\ ToSet(Append(s, x)) = ToSet(s) \cup {x}
           /\ IsInjective(Append(s, x))
<1>. DEFINE u == Append(s, x)
<1>1. /\ u \in Seq(S) /\ Len(s) \in Nat /\ DOMAIN s = 1..Len(s) /\ DOMAIN u = 1..(Len(s) + 1)
      /\ u[Len(s) + 1] = x /\ \A k \in 1..Len(s) : u[k] = s[k]
  BY AppendProperties
<1>. HIDE DEF u
<1>2. ToSet(u) = ToSet(s) \cup {x}
  BY <1>1 DEF ToSet
<1>3. ASSUME NEW a \in DOMAIN u, NEW b \in DOMAIN u, u[a] = u[b] PROVE a = b
  <2>1. \A k \in 1..Len(s) : u[k] # x
    BY <1>1 DEF ToSet
  <2>2. (a \in 1..Len(s) \/ a = Len(s) + 1) /\ (b \in 1..Len(s) \/ b = Len(s) + 1)
    BY <1>1
  <2>. QED
    BY <1>1, <1>3, <2>1, <2>2 DEF IsInjective
<1>. QED
  BY <1>1, <1>2, <1>3 DEF u, IsInjective

-----------------------------------------------------------------------------
(* The builder *)

LEMMA ChainType ==
    /\ Len(Chain) \in Nat /\ DOMAIN Chain = 1..Len(Chain)
    /\ \A i \in DOMAIN Chain :
          /\ Chain[i].configurable \in BOOLEAN /\ Chain[i].mayFail \in BOOLEAN
          /\ Chain[i].closer \in BOOLEAN
    /\ \A i \in DOMAIN Chain : Chain[i].plugin \in Plugins
BY ChainAssumption, Sequences DEF ChainAssumption, Plugins

(* The builder is done with when the main function goes on.                *)
LEMMA BuilderUnchanged ==
    ASSUME BuildInv, UNCHANGED builderVars,
           \/ phase' = phase
           \/ phase \notin Unbuilt /\ phase' \notin Unbuilt
           \/ phase = "building" /\ phase' = "buildPanicked"
    PROVE  BuildInv'
BY DEF BuildInv, builderVars, Unbuilt, ToSet, IsInjective

LEMMA BuildStep ==
    ASSUME BuildInv, [Next]_vars
    PROVE  BuildInv'
<1>. USE ChainType DEF Unbuilt
<1>1. ASSUME UNCHANGED vars PROVE BuildInv'
  BY <1>1, BuilderUnchanged DEF vars, builderVars
<1>2. ASSUME NewBot PROVE BuildInv'
  BY <1>2 DEF NewBot, BuildInv, None, NewBotFails
<1>. DEFINE Stays == /\ calls \in 0..Len(Chain) /\ calls' = calls + 1 /\ calls' \in 0..Len(Chain)
                     /\ phase = "building" /\ phase' = "building"
<1>3. NextCall => Stays /\ Call = Chain[calls + 1] /\ calls + 1 \in DOMAIN Chain
  BY DEF NextCall, BuildInv, Call
<1>4. Stays => 1..calls \subseteq 1..calls' /\ 0..calls \subseteq 0..calls' /\ calls' \in 1..calls'
  OBVIOUS
<1>5. closers \in Seq(1..calls) /\ Stays => closers \in Seq(1..calls')
  BY <1>4, SeqMonotonic
<1>6. ASSUME NextCall, UNCHANGED <<err, failed, opened, closers>> PROVE BuildInv'
  BY <1>3, <1>4, <1>5, <1>6 DEF BuildInv, ToSet, IsInjective
<1>7. ASSUME NextCall, err' = FirstError(calls + 1), failed' = failed \cup {calls + 1},
             UNCHANGED <<opened, closers>>
      PROVE  BuildInv'
  <2>1. err' # None
    BY <1>3, <1>7 DEF FirstError, None, BuildInv
  <2>2. err' \in failed' /\ \A i \in failed' : err' <= i
    BY <1>3, <1>7 DEF FirstError, BuildInv
  <2>3. failed' \subseteq 0..calls' /\ opened' \subseteq 1..calls'
    BY <1>3, <1>4, <1>7 DEF BuildInv
  <2>4. Stays
    BY <1>3, <1>7
  <2>. QED
    BY <2>1, <2>2, <2>3, <2>4 DEF BuildInv
<1>8. ASSUME MissingConfiguration PROVE BuildInv'
  <2>1. err' = FirstError(calls + 1)
    BY <1>8 DEF MissingConfiguration, FirstError
  <2>. QED
    BY <1>7, <1>8, <2>1 DEF MissingConfiguration
<1>9. ASSUME NotInstantiated PROVE BuildInv'
  BY <1>6, <1>9 DEF NotInstantiated
<1>10. ASSUME WithFailingPlugin PROVE BuildInv'
  BY <1>7, <1>10 DEF WithFailingPlugin
<1>11. ASSUME WithPlugin PROVE BuildInv'
  <2>1. Stays /\ NextCall /\ UNCHANGED <<err, failed>>
    BY <1>3, <1>11 DEF WithPlugin
  <2>2. opened' \subseteq 1..calls' /\ failed' \subseteq 0..calls'
    BY <1>4, <1>11, <2>1 DEF WithPlugin, BuildInv
  <2>3. ASSUME err = None
        PROVE  closers' \in Seq(1..calls') /\ ToSet(closers') = opened' /\ IsInjective(closers')
    <3>1. closers \in Seq(1..calls') /\ ToSet(closers) = opened /\ IsInjective(closers)
      BY <1>5, <2>1, <2>3 DEF BuildInv
    <3>2. calls + 1 \notin opened /\ calls + 1 \in 1..calls'
      BY <2>1 DEF BuildInv
    <3>3. CASE Chain[calls + 1].closer
      <4>1. opened' = opened \cup {calls + 1} /\ closers' = Append(closers, calls + 1)
        BY <1>11, <2>3, <3>3 DEF WithPlugin, Call
      <4>2. calls + 1 \notin ToSet(closers)
        BY <3>1, <3>2
      <4>. DEFINE u == Append(closers, calls + 1)
      <4>3. u \in Seq(1..calls') /\ ToSet(u) = ToSet(closers) \cup {calls + 1} /\ IsInjective(u)
        BY <3>1, <3>2, <4>2, AppendInjective2
      <4>. HIDE DEF u
      <4>4. closers' = u
        BY <4>1 DEF u
      <4>. QED
        BY <3>1, <4>1, <4>3, <4>4
    <3>4. CASE ~Chain[calls + 1].closer
      <4>1. opened' = opened /\ closers' = closers
        BY <1>11, <2>3, <3>4 DEF WithPlugin, Call
      <4>. QED
        BY <3>1, <4>1
    <3>. QED
      BY <3>3, <3>4
  <2>4. err' # None => err' \in failed' /\ \A i \in failed' : err' <= i
    BY <2>1 DEF BuildInv
  <2>. QED
    BY <2>1, <2>2, <2>3, <2>4 DEF BuildInv
<1>12. ASSUME Build PROVE BuildInv'
  BY <1>12 DEF Build, BuildInv, builderVars, ToSet, IsInjective
<1>13. ASSUME Run PROVE BuildInv'
  BY <1>13, BuilderUnchanged DEF Run
<1>14. ASSUME NewHelpPlugin \/ RegisterHelpPlugin \/ InjectServices \/ StartWorkers
                 \/ CacheSelfIdentity \/ Abort \/ Deliver \/ Work
       PROVE  BuildInv'
  BY <1>14, BuilderUnchanged
     DEF NewHelpPlugin, RegisterHelpPlugin, InjectServices, StartWorkers, CacheSelfIdentity,
         Abort, Deliver, Work, LoopStep
<1>15. ASSUME RangeOverPlugins \/ RangeTorn \/ ScheduleActions \/ StartScheduler
                 \/ ActionWithoutServices
       PROVE  BuildInv'
  BY <1>15, BuilderUnchanged
     DEF RangeOverPlugins, RangeTorn, ScheduleActions, StartScheduler, ActionWithoutServices,
         SchedulerStep, Running
<1>16. ASSUME Close PROVE BuildInv'
  BY <1>16, BuilderUnchanged DEF Close, RunReturns, Running
<1>17. ASSUME ConfigurationPanics PROVE BuildInv'
  BY <1>17, BuilderUnchanged DEF ConfigurationPanics
<1>. QED
  BY <1>1, <1>2, <1>8, <1>9, <1>10, <1>11, <1>12, <1>13, <1>14, <1>15, <1>16, <1>17 DEF Next
-----------------------------------------------------------------------------
(* The main loop *)

LEMMA HelpPluginSequence == IsSequence(HelpPlugin.commands)
<1>1. HelpPlugin.commands \in Seq({HelpPlugin.commands[1]})
  BY DEF HelpPlugin
<1>. QED
  BY <1>1, IsSequenceIntro

LEMMA PluginsUnchanged ==
    ASSUME PluginsInv, UNCHANGED <<plugins, calls, err>>,
           mainLoop' \in Completed <=> mainLoop \in Completed
    PROVE  PluginsInv'
BY DEF PluginsInv

LEMMA PluginsStep ==
    ASSUME BuildInv, PluginsInv, LoopInv, [Next]_vars
    PROVE  PluginsInv'
<1>. USE ChainType
<1>1. ASSUME UNCHANGED vars PROVE PluginsInv'
  BY <1>1, PluginsUnchanged DEF vars, builderVars, loopVars
<1>2. phase \in Preparing => mainLoop = "off" /\ mainLoop \notin Completed
  BY DEF LoopInv, Completed
<1>3. ASSUME NewBot PROVE PluginsInv'
  BY <1>2, <1>3 DEF NewBot, PluginsInv, BuildInv, Preparing, Unbuilt, loopVars
<1>4. ASSUME NextCall
      PROVE  /\ mainLoop \notin Completed /\ mainLoop' = mainLoop
             /\ calls \in Nat /\ calls + 1 \in DOMAIN Chain /\ Call = Chain[calls + 1]
             /\ calls' = calls + 1
  BY <1>2, <1>4 DEF NextCall, BuildInv, Preparing, Unbuilt, Call, loopVars
<1>5. ASSUME NextCall, UNCHANGED plugins, err' # None PROVE PluginsInv'
  BY <1>4, <1>5 DEF PluginsInv
<1>6. ASSUME MissingConfiguration PROVE PluginsInv'
  BY <1>4, <1>5, <1>6 DEF MissingConfiguration, None
<1>7. ASSUME NotInstantiated PROVE PluginsInv'
  BY <1>5, <1>7 DEF NotInstantiated
<1>8. ASSUME WithFailingPlugin PROVE PluginsInv'
  <2>1. err' # None
    BY <1>4, <1>8 DEF WithFailingPlugin, FirstError, None
  <2>. QED
    BY <1>5, <1>8, <2>1 DEF WithFailingPlugin
<1>9. ASSUME WithPlugin PROVE PluginsInv'
  <2>1. NextCall /\ err' = err
    BY <1>9 DEF WithPlugin
  <2>2. CASE err = None
    <3>1. plugins' = Append(plugins, Chain[calls + 1].plugin)
      BY <1>4, <1>9, <2>1, <2>2 DEF WithPlugin
    <3>2. Chain[calls + 1].plugin \in Plugins \cup {HelpPlugin} /\ plugins \in Seq(Plugins \cup {HelpPlugin})
          /\ Len(plugins) = calls /\ \A k \in 1..calls : plugins[k] = Chain[k].plugin
      BY <1>4, <2>1, <2>2 DEF PluginsInv
    <3>3. /\ plugins' \in Seq(Plugins \cup {HelpPlugin}) /\ Len(plugins') = calls + 1
          /\ \A k \in 1..calls : plugins'[k] = plugins[k]
          /\ plugins'[calls + 1] = Chain[calls + 1].plugin
      BY <1>4, <2>1, <3>1, <3>2, AppendProperties
    <3>4. \A k \in 1..calls' : plugins'[k] = Chain[k].plugin
      BY <1>4, <2>1, <3>2, <3>3
    <3>. QED
      BY <1>4, <2>1, <3>3, <3>4 DEF PluginsInv
  <2>3. CASE err # None
    BY <1>5, <1>9, <2>1, <2>3 DEF WithPlugin
  <2>. QED
    BY <2>2, <2>3
<1>10. ASSUME Build \/ ConfigurationPanics PROVE PluginsInv'
  BY <1>10, PluginsUnchanged DEF Build, ConfigurationPanics, builderVars, loopVars
<1>11. ASSUME Run PROVE PluginsInv'
  BY <1>2, <1>11, PluginsUnchanged DEF Run, builderVars, Preparing, Unbuilt, Completed
<1>12. ASSUME NewHelpPlugin PROVE PluginsInv'
  BY <1>12, PluginsUnchanged DEF NewHelpPlugin, LoopStep, builderVars, Completed
<1>13. ASSUME RegisterHelpPlugin PROVE PluginsInv'
  <2>1. /\ plugins' = Append(plugins, HelpPlugin) /\ err' = err /\ calls' = calls
        /\ mainLoop' \in Completed /\ mainLoop \notin Completed
    BY <1>13 DEF RegisterHelpPlugin, LoopStep, builderVars, Completed
  <2>2. err = None /\ calls = Len(Chain)
    BY <1>13 DEF RegisterHelpPlugin, LoopStep, BuildInv, Running, Unbuilt
  <2>3. /\ plugins \in Seq(Plugins \cup {HelpPlugin}) /\ Len(plugins) = calls
        /\ \A k \in 1..calls : plugins[k] = Chain[k].plugin
    BY <2>1, <2>2 DEF PluginsInv
  <2>4. /\ plugins' \in Seq(Plugins \cup {HelpPlugin}) /\ Len(plugins') = calls + 1
        /\ \A k \in 1..calls : plugins'[k] = plugins[k]
        /\ plugins'[calls + 1] = HelpPlugin
    BY <2>1, <2>3, AppendProperties
  <2>. QED
    BY <2>1, <2>2, <2>3, <2>4 DEF PluginsInv
<1>14. ASSUME InjectServices \/ StartWorkers \/ CacheSelfIdentity \/ Abort \/ Deliver \/ Work
       PROVE  PluginsInv'
  BY <1>14, PluginsUnchanged
     DEF InjectServices, StartWorkers, CacheSelfIdentity, Abort, Deliver, Work, UserSays, Echo,
         Route, LoopStep, builderVars, loopVars, Completed
<1>15. ASSUME RangeOverPlugins \/ RangeTorn \/ ScheduleActions \/ StartScheduler
                 \/ ActionWithoutServices \/ Close
       PROVE  PluginsInv'
  BY <1>15, PluginsUnchanged
     DEF RangeOverPlugins, RangeTorn, ScheduleActions, StartScheduler, ActionWithoutServices,
         SchedulerStep, Close, builderVars, loopVars
<1>. QED
  BY <1>1, <1>3, <1>6, <1>7, <1>8, <1>9, <1>10, <1>11, <1>12, <1>13, <1>14, <1>15 DEF Next

LEMMA LoopUnchanged ==
    ASSUME LoopInv, UNCHANGED <<plugins, mainLoop, injected, identity, events>>,
           phase' \in Preparing => phase \in Preparing /\ scheduler' = scheduler
    PROVE  LoopInv'
BY DEF LoopInv

LEMMA LoopInvStep ==
    ASSUME BuildInv, PluginsInv, LoopInv, [Next]_vars
    PROVE  LoopInv'
<1>. USE DEF Preparing, Unbuilt
<1>1. ASSUME UNCHANGED vars PROVE LoopInv'
  BY <1>1, LoopUnchanged DEF vars, loopVars, routingVars, schedulerVars
<1>2. ASSUME NewBot PROVE LoopInv'
  BY <1>2, LoopUnchanged DEF NewBot, loopVars, routingVars, schedulerVars
<1>3. ASSUME NextCall, UNCHANGED plugins PROVE LoopInv'
  BY <1>3, LoopUnchanged DEF NextCall, loopVars, routingVars, schedulerVars
<1>4. ASSUME MissingConfiguration \/ NotInstantiated \/ WithFailingPlugin PROVE LoopInv'
  BY <1>3, <1>4 DEF MissingConfiguration, NotInstantiated, WithFailingPlugin
<1>5. ASSUME WithPlugin PROVE LoopInv'
  <2>1. /\ NextCall /\ mainLoop = "off" /\ scheduler = "off"
        /\ UNCHANGED <<mainLoop, scheduler, injected, identity, events>>
    BY <1>5 DEF WithPlugin, NextCall, LoopInv, loopVars, routingVars, schedulerVars
  <2>2. Len(plugins) \in Nat /\ Len(plugins') \in Nat /\ Len(plugins) <= Len(plugins')
    <3>1. Len(Append(plugins, Call.plugin)) = Len(plugins) + 1 /\ Len(plugins) \in Nat
      BY DEF PluginsInv
    <3>. QED
      BY <1>5, <3>1 DEF WithPlugin
  <2>. QED
    BY <2>1, <2>2 DEF LoopInv, Completed, Injected
<1>6. ASSUME Build \/ ConfigurationPanics PROVE LoopInv'
  BY <1>6, LoopUnchanged DEF Build, ConfigurationPanics, loopVars, routingVars, schedulerVars
<1>7. ASSUME Run PROVE LoopInv'
  BY <1>7 DEF Run, LoopInv, routingVars, Completed, Injected
<1>8. ASSUME NewHelpPlugin PROVE LoopInv'
  BY <1>8 DEF NewHelpPlugin, LoopStep, LoopInv, routingVars, Running, Completed, Injected
<1>9. ASSUME RegisterHelpPlugin PROVE LoopInv'
  <2>1. Len(plugins') = Len(plugins) + 1 /\ Len(plugins) \in Nat
    BY <1>9 DEF RegisterHelpPlugin, PluginsInv
  <2>. QED
    BY <1>9, <2>1
       DEF RegisterHelpPlugin, LoopStep, LoopInv, routingVars, Running, Completed, Injected
<1>10. ASSUME InjectServices PROVE LoopInv'
  <2>1. Len(plugins) \in Nat
    BY DEF PluginsInv
  <2>. QED
    BY <1>10, <2>1 DEF InjectServices, LoopInv, routingVars, Running, Completed, Injected
<1>11. ASSUME StartWorkers PROVE LoopInv'
  BY <1>11 DEF StartWorkers, LoopStep, LoopInv, routingVars, Running, Completed, Injected
<1>12. ASSUME CacheSelfIdentity PROVE LoopInv'
  BY <1>12 DEF CacheSelfIdentity, LoopStep, LoopInv, routingVars, Running, Completed, Injected
<1>13. ASSUME Abort PROVE LoopInv'
  BY <1>13 DEF Abort, LoopStep, LoopInv, routingVars, Running, Completed, Injected
<1>14. ASSUME Deliver PROVE LoopInv'
  BY <1>14 DEF Deliver, UserSays, Echo, LoopInv, loopVars, Running
<1>15. ASSUME Work PROVE LoopInv'
  BY <1>15, LoopUnchanged DEF Work, Route, loopVars, schedulerVars
<1>16. ASSUME RangeOverPlugins \/ RangeTorn \/ ScheduleActions \/ StartScheduler
                 \/ ActionWithoutServices \/ Close
       PROVE  LoopInv'
  BY <1>16, LoopUnchanged
     DEF RangeOverPlugins, RangeTorn, ScheduleActions, StartScheduler, ActionWithoutServices,
         SchedulerStep, Running, RunReturns, Close, loopVars, routingVars
<1>. QED
  BY <1>1, <1>2, <1>4, <1>5, <1>6, <1>7, <1>8, <1>9, <1>10, <1>11, <1>12, <1>13, <1>14, <1>15,
     <1>16 DEF Next
-----------------------------------------------------------------------------
(* Help and the scheduler *)

LEMMA HelpStep ==
    ASSUME BuildInv, PluginsInv, LoopInv, HelpInv, [Next]_vars
    PROVE  HelpInv'
<1>1. config' = config
  BY DEF Next, vars, NewBot, NextCall, MissingConfiguration, ConfigurationPanics,
         NotInstantiated, WithFailingPlugin, WithPlugin, Build, Run, LoopStep, NewHelpPlugin, RegisterHelpPlugin, InjectServices,
         StartWorkers, CacheSelfIdentity, Abort, Deliver, UserSays, Echo, Work, Route,
         SchedulerStep, RangeOverPlugins, RangeTorn, ScheduleActions, StartScheduler,
         ActionWithoutServices, Close
<1>2. ASSUME UNCHANGED help, mainLoop' \in {"off", "starting"} => mainLoop \in {"off", "starting"}
      PROVE  HelpInv'
  BY <1>1, <1>2 DEF HelpInv, HelpNamespace, ActionID
<1>3. ASSUME NewHelpPlugin PROVE HelpInv'
  <2>1. err = None /\ calls = Len(Chain)
    BY <1>3 DEF NewHelpPlugin, LoopStep, Running, BuildInv, Unbuilt
  <2>2. /\ DOMAIN plugins = DOMAIN Chain
        /\ \A i \in DOMAIN Chain : plugins[i] = Chain[i].plugin
    BY <1>3, <2>1, ChainType DEF NewHelpPlugin, LoopStep, PluginsInv, Completed
  <2>3. help' = VisibleCommands /\ mainLoop' = "registering"
    BY <1>3 DEF NewHelpPlugin, LoopStep
  <2>4. ASSUME NEW command \in VisibleCommands
        PROVE  \E i \in DOMAIN Chain : \E k \in DOMAIN Chain[i].plugin.commands :
                   /\ ~Chain[i].plugin.commands[k].hidden /\ Chain[i].plugin.commands[k].usage # ""
                   /\ command.id = ActionID(Chain[i].plugin, "command", k)
                   /\ command.usage = Chain[i].plugin.commands[k].usage
                   /\ command.namespace = HelpNamespace(Chain[i].plugin)
    <3>1. PICK i \in DOMAIN plugins :
                 \E k \in {l \in DOMAIN plugins[i].commands :
                              ~plugins[i].commands[l].hidden /\ plugins[i].commands[l].usage # ""} :
                     command = [id |-> ActionID(plugins[i], "command", k),
                                usage |-> plugins[i].commands[k].usage,
                                namespace |-> HelpNamespace(plugins[i])]
      BY <2>4 DEF VisibleCommands
    <3>2. plugins[i] = Chain[i].plugin /\ i \in DOMAIN Chain
      BY <2>2, <3>1
    <3>3. PICK k \in DOMAIN Chain[i].plugin.commands :
              /\ ~Chain[i].plugin.commands[k].hidden /\ Chain[i].plugin.commands[k].usage # ""
              /\ command = [id |-> ActionID(Chain[i].plugin, "command", k),
                             usage |-> Chain[i].plugin.commands[k].usage,
                             namespace |-> HelpNamespace(Chain[i].plugin)]
      BY <3>1, <3>2
    <3>. QED
      BY <3>2, <3>3
  <2>5. \A command \in help' :
          \E i \in DOMAIN Chain : \E k \in DOMAIN Chain[i].plugin.commands :
              /\ ~Chain[i].plugin.commands[k].hidden /\ Chain[i].plugin.commands[k].usage # ""
              /\ command.id = ActionID(Chain[i].plugin, "command", k)
              /\ command.usage = Chain[i].plugin.commands[k].usage
              /\ command.namespace = HelpNamespace(Chain[i].plugin)
    BY <2>3, <2>4
  <2>. QED
    BY <1>1, <2>3, <2>5 DEF HelpInv, HelpNamespace, ActionID
<1>4. ASSUME NewBot \/ MissingConfiguration \/ ConfigurationPanics \/ NotInstantiated
                \/ WithFailingPlugin \/ WithPlugin \/ Build
      PROVE  HelpInv'
  BY <1>2, <1>4 DEF NewBot, NextCall, MissingConfiguration, ConfigurationPanics, NotInstantiated,
                    WithFailingPlugin, WithPlugin, Build, loopVars
<1>5. ASSUME Run PROVE HelpInv'
  BY <1>2, <1>5 DEF Run, LoopInv, Preparing
<1>6. ASSUME RegisterHelpPlugin \/ InjectServices \/ StartWorkers \/ CacheSelfIdentity \/ Abort
      PROVE  HelpInv'
  BY <1>2, <1>6 DEF RegisterHelpPlugin, InjectServices, StartWorkers, CacheSelfIdentity, Abort,
                    LoopStep
<1>7. ASSUME Deliver \/ Work \/ RangeOverPlugins \/ RangeTorn \/ ScheduleActions \/ StartScheduler
                \/ ActionWithoutServices \/ Close \/ UNCHANGED vars
      PROVE  HelpInv'
  BY <1>2, <1>7 DEF Deliver, Work, RangeOverPlugins, RangeTorn, ScheduleActions, StartScheduler,
                    ActionWithoutServices, SchedulerStep, Close, loopVars, vars
<1>. QED
  BY <1>3, <1>4, <1>5, <1>6, <1>7 DEF Next

LEMMA JobsOfNext ==
    ASSUME NEW n \in Nat, n + 1 \in DOMAIN Chain
    PROVE  JobsOf(n + 1) = JobsOf(n) \cup Scheduled(n + 1, Chain[n + 1].plugin)
<1>. DEFINE below(m) == {j \in DOMAIN Chain : j <= m}
            of(i) == Scheduled(i, Chain[i].plugin)
<1>1. below(n + 1) = below(n) \cup {n + 1}
  BY ChainType
<1>. HIDE DEF below
<1>. HIDE DEF of
<1>2. UNION {of(i) : i \in below(n + 1)} = (UNION {of(i) : i \in below(n)}) \cup of(n + 1)
  BY <1>1
<1>3. \A m : JobsOf(m) = UNION {of(i) : i \in below(m)}
  BY DEF JobsOf, below, of
<1>. QED
  <2>1. JobsOf(n + 1) = JobsOf(n) \cup of(n + 1)
    BY <1>2, <1>3
  <2>. QED
    BY <2>1 DEF of

(* Help has nothing to schedule.                                           *)
LEMMA JobsOfAll ==
    ASSUME NEW n \in Nat, n >= Len(Chain)
    PROVE  JobsOf(n) = JobsOf(Len(Chain))
<1>1. {j \in DOMAIN Chain : j <= n} = {j \in DOMAIN Chain : j <= Len(Chain)}
  BY ChainType
<1>. QED
  BY <1>1 DEF JobsOf

LEMMA ScheduleStep ==
    ASSUME BuildInv, PluginsInv, LoopInv, ScheduleInv, [Next]_vars
    PROVE  ScheduleInv'
<1>0. /\ \A n : JobsOf(n)' = JobsOf(n)
      /\ JobsOf(scanned)' = JobsOf(scanned')
      /\ RangesOver(scan, scanned)' <=> RangesOver(scan', scanned')
  BY DEF JobsOf, Scheduled, Job, Refused, NewJobFails, RangesOver, HelpPlugin, AnswerInThread
<1>1. ASSUME UNCHANGED schedulerVars PROVE ScheduleInv'
  BY <1>0, <1>1 DEF ScheduleInv, schedulerVars
<1>2. ASSUME Run PROVE ScheduleInv'
  <2>1. UNCHANGED <<scan, scanned, jobs>> /\ scheduler = "off" /\ scheduler' \in {"off", "starting"}
    BY <1>2 DEF Run, LoopInv, Preparing
  <2>. QED
    BY <1>0, <2>1 DEF ScheduleInv
<1>3. ASSUME RangeOverPlugins PROVE ScheduleInv'
  <2>1. /\ scheduler = "starting" /\ scheduler' = "scheduling" /\ scan' = plugins
        /\ UNCHANGED <<scanned, jobs>> /\ scanned = 0 /\ err = None /\ calls = Len(Chain)
    BY <1>3 DEF RangeOverPlugins, SchedulerStep, Running, ScheduleInv, BuildInv, Unbuilt
  <2>2. RangesOver(plugins, 0)
    BY <2>1, ChainType DEF PluginsInv, RangesOver
  <2>3. RangesOver(scan', scanned') /\ jobs' = JobsOf(scanned') /\ scanned' = 0
    BY <2>1, <2>2 DEF ScheduleInv
  <2>. QED
    BY <1>0, <2>1, <2>3 DEF ScheduleInv
<1>4. ASSUME ScheduleActions PROVE ScheduleInv'
  <2>1. /\ scheduler = "scheduling" /\ scheduler' = "scheduling" /\ scanned < Len(scan)
        /\ jobs' = jobs \cup Scheduled(scanned + 1, scan[scanned + 1])
        /\ scanned' = scanned + 1 /\ scan' = scan
    BY <1>4 DEF ScheduleActions
  <2>2. RangesOver(scan, scanned) /\ scanned \in Nat /\ jobs = JobsOf(scanned)
    BY <2>1 DEF ScheduleInv
  <2>3. jobs' = JobsOf(scanned + 1)
    <3>1. CASE scanned + 1 \in DOMAIN Chain
      <4>1. scan[scanned + 1] = Chain[scanned + 1].plugin
        BY <2>2, <3>1 DEF RangesOver
      <4>. QED
        BY <2>1, <2>2, <3>1, <4>1, JobsOfNext
    <3>2. CASE scanned + 1 \notin DOMAIN Chain
      <4>1. scanned = Len(Chain) /\ Len(scan) = Len(Chain) + 1
        <5>1. Len(scan) \in {Len(Chain), Len(Chain) + 1} /\ scanned < Len(scan)
          BY <2>1, <2>2 DEF RangesOver
        <5>2. Len(Chain) \in Nat /\ scanned + 1 \notin 1..Len(Chain) /\ scanned \in Nat
          BY <2>2, <3>2, ChainType
        <5>. QED
          BY <5>1, <5>2
      <4>2. scan[scanned + 1] = HelpPlugin
        BY <2>2, <4>1 DEF RangesOver
      <4>3. Scheduled(scanned + 1, HelpPlugin) = {}
        BY DEF Scheduled, HelpPlugin
      <4>4. JobsOf(scanned + 1) = JobsOf(scanned)
        BY <2>2, <4>1, JobsOfAll
      <4>. QED
        BY <2>1, <2>2, <4>2, <4>3, <4>4
    <3>. QED
      BY <3>1, <3>2
  <2>4. RangesOver(scan', scanned') /\ scanned' \in Nat /\ jobs' = JobsOf(scanned')
    BY <2>1, <2>2, <2>3, ChainType DEF RangesOver
  <2>. QED
    BY <1>0, <2>1, <2>4 DEF ScheduleInv
<1>5. ASSUME StartScheduler PROVE ScheduleInv'
  <2>1. /\ scheduler = "scheduling" /\ scheduler' = "started" /\ scanned = Len(scan)
        /\ UNCHANGED <<scan, scanned, jobs>>
    BY <1>5 DEF StartScheduler
  <2>. QED
    BY <1>0, <2>1 DEF ScheduleInv
<1>6. ASSUME NewBot \/ MissingConfiguration \/ ConfigurationPanics \/ NotInstantiated
                \/ WithFailingPlugin \/ WithPlugin \/ Build
      PROVE  ScheduleInv'
  BY <1>1, <1>6 DEF NewBot, NextCall, MissingConfiguration, ConfigurationPanics, NotInstantiated,
                    WithFailingPlugin, WithPlugin, Build
<1>7. ASSUME NewHelpPlugin \/ RegisterHelpPlugin \/ InjectServices \/ StartWorkers
                \/ CacheSelfIdentity \/ Abort
      PROVE  ScheduleInv'
  BY <1>1, <1>7 DEF NewHelpPlugin, RegisterHelpPlugin, InjectServices, StartWorkers,
                    CacheSelfIdentity, Abort, LoopStep
<1>8. ASSUME Deliver \/ Work \/ RangeTorn \/ ActionWithoutServices \/ Close \/ UNCHANGED vars
      PROVE  ScheduleInv'
  BY <1>1, <1>8 DEF Deliver, Work, RangeTorn, ActionWithoutServices, Close, schedulerVars, vars
<1>. QED
  BY <1>2, <1>3, <1>4, <1>5, <1>6, <1>7, <1>8 DEF Next

LEMMA StartInit == Init => StartInv
<1>1. Init => BuildInv
  BY ChainType DEF Init, BuildInv, ToSet, IsInjective, Unbuilt
<1>2. Init => PluginsInv /\ LoopInv
  BY ChainType DEF Init, RoutingInit, PluginsInv, LoopInv, Completed, Injected
<1>3. Init => HelpInv
  BY DEF Init, HelpInv
<1>4. Init => ScheduleInv
  <2>1. {j \in DOMAIN Chain : j <= 0} = {}
    BY ChainType
  <2>2. JobsOf(0) = {}
    BY <2>1 DEF JobsOf
  <2>. QED
    BY <2>2 DEF Init, ScheduleInv
<1>. QED
  BY <1>1, <1>2, <1>3, <1>4 DEF StartInv

(* The bot's life: the builder's errors and plugins, the main loop's order *)
(* of work, what help lists and what is scheduled.                         *)
THEOREM StartInvariant == Spec => []StartInv
<1>1. StartInv /\ [Next]_vars => StartInv'
  BY BuildStep, PluginsStep, LoopInvStep, HelpStep, ScheduleStep DEF StartInv
<1>. QED
  BY <1>1, StartInit, PTL DEF Spec

(* Whatever calls of the builder fail, and whichever of them would not     *)
(* have been made: Build returns the first error, or a bot that has all of *)
(* the chain's plugins and closers.                                        *)
THEOREM BuildsAllOrFirstError == Spec => []FirstErrorWins
<1>1. StartInv => FirstErrorWins
  <2>1. SUFFICES ASSUME StartInv PROVE FirstErrorWins
    OBVIOUS
  <2>2. ASSUME phase = "refused" PROVE failed # {} /\ err = Min(failed)
    <3>1. err \in failed /\ \A i \in failed : err <= i
      BY <2>1, <2>2 DEF StartInv, BuildInv
    <3>2. failed \subseteq Int
      BY <2>1 DEF StartInv, BuildInv
    <3>3. \A x \in failed : (\A y \in failed : x <= y) => x = err
      BY <3>1, <3>2
    <3>. QED
      BY <3>1, <3>3 DEF Min
  <2>3. ASSUME phase \notin Unbuilt
        PROVE  /\ failed = {}
               /\ \A i \in DOMAIN Chain : plugins[i] = Chain[i].plugin
               /\ ToSet(closers) = opened /\ IsInjective(closers)
    BY <2>1, <2>3, ChainType DEF StartInv, BuildInv, PluginsInv, Unbuilt
  <2>. QED
    BY <2>2, <2>3 DEF FirstErrorWins, Unbuilt
<1>. QED
  BY <1>1, StartInvariant, PTL

(* Wherever the scheduler's goroutine is while the main loop registers the *)
(* help plugin, and whichever schedules are refused: it starts with a task *)
(* for each valid action, and for each refused one a job without any.      *)
THEOREM AllValidSchedulesStart == Spec => []BadScheduleStopsNoOther
<1>1. StartInv => BadScheduleStopsNoOther
  <2>. SUFFICES ASSUME StartInv, scheduler = "started" PROVE BadScheduleStopsNoOther
    BY DEF BadScheduleStopsNoOther
  <2>1. Len(Chain) \in Nat /\ DOMAIN Chain = 1..Len(Chain)
    BY ChainType
  <2>2. scanned \in Nat /\ Len(Chain) <= scanned /\ jobs = JobsOf(scanned)
    <3>1. /\ scanned \in Nat /\ jobs = JobsOf(scanned) /\ scanned = Len(scan)
          /\ RangesOver(scan, scanned)
      <4>1. ScheduleInv /\ scheduler = "started"
        BY DEF StartInv
      <4>. QED
        BY <4>1 DEF ScheduleInv
    <3>2. Len(scan) \in {Len(Chain), Len(Chain) + 1}
      BY <3>1 DEF RangesOver
    <3>3. scanned \in Nat /\ (scanned = Len(Chain) \/ scanned = Len(Chain) + 1) /\ Len(Chain) \in Nat
      BY <2>1, <3>1, <3>2, Zenon
    <3>4. Len(Chain) <= scanned
      BY <3>3
    <3>. QED
      BY <3>1, <3>4, Zenon
  <2>. DEFINE actions(i) == Chain[i].plugin.scheduledActions
  <2>3. ASSUME NEW job
        PROVE  job \in jobs <=> \E i \in DOMAIN Chain : \E k \in DOMAIN actions(i) :
                                    job = Job(i, k, ~Refused(actions(i)[k]))
    <3>1. {j \in DOMAIN Chain : j <= scanned} = DOMAIN Chain
      BY <2>1, <2>2
    <3>2. jobs = UNION {Scheduled(i, Chain[i].plugin) : i \in DOMAIN Chain}
      BY <2>2, <3>1 DEF JobsOf
    <3>. QED
      BY <3>2 DEF Scheduled
  <2>. DEFINE With(i, k) == {job.task : job \in {j \in jobs : j.plugin = i /\ j.action = k}}
  <2>4. \A i, k, task : LET job == Job(i, k, task)
                        IN  job.plugin = i /\ job.action = k /\ job.task = task
    BY DEF Job
  <2>5. ASSUME NEW i \in DOMAIN Chain, NEW k \in DOMAIN actions(i)
        PROVE  With(i, k) = {~Refused(actions(i)[k])}
    <3>. DEFINE task == ~Refused(actions(i)[k])  job == Job(i, k, task)
    <3>1. job \in jobs /\ job.plugin = i /\ job.action = k /\ job.task = task
      BY <2>3, <2>4
    <3>2. ASSUME NEW other \in jobs, other.plugin = i, other.action = k PROVE other = job
      <4>1. PICK a \in DOMAIN Chain : \E b \in DOMAIN actions(a) :
                other = Job(a, b, ~Refused(actions(a)[b]))
        BY <2>3
      <4>2. PICK b \in DOMAIN actions(a) : other = Job(a, b, ~Refused(actions(a)[b]))
        BY <4>1
      <4>3. a = i /\ b = k
        BY <2>4, <3>2, <4>2
      <4>. QED
        BY <4>2, <4>3
    <3>. HIDE DEF job, task
    <3>3. With(i, k) = {task}
      BY <3>1, <3>2
    <3>. QED
      BY <3>3 DEF task
  <2>6. \A job \in jobs : job.plugin \in DOMAIN Chain
    BY <2>3, <2>4
  <2>. QED
    BY <2>5, <2>6 DEF BadScheduleStopsNoOther
<1>. QED
  BY <1>1, StartInvariant, PTL
-----------------------------------------------------------------------------
(* Which actions answer a message *)

ActionsOf(plugin, type) == IF type = "command" THEN plugin.commands ELSE plugin.hearActions

ActionResponse(plugin, type, i, e) ==
    [id |-> ActionID(plugin, type, i),
     options |-> ActionsOf(plugin, type)[i].options \o ReplyOptions(e)]

(* What messages are routed to.                                            *)
Routable ==
    /\ IsSequence(plugins)
    /\ \A i \in DOMAIN plugins : \A type \in {"command", "hearAction"} :
          LET actions == ActionsOf(plugins[i], type)
          IN  IsSequence(actions) /\ \A k \in DOMAIN actions : IsSequence(actions[k].options)

LEMMA RegisteredPlugins ==
    ASSUME BuildInv, PluginsInv, LoopInv, err = None
    PROVE  \A i \in DOMAIN plugins :
               \/ i \in DOMAIN Chain /\ plugins[i] = Chain[i].plugin
               \/ i = Len(Chain) + 1 /\ plugins[i] = HelpPlugin
<1>1. calls \in 0..Len(Chain) /\ Len(Chain) \in Nat /\ DOMAIN Chain = 1..Len(Chain)
  BY ChainType DEF BuildInv
<1>2. mainLoop \in Completed => calls = Len(Chain)
  BY DEF LoopInv, BuildInv, Preparing, Unbuilt, Completed
<1>3. DOMAIN plugins = 1..Len(plugins)
  BY DEF PluginsInv
<1>4. /\ Len(plugins) = IF mainLoop \in Completed THEN calls + 1 ELSE calls
      /\ \A i \in 1..calls : plugins[i] = Chain[i].plugin
      /\ mainLoop \in Completed => plugins[Len(Chain) + 1] = HelpPlugin
  BY DEF PluginsInv
<1>5. CASE mainLoop \in Completed
  BY <1>1, <1>2, <1>3, <1>4, <1>5
<1>6. CASE mainLoop \notin Completed
  BY <1>1, <1>3, <1>4, <1>6
<1>. QED
  BY <1>5, <1>6

LEMMA PluginsRoutable ==
    ASSUME BuildInv, PluginsInv, LoopInv, err = None
    PROVE  Routable
<1>1. IsSequence(plugins)
  BY IsSequenceIntro DEF PluginsInv
<1>2. ASSUME NEW i \in DOMAIN Chain, NEW type \in {"command", "hearAction"}
      PROVE  LET actions == ActionsOf(Chain[i].plugin, type)
             IN  IsSequence(actions) /\ \A k \in DOMAIN actions : IsSequence(actions[k].options)
  BY ActionsAssumption DEF ActionsAssumption, ActionsOf
<1>3. ASSUME NEW type \in {"command", "hearAction"}
      PROVE  LET actions == ActionsOf(HelpPlugin, type)
             IN  IsSequence(actions) /\ \A k \in DOMAIN actions : IsSequence(actions[k].options)
  <2>1. IsSequence(<<>>)
    <3>1. <<>> \in Seq({})
      OBVIOUS
    <3>. QED
      BY <3>1, IsSequenceIntro
  <2>2. IsSequence(<<AnswerInThread>>)
    <3>1. <<AnswerInThread>> \in Seq({AnswerInThread})
      OBVIOUS
    <3>. QED
      BY <3>1, IsSequenceIntro
  <2>3. ASSUME type = "command"
        PROVE  /\ ActionsOf(HelpPlugin, type) = HelpPlugin.commands
               /\ \A k \in DOMAIN HelpPlugin.commands :
                     HelpPlugin.commands[k].options = <<AnswerInThread>>
    BY <2>3 DEF ActionsOf, HelpPlugin
  <2>4. ASSUME type # "command" PROVE ActionsOf(HelpPlugin, type) = <<>>
    BY <2>4 DEF ActionsOf, HelpPlugin
  <2>. QED
    BY <2>1, <2>2, <2>3, <2>4, HelpPluginSequence
<1>. QED
  BY <1>1, <1>2, <1>3, RegisteredPlugins DEF Routable

(* Each action is tried by itself, whatever the ones before it answered.   *)
LEMMA ActionsTried ==
    ASSUME NEW plugin, NEW type \in {"command", "hearAction"},
           NEW actions, actions = ActionsOf(plugin, type), IsSequence(actions),
           NEW text, NEW e, NEW out, out = TryPluginActions(plugin, type, actions, text, e)
    PROVE  /\ IsSequence(out)
           /\ \A k \in DOMAIN out : \E i \in DOMAIN actions :
                 Answers(actions[i], text) /\ out[k] = ActionResponse(plugin, type, i, e)
           /\ \A i \in DOMAIN actions : Answers(actions[i], text) =>
                 \E k \in DOMAIN out : out[k] = ActionResponse(plugin, type, i, e)
           /\ DistinctIDs(out, {})
<1>. DEFINE r(i) == ActionResponse(plugin, type, i, e)
            S == {r(i) : i \in DOMAIN actions}
            row(i) == IF Answers(actions[i], text) THEN <<r(i)>> ELSE <<>>
            seqs == [i \in DOMAIN actions |-> row(i)]
<1>1. Len(actions) \in Nat /\ DOMAIN actions = 1..Len(actions)
  BY Sequences
<1>2. out = FlattenSeq(seqs)
  BY DEF TryPluginActions, ActionResponse
<1>3. \A i, j : r(i).id = r(j).id => i = j
  BY DEF ActionResponse, ActionID
<1>. HIDE DEF r
<1>4. \A i : Answers(actions[i], text) => row(i) = <<r(i)>>
  OBVIOUS
<1>5. \A i : ~Answers(actions[i], text) => row(i) = <<>>
  OBVIOUS
<1>. HIDE DEF row
<1>6. ASSUME NEW i \in DOMAIN actions
      PROVE  /\ seqs[i] = row(i) /\ seqs[i] \in Seq(S)
             /\ \A j \in DOMAIN seqs[i] : j = 1 /\ Answers(actions[i], text) /\ seqs[i][j] = r(i)
             /\ Answers(actions[i], text) => 1 \in DOMAIN seqs[i] /\ seqs[i][1] = r(i)
  <2>1. seqs[i] = row(i) /\ r(i) \in S
    OBVIOUS
  <2>. HIDE DEF S, seqs
  <2>2. CASE Answers(actions[i], text)
    <3>1. seqs[i] = <<r(i)>>
      BY <1>4, <2>1, <2>2
    <3>. QED
      BY <2>1, <2>2, <3>1
  <2>3. CASE ~Answers(actions[i], text)
    <3>1. seqs[i] = <<>>
      BY <1>5, <2>1, <2>3
    <3>. QED
      BY <2>1, <2>3, <3>1
  <2>. QED
    BY <2>2, <2>3
<1>7. seqs \in Seq(Seq(S)) /\ DOMAIN seqs = DOMAIN actions
  <2>1. DOMAIN seqs = DOMAIN actions /\ seqs = [i \in DOMAIN actions |-> seqs[i]]
    OBVIOUS
  <2>. HIDE DEF S, seqs
  <2>. QED
    BY <1>1, <1>6, <2>1
<1>. HIDE DEF S, seqs
<1>8. DistinctInputs(seqs, {})
  BY <1>3, <1>6, <1>7 DEF DistinctInputs
<1>9. /\ out \in Seq(S) /\ DistinctIDs(out, {})
      /\ \A k \in DOMAIN out :
            \E i \in DOMAIN seqs : \E j \in DOMAIN seqs[i] : out[k] = seqs[i][j]
      /\ \A i \in DOMAIN seqs : \A j \in DOMAIN seqs[i] :
            \E k \in DOMAIN out : out[k] = seqs[i][j]
  BY <1>2, <1>7, <1>8, FlattenSeqElements
<1>10. IsSequence(out)
  BY <1>9, IsSequenceIntro
<1>11. ASSUME NEW k \in DOMAIN out
       PROVE  \E i \in DOMAIN actions : Answers(actions[i], text) /\ out[k] = r(i)
  <2>1. PICK i \in DOMAIN actions : \E j \in DOMAIN seqs[i] : out[k] = seqs[i][j]
    BY <1>7, <1>9
  <2>. QED
    BY <1>6, <2>1
<1>12. ASSUME NEW i \in DOMAIN actions, Answers(actions[i], text)
       PROVE  \E k \in DOMAIN out : out[k] = r(i)
  <2>1. 1 \in DOMAIN seqs[i] /\ seqs[i][1] = r(i)
    BY <1>6, <1>12
  <2>. QED
    BY <1>7, <1>9, <2>1
<1>. QED
  BY <1>9, <1>10, <1>11, <1>12 DEF r

(* A response is one of an action of a registered plugin.                  *)
IsActionResponse(response, type, e) ==
    \E p \in DOMAIN plugins : \E i \in DOMAIN ActionsOf(plugins[p], type) :
        response = ActionResponse(plugins[p], type, i, e)

(* The plugins' responses, one plugin after the other.                     *)
LEMMA PluginsTried ==
    ASSUME Routable, NEW type \in {"command", "hearAction"}, NEW e,
           NEW seqs, IsSequence(seqs), DOMAIN seqs = DOMAIN plugins,
           \A p \in DOMAIN plugins :
               /\ IsSequence(seqs[p]) /\ DistinctIDs(seqs[p], {})
               /\ \A j \in DOMAIN seqs[p] : \E i \in DOMAIN ActionsOf(plugins[p], type) :
                     seqs[p][j] = ActionResponse(plugins[p], type, i, e),
           NEW out, out = FlattenSeq(seqs)
    PROVE  /\ IsSequence(out) /\ DistinctIDs(out, SharedNames)
           /\ \A k \in DOMAIN out : IsActionResponse(out[k], type, e)
           /\ \A p \in DOMAIN plugins : \A j \in DOMAIN seqs[p] :
                 \E k \in DOMAIN out : out[k] = seqs[p][j]
<1>. DEFINE S == UNION {ToSet(seqs[p]) : p \in DOMAIN plugins}
<1>1. Len(plugins) \in Nat /\ DOMAIN plugins = 1..Len(plugins)
  BY Sequences DEF Routable
<1>2. ASSUME NEW p \in DOMAIN plugins PROVE seqs[p] \in Seq(S)
  <2>1. seqs[p] \in Seq(ToSet(seqs[p])) /\ ToSet(seqs[p]) \subseteq S
    BY DEF IsSequence
  <2>. HIDE DEF S
  <2>. QED
    BY <2>1, SeqMonotonic
<1>. HIDE DEF S
<1>3. seqs \in Seq(Seq(S))
  <2>1. seqs \in Seq(ToSet(seqs))
    BY DEF IsSequence
  <2>2. ToSet(seqs) \subseteq Seq(S)
    BY <1>2 DEF ToSet
  <2>. QED
    BY <2>1, <2>2, SeqMonotonic
<1>4. \A p, i : ActionResponse(plugins[p], type, i, e).id = <<plugins[p].name, type, i>>
  BY DEF ActionResponse, ActionID
<1>5. ASSUME NEW p \in DOMAIN seqs, NEW q \in DOMAIN seqs,
             NEW a \in DOMAIN seqs[p], NEW b \in DOMAIN seqs[q], seqs[p][a].id = seqs[q][b].id
      PROVE  (p = q /\ a = b) \/ seqs[p][a].id[1] \in SharedNames
  <2>1. PICK i : seqs[p][a] = ActionResponse(plugins[p], type, i, e)
    OBVIOUS
  <2>2. PICK j : seqs[q][b] = ActionResponse(plugins[q], type, j, e)
    OBVIOUS
  <2>3. plugins[p].name = plugins[q].name
    <3>1. seqs[p][a].id = <<plugins[p].name, type, i>>
      BY <1>4, <2>1
    <3>2. seqs[q][b].id = <<plugins[q].name, type, j>>
      BY <1>4, <2>2
    <3>. DEFINE x == seqs[p][a].id
    <3>3. x = <<plugins[p].name, type, i>> /\ x = <<plugins[q].name, type, j>>
      BY <1>5, <3>1, <3>2
    <3>. HIDE DEF x
    <3>. QED
      BY <3>3
  <2>5. p = q \/ plugins[p].name \in SharedNames
    <3>1. CASE p # q
      <4>1. p \in DOMAIN plugins /\ q \in DOMAIN plugins \ {p} /\ plugins[q].name = plugins[p].name
        BY <2>3, <3>1
      <4>2. p \in {m \in DOMAIN plugins :
                     \E k \in DOMAIN plugins \ {m} : plugins[k].name = plugins[m].name}
        BY <4>1
      <4>. QED
        BY <4>2 DEF SharedNames
    <3>. QED
      BY <3>1
  <2>6. seqs[p][a].id[1] = plugins[p].name
    <3>1. seqs[p][a].id = <<plugins[p].name, type, i>>
      BY <1>4, <2>1
    <3>2. <<plugins[p].name, type, i>>[1] = plugins[p].name
      OBVIOUS
    <3>. QED
      BY <3>1, <3>2
  <2>4. DistinctIDs(seqs[p], {})
    OBVIOUS
  <2>. QED
    BY <1>5, <2>4, <2>5, <2>6 DEF DistinctIDs
<1>6. /\ out \in Seq(S)
      /\ \A k \in DOMAIN out :
            \E i \in DOMAIN seqs : \E j \in DOMAIN seqs[i] : out[k] = seqs[i][j]
      /\ \A i \in DOMAIN seqs : \A j \in DOMAIN seqs[i] :
            \E k \in DOMAIN out : out[k] = seqs[i][j]
      /\ DistinctIDs(out, SharedNames)
  <2>1. DistinctInputs(seqs, SharedNames)
    BY <1>5 DEF DistinctInputs
  <2>. QED
    BY <1>3, <2>1, FlattenSeqElements
<1>7. IsSequence(out)
  BY <1>6, IsSequenceIntro
<1>8. ASSUME NEW k \in DOMAIN out PROVE IsActionResponse(out[k], type, e)
  <2>1. PICK p \in DOMAIN seqs : \E j \in DOMAIN seqs[p] : out[k] = seqs[p][j]
    BY <1>6
  <2>. QED
    BY <2>1 DEF IsActionResponse
<1>. QED
  BY <1>6, <1>7, <1>8
LEMMA CommandsTried ==
    ASSUME Routable, NEW e, NEW p \in DOMAIN plugins, NEW out, out = TryCommands(plugins[p], e)
    PROVE  /\ IsSequence(out) /\ DistinctIDs(out, {})
           /\ \A j \in DOMAIN out : \E i \in DOMAIN ActionsOf(plugins[p], "command") :
                 out[j] = ActionResponse(plugins[p], "command", i, e)
           /\ \A i \in DOMAIN ActionsOf(plugins[p], "command") :
                 /\ MatchedNamespace(plugins[p], NormalizedText(e))
                 /\ Answers(ActionsOf(plugins[p], "command")[i],
                            WithoutNamespace(plugins[p], NormalizedText(e)))
                 => \E j \in DOMAIN out : out[j] = ActionResponse(plugins[p], "command", i, e)
<1>. DEFINE actions == ActionsOf(plugins[p], "command")
            text == WithoutNamespace(plugins[p], NormalizedText(e))
<1>1. actions = plugins[p].commands
  BY DEF ActionsOf
<1>2. IsSequence(actions)
  BY DEF Routable
<1>3. CASE MatchedNamespace(plugins[p], NormalizedText(e))
  <2>1. out = TryPluginActions(plugins[p], "command", actions, text, e)
    BY <1>1, <1>3 DEF TryCommands
  <2>. HIDE DEF text
  <2>2. /\ IsSequence(out) /\ DistinctIDs(out, {})
        /\ \A k \in DOMAIN out : \E i \in DOMAIN actions :
              Answers(actions[i], text) /\ out[k] = ActionResponse(plugins[p], "command", i, e)
        /\ \A i \in DOMAIN actions : Answers(actions[i], text) =>
              \E k \in DOMAIN out : out[k] = ActionResponse(plugins[p], "command", i, e)
    <3>. HIDE DEF actions
    <3>1. actions = ActionsOf(plugins[p], "command")
      BY DEF actions
    <3>. QED
      BY <1>2, <2>1, <3>1, ActionsTried
  <2>. QED
    BY <2>2 DEF text
<1>4. CASE ~MatchedNamespace(plugins[p], NormalizedText(e))
  <2>1. out = <<>>
    BY <1>4 DEF TryCommands
  <2>2. IsSequence(out)
    <3>1. <<>> \in Seq({})
      OBVIOUS
    <3>. QED
      BY <2>1, <3>1, IsSequenceIntro
  <2>3. DOMAIN out = {}
    BY <2>1
  <2>. QED
    BY <1>4, <2>2, <2>3 DEF DistinctIDs
<1>. QED
  BY <1>3, <1>4

LEMMA HearActionsTried ==
    ASSUME Routable, NEW e, NEW p \in DOMAIN plugins, NEW out, out = TryHearActions(plugins[p], e)
    PROVE  /\ IsSequence(out) /\ DistinctIDs(out, {})
           /\ \A j \in DOMAIN out : \E i \in DOMAIN ActionsOf(plugins[p], "hearAction") :
                 out[j] = ActionResponse(plugins[p], "hearAction", i, e)
<1>. DEFINE actions == ActionsOf(plugins[p], "hearAction")
<1>1. actions = plugins[p].hearActions
  BY DEF ActionsOf
<1>2. IsSequence(actions)
  BY DEF Routable
<1>3. out = TryPluginActions(plugins[p], "hearAction", actions, NormalizedText(e), e)
  BY <1>1 DEF TryHearActions
<1>. HIDE DEF actions
<1>4. actions = ActionsOf(plugins[p], "hearAction")
  BY DEF actions
<1>5. /\ IsSequence(out) /\ DistinctIDs(out, {})
      /\ \A k \in DOMAIN out : \E i \in DOMAIN actions :
            /\ Answers(actions[i], NormalizedText(e))
            /\ out[k] = ActionResponse(plugins[p], "hearAction", i, e)
  BY <1>2, <1>3, <1>4, ActionsTried
<1>. QED
  BY <1>4, <1>5

(* The plugins' responses to a command.                                    *)
CommandResponses(e) == FlattenSeq([p \in DOMAIN plugins |-> TryCommands(plugins[p], e)])

LEMMA CommandResponsesOf ==
    ASSUME Routable, NEW e, NEW out, out = CommandResponses(e)
    PROVE  /\ IsSequence(out) /\ DistinctIDs(out, SharedNames)
           /\ \A k \in DOMAIN out : IsActionResponse(out[k], "command", e)
           /\ \A p \in DOMAIN plugins : \A i \in DOMAIN ActionsOf(plugins[p], "command") :
                 /\ MatchedNamespace(plugins[p], NormalizedText(e))
                 /\ Answers(ActionsOf(plugins[p], "command")[i],
                            WithoutNamespace(plugins[p], NormalizedText(e)))
                 => \E k \in DOMAIN out : out[k] = ActionResponse(plugins[p], "command", i, e)
<1>. DEFINE seqs == [p \in DOMAIN plugins |-> TryCommands(plugins[p], e)]
<1>1. /\ DOMAIN seqs = DOMAIN plugins
      /\ \A p \in DOMAIN plugins : seqs[p] = TryCommands(plugins[p], e)
  OBVIOUS
<1>2. IsSequence(seqs)
  <2>1. Len(plugins) \in Nat /\ DOMAIN plugins = 1..Len(plugins)
    BY Sequences DEF Routable
  <2>2. seqs \in Seq({TryCommands(plugins[p], e) : p \in DOMAIN plugins})
    BY <2>1
  <2>. QED
    BY <2>2, IsSequenceIntro
<1>3. out = FlattenSeq(seqs)
  BY DEF CommandResponses
<1>. HIDE DEF seqs
<1>4. \A p \in DOMAIN plugins :
          /\ IsSequence(seqs[p]) /\ DistinctIDs(seqs[p], {})
          /\ \A j \in DOMAIN seqs[p] : \E i \in DOMAIN ActionsOf(plugins[p], "command") :
                seqs[p][j] = ActionResponse(plugins[p], "command", i, e)
  BY <1>1, CommandsTried
<1>5. /\ IsSequence(out) /\ DistinctIDs(out, SharedNames)
      /\ \A k \in DOMAIN out : IsActionResponse(out[k], "command", e)
      /\ \A p \in DOMAIN plugins : \A j \in DOMAIN seqs[p] :
            \E k \in DOMAIN out : out[k] = seqs[p][j]
  BY <1>1, <1>2, <1>3, <1>4, PluginsTried
<1>6. ASSUME NEW p \in DOMAIN plugins, NEW j \in DOMAIN seqs[p]
      PROVE  \E k \in DOMAIN out : out[k] = seqs[p][j]
  BY <1>5
<1>7. ASSUME NEW p \in DOMAIN plugins, NEW i \in DOMAIN ActionsOf(plugins[p], "command"),
             MatchedNamespace(plugins[p], NormalizedText(e)),
             Answers(ActionsOf(plugins[p], "command")[i],
                     WithoutNamespace(plugins[p], NormalizedText(e)))
      PROVE  \E k \in DOMAIN out : out[k] = ActionResponse(plugins[p], "command", i, e)
  <2>1. PICK j \in DOMAIN seqs[p] : seqs[p][j] = ActionResponse(plugins[p], "command", i, e)
    BY <1>1, <1>7, CommandsTried
  <2>. QED
    BY <1>6, <2>1
<1>. QED
  BY <1>5, <1>7

(* The plugins' responses to a message that is no command.                 *)
HearResponses(e) == FlattenSeq([p \in DOMAIN plugins |-> TryHearActions(plugins[p], e)])

LEMMA HearResponsesOf ==
    ASSUME Routable, NEW e, NEW out, out = HearResponses(e)
    PROVE  /\ IsSequence(out) /\ DistinctIDs(out, SharedNames)
           /\ \A k \in DOMAIN out : IsActionResponse(out[k], "hearAction", e)
<1>. DEFINE seqs == [p \in DOMAIN plugins |-> TryHearActions(plugins[p], e)]
<1>1. /\ DOMAIN seqs = DOMAIN plugins
      /\ \A p \in DOMAIN plugins : seqs[p] = TryHearActions(plugins[p], e)
  OBVIOUS
<1>2. IsSequence(seqs)
  <2>1. Len(plugins) \in Nat /\ DOMAIN plugins = 1..Len(plugins)
    BY Sequences DEF Routable
  <2>2. seqs \in Seq({TryHearActions(plugins[p], e) : p \in DOMAIN plugins})
    BY <2>1
  <2>. QED
    BY <2>2, IsSequenceIntro
<1>3. out = FlattenSeq(seqs)
  BY DEF HearResponses
<1>. HIDE DEF seqs
<1>4. \A p \in DOMAIN plugins :
          /\ IsSequence(seqs[p]) /\ DistinctIDs(seqs[p], {})
          /\ \A j \in DOMAIN seqs[p] : \E i \in DOMAIN ActionsOf(plugins[p], "hearAction") :
                seqs[p][j] = ActionResponse(plugins[p], "hearAction", i, e)
  BY <1>1, HearActionsTried
<1>. QED
  BY <1>1, <1>2, <1>3, <1>4, PluginsTried
LEMMA RouteCommandOf ==
    ASSUME NEW e
    PROVE  RouteCommand(e) = IF CommandResponses(e) = <<>> THEN <<DefaultAnswer(e)>>
                                                            ELSE CommandResponses(e)
BY DEF RouteCommand, CommandResponses

(* What help shows of a command is addressed to its plugin, and answered.  *)
LEMMA HelpTriggers ==
    ASSUME StartInv, UsagesAnswered
    PROVE  HelpIsAccurate
<1>. SUFFICES ASSUME NEW command \in help
     PROVE  LET written == [prefixed |-> TRUE, namespace |-> command.namespace,
                            body |-> command.usage]
                responses == RouteCommand(Event("user", FALSE, "public", 0, written))
            IN  \E k \in DOMAIN responses : responses[k].id = command.id
  BY DEF HelpIsAccurate
<1>. DEFINE written == [prefixed |-> TRUE, namespace |-> command.namespace,
                        body |-> command.usage]
            e == Event("user", FALSE, "public", 0, written)
            text == NormalizedText(e)
<1>1. err = None /\ calls = Len(Chain) /\ Routable
  BY PluginsRoutable DEF StartInv, HelpInv, LoopInv, BuildInv, Preparing, Unbuilt
<1>2. PICK i \in DOMAIN Chain : \E k \in DOMAIN Chain[i].plugin.commands :
          /\ ~Chain[i].plugin.commands[k].hidden /\ Chain[i].plugin.commands[k].usage # ""
          /\ command.id = ActionID(Chain[i].plugin, "command", k)
          /\ command.usage = Chain[i].plugin.commands[k].usage
          /\ command.namespace = HelpNamespace(Chain[i].plugin)
  BY DEF StartInv, HelpInv
<1>. DEFINE plugin == Chain[i].plugin
<1>3. PICK k \in DOMAIN plugin.commands :
          /\ ~plugin.commands[k].hidden
          /\ command.id = ActionID(plugin, "command", k)
          /\ command.usage = plugin.commands[k].usage
          /\ command.namespace = HelpNamespace(plugin)
  BY <1>2
<1>4. i \in DOMAIN plugins /\ plugins[i] = plugin
  <2>1. i \in 1..calls /\ calls \in Nat
    BY <1>1, ChainType
  <2>. QED
    BY <1>1, <2>1 DEF StartInv, PluginsInv
<1>5. command.usage \in plugin.commands[k].matches \ plugin.commands[k].answersNil
  BY <1>3 DEF UsagesAnswered
<1>6. text = [prefixed |-> FALSE, namespace |-> command.namespace, body |-> command.usage]
  BY DEF NormalizedText, IsDirectMessage, Event
<1>. HIDE DEF text
<1>7. /\ MatchedNamespace(plugin, text)
      /\ Answers(plugin.commands[k], WithoutNamespace(plugin, text))
  <2>1. CASE Namespaced(plugin)
    <3>1. command.namespace = plugin.name
      BY <1>3, <2>1 DEF HelpNamespace, Namespaced
    <3>. DEFINE rest == WithoutNamespace(plugin, text)
    <3>2. rest = [prefixed |-> FALSE, namespace |-> "", body |-> command.usage]
      BY <1>6, <2>1 DEF WithoutNamespace
    <3>3. MatchedNamespace(plugin, text)
      BY <1>6, <3>1 DEF MatchedNamespace
    <3>. HIDE DEF rest, plugin
    <3>4. rest.prefixed = FALSE /\ rest.namespace = "" /\ rest.body = command.usage
      BY <3>2
    <3>5. Answers(plugin.commands[k], rest)
      BY <1>5, <3>4 DEF Answers
    <3>. QED
      BY <3>3, <3>5 DEF rest
  <2>2. CASE ~Namespaced(plugin)
    <3>1. command.namespace = ""
      BY <1>3, <2>2 DEF HelpNamespace, Namespaced
    <3>2. WithoutNamespace(plugin, text) = text
      BY <2>2 DEF WithoutNamespace
    <3>3. MatchedNamespace(plugin, text)
      BY <2>2 DEF MatchedNamespace
    <3>4. text.prefixed = FALSE /\ text.namespace = "" /\ text.body = command.usage
      BY <1>6, <3>1
    <3>. HIDE DEF plugin
    <3>5. Answers(plugin.commands[k], text)
      BY <1>5, <3>4 DEF Answers
    <3>. QED
      BY <3>2, <3>3, <3>5
  <2>. QED
    BY <2>1, <2>2
<1>. DEFINE out == CommandResponses(e)
<1>8. PICK l \in DOMAIN out : out[l] = ActionResponse(plugins[i], "command", k, e)
  <2>1. ActionsOf(plugins[i], "command") = plugin.commands
    BY <1>4 DEF ActionsOf
  <2>2. /\ k \in DOMAIN ActionsOf(plugins[i], "command")
        /\ MatchedNamespace(plugins[i], NormalizedText(e))
        /\ Answers(ActionsOf(plugins[i], "command")[k],
                   WithoutNamespace(plugins[i], NormalizedText(e)))
    BY <1>4, <1>7, <2>1 DEF text
  <2>. HIDE DEF e, plugin, out
  <2>3. out = CommandResponses(e)
    BY DEF out
  <2>4. \A p \in DOMAIN plugins : \A c \in DOMAIN ActionsOf(plugins[p], "command") :
            /\ MatchedNamespace(plugins[p], NormalizedText(e))
            /\ Answers(ActionsOf(plugins[p], "command")[c],
                       WithoutNamespace(plugins[p], NormalizedText(e)))
            => \E l \in DOMAIN out : out[l] = ActionResponse(plugins[p], "command", c, e)
    BY <1>1, <2>3, CommandResponsesOf
  <2>. QED
    BY <1>4, <2>2, <2>4
<1>. HIDE DEF e, out
<1>9. out[l].id = command.id
  BY <1>3, <1>4, <1>8 DEF ActionResponse
<1>10. RouteCommand(e) = out
  <2>1. out # <<>>
    BY <1>8
  <2>. QED
    BY <2>1, RouteCommandOf DEF out
<1>11. \E j \in DOMAIN RouteCommand(e) : RouteCommand(e)[j].id = command.id
  BY <1>9, <1>10
<1>. QED
  BY <1>11 DEF e

(* Whichever plugins have namespaces, and whether or not the instance uses *)
(* them: what help shows of a command triggers it, if its own usage does.  *)
THEOREM HelpTellsWhatTriggers ==
    ASSUME UsagesAnswered PROVE Spec => []HelpIsAccurate
<1>1. StartInv => HelpIsAccurate
  BY HelpTriggers
<1>. QED
  BY <1>1, StartInvariant, PTL

IsResponse(response, e) ==
    \/ response = DefaultAnswer(e)
    \/ \E type \in {"command", "hearAction"} : IsActionResponse(response, type, e)

LEMMA ActionIsNotDefault ==
    ASSUME NEW e, NEW type, NEW response, IsActionResponse(response, type, e)
    PROVE  response.id # <<"default">>
<1>1. PICK p \in DOMAIN plugins : \E i : response = ActionResponse(plugins[p], type, i, e)
  BY DEF IsActionResponse
<1>2. PICK i : response = ActionResponse(plugins[p], type, i, e)
  BY <1>1
<1>3. response.id = <<plugins[p].name, type, i>>
  BY <1>2 DEF ActionResponse, ActionID
<1>4. Len(<<"default">>) = 1 /\ Len(<<plugins[p].name, type, i>>) = 3
  OBVIOUS
<1>. QED
  BY <1>3, <1>4

(* Which responses a message gets.                                         *)
LEMMA Routing ==
    ASSUME Routable, NEW e, NEW out, out = RouteMessage(e)
    PROVE  /\ IsSequence(out) /\ DistinctIDs(out, SharedNames)
           /\ \A k \in DOMAIN out : IsResponse(out[k], e)
           /\ e.author = "us" => out = <<>>
           /\ e.author # "us" /\ IsCommand(e) => out # <<>>
           /\ \A k \in DOMAIN out : out[k].id = <<"default">> =>
                 IsCommand(e) /\ \A l \in DOMAIN out : out[l].id = <<"default">>
<1>1. IsBot(e) <=> e.author = "us"
  BY DEF IsBot, NormalizedUser, OuterUser, OuterBotID
<1>2. CASE IsBot(e)
  <2>1. out = <<>>
    BY <1>2 DEF RouteMessage
  <2>2. IsSequence(<<>>)
    <3>1. <<>> \in Seq({})
      OBVIOUS
    <3>. QED
      BY <3>1, IsSequenceIntro
  <2>3. DOMAIN out = {}
    BY <2>1
  <2>. QED
    BY <1>1, <1>2, <2>1, <2>2, <2>3 DEF DistinctIDs
<1>3. CASE ~IsBot(e) /\ IsCommand(e)
  <2>. DEFINE responses == CommandResponses(e)
  <2>1. out = IF responses = <<>> THEN <<DefaultAnswer(e)>> ELSE responses
    BY <1>3, RouteCommandOf DEF RouteMessage
  <2>. HIDE DEF responses
  <2>2. CASE responses = <<>>
    <3>1. out = <<DefaultAnswer(e)>>
      BY <2>1, <2>2
    <3>2. <<DefaultAnswer(e)>> \in Seq({DefaultAnswer(e)})
      OBVIOUS
    <3>3. IsSequence(out)
      BY <3>1, <3>2, IsSequenceIntro
    <3>4. DOMAIN out = {1} /\ out[1] = DefaultAnswer(e) /\ out # <<>>
      BY <3>1
    <3>5. DefaultAnswer(e).id = <<"default">>
      BY DEF DefaultAnswer
    <3>. QED
      BY <1>1, <1>3, <3>3, <3>4, <3>5 DEF DistinctIDs, IsResponse
  <2>3. CASE responses # <<>>
    <3>1. out = CommandResponses(e) /\ out # <<>>
      BY <2>1, <2>3 DEF responses
    <3>2. /\ IsSequence(out) /\ DistinctIDs(out, SharedNames)
          /\ \A k \in DOMAIN out : IsActionResponse(out[k], "command", e)
      BY <3>1, CommandResponsesOf
    <3>3. \A k \in DOMAIN out : out[k].id # <<"default">>
      BY <3>2, ActionIsNotDefault
    <3>. QED
      BY <1>1, <1>3, <3>1, <3>2, <3>3 DEF IsResponse
  <2>. QED
    BY <2>2, <2>3
<1>4. CASE ~IsBot(e) /\ ~IsCommand(e)
  <2>1. out = HearResponses(e)
    BY <1>4 DEF RouteMessage, HearResponses
  <2>2. /\ IsSequence(out) /\ DistinctIDs(out, SharedNames)
        /\ \A k \in DOMAIN out : IsActionResponse(out[k], "hearAction", e)
    BY <2>1, HearResponsesOf
  <2>3. \A k \in DOMAIN out : out[k].id # <<"default">>
    BY <2>2, ActionIsNotDefault
  <2>. QED
    BY <1>1, <1>4, <2>2, <2>3 DEF IsResponse
<1>. QED
  BY <1>2, <1>3, <1>4
-----------------------------------------------------------------------------
(* What the bot sends *)

Post(response, i) ==
    LET to == Destination(response.options, i)
    IN  [event |-> i, action |-> response.id, thread |-> to.thread, broadcast |-> to.broadcast]

(* The posts of a step of the workers: those before, and the responses to  *)
(* the next event.                                                         *)
LEMMA RoutePosts ==
    ASSUME PostsInv, Routable, Route, NEW i, i = routed + 1,
           NEW responses, responses = RouteMessage(events[i])
    PROVE  /\ i \in DOMAIN events /\ routed' = i /\ i \in Nat /\ UNCHANGED <<events, plugins>>
           /\ IsSequence(posts') /\ IsSequence(responses)
           /\ \A k \in DOMAIN posts : k \in DOMAIN posts' /\ posts'[k] = posts[k]
           /\ \A k \in DOMAIN responses :
                 /\ Len(posts) + k \in DOMAIN posts'
                 /\ posts'[Len(posts) + k] = Post(responses[k], i)
           /\ \A k \in DOMAIN posts' :
                 \/ k \in DOMAIN posts
                 \/ \E j \in DOMAIN responses : k = Len(posts) + j
<1>. DEFINE t == [k \in DOMAIN responses |-> Post(responses[k], i)]
<1>1. posts' = posts \o t /\ routed' = i /\ UNCHANGED <<events, plugins>>
  <2>1. posts' = posts \o [k \in DOMAIN RouteMessage(events[routed + 1]) |->
                              Post(RouteMessage(events[routed + 1])[k], routed + 1)]
    BY DEF Route, Post
  <2>. QED
    BY <2>1 DEF Route
<1>2. IsSequence(responses)
  BY Routing
<1>3. IsSequence(t)
  <2>1. Len(responses) \in Nat /\ DOMAIN responses = 1..Len(responses)
    BY <1>2, Sequences
  <2>2. t \in Seq({Post(responses[k], i) : k \in DOMAIN responses})
    BY <2>1
  <2>. QED
    BY <2>2, IsSequenceIntro
<1>4. DOMAIN t = DOMAIN responses /\ \A k \in DOMAIN responses : t[k] = Post(responses[k], i)
  OBVIOUS
<1>. HIDE DEF t
<1>5. IsSequence(posts)
  BY DEF PostsInv
<1>6. /\ IsSequence(posts')
      /\ \A k \in DOMAIN posts : k \in DOMAIN posts' /\ posts'[k] = posts[k]
      /\ \A k \in DOMAIN t : Len(posts) + k \in DOMAIN posts' /\ posts'[Len(posts) + k] = t[k]
      /\ \A k \in DOMAIN posts' : k \in DOMAIN posts \/ \E j \in DOMAIN t : k = Len(posts) + j
  <2>. DEFINE u == posts \o t
  <2>1. posts' = u
    BY <1>1
  <2>2. u = posts \o t
    OBVIOUS
  <2>. HIDE DEF u
  <2>3. IsConcat(u, posts, t)
    BY <1>3, <1>5, <2>2, ConcatSequences
  <2>. QED
    BY <2>1, <2>3 DEF IsConcat
<1>7. i \in DOMAIN events /\ i \in Nat
  <2>1. Len(events) \in Nat /\ DOMAIN events = 1..Len(events) /\ routed \in Nat
    BY Sequences DEF PostsInv
  <2>2. routed < Len(events)
    BY DEF Route
  <2>. QED
    BY <2>1, <2>2
<1>. QED
  BY <1>1, <1>2, <1>4, <1>6, <1>7

LEMMA PostFields ==
    ASSUME NEW response, NEW i, NEW post, post = Post(response, i)
    PROVE  /\ post.event = i /\ post.action = response.id
           /\ post.thread = Destination(response.options, i).thread
           /\ post.broadcast = Destination(response.options, i).broadcast
BY DEF Post

LEMMA RouteStep ==
    ASSUME PostsInv, Routable, Route
    PROVE  PostsInv'
<1>. DEFINE i == routed + 1
            responses == RouteMessage(events[i])
<1>1. /\ i \in DOMAIN events /\ routed' = i /\ i \in Nat /\ UNCHANGED <<events, plugins>>
      /\ IsSequence(posts') /\ IsSequence(responses)
      /\ \A k \in DOMAIN posts : k \in DOMAIN posts' /\ posts'[k] = posts[k]
      /\ \A k \in DOMAIN responses :
            /\ Len(posts) + k \in DOMAIN posts'
            /\ posts'[Len(posts) + k] = Post(responses[k], i)
      /\ \A k \in DOMAIN posts' :
            \/ k \in DOMAIN posts
            \/ \E j \in DOMAIN responses : k = Len(posts) + j
  <2>. HIDE DEF i, responses
  <2>1. i = routed + 1 /\ responses = RouteMessage(events[i])
    BY DEF i, responses
  <2>. QED
    BY <2>1, RoutePosts
<1>2. /\ DistinctIDs(responses, SharedNames)
      /\ events[i].author = "us" => responses = <<>>
      /\ events[i].author # "us" /\ IsCommand(events[i]) => responses # <<>>
      /\ \A k \in DOMAIN responses : responses[k].id = <<"default">> =>
            IsCommand(events[i]) /\ \A l \in DOMAIN responses : responses[l].id = <<"default">>
  <2>. HIDE DEF i, responses
  <2>1. responses = RouteMessage(events[i])
    BY DEF responses
  <2>. QED
    BY <2>1, Routing
<1>3. /\ IsSequence(events) /\ routed \in Nat /\ routed <= Len(events) /\ i = routed + 1
      /\ Len(events) \in Nat /\ DOMAIN events = 1..Len(events)
      /\ Len(posts) \in Nat /\ DOMAIN posts = 1..Len(posts)
      /\ Len(responses) \in Nat /\ DOMAIN responses = 1..Len(responses)
  BY <1>1, Sequences DEF PostsInv
<1>. HIDE DEF i, responses
<1>4. \A k \in DOMAIN posts : posts[k].event \in 1..routed /\ events[posts[k].event].author # "us"
  BY DEF PostsInv
<1>5. ASSUME NEW k \in DOMAIN responses
      PROVE  /\ posts'[Len(posts) + k].event = i
             /\ posts'[Len(posts) + k].action = responses[k].id
  BY <1>1, PostFields
<1>6. events[i].author = "us" => DOMAIN responses = {}
  BY <1>2
<1>7. \A k \in DOMAIN posts' :
          posts'[k].event \in 1..routed' /\ events'[posts'[k].event].author # "us"
  <2>1. TAKE k \in DOMAIN posts'
  <2>2. CASE k \in DOMAIN posts
    BY <1>1, <1>3, <1>4, <2>2
  <2>3. CASE \E j \in DOMAIN responses : k = Len(posts) + j
    <3>1. PICK j \in DOMAIN responses : k = Len(posts) + j
      BY <2>3
    <3>2. posts'[k].event = i /\ events[i].author # "us"
      BY <1>5, <1>6, <3>1
    <3>. QED
      BY <1>1, <1>3, <3>2
  <2>. QED
    BY <1>1, <2>2, <2>3
<1>8. \A k \in DOMAIN posts : posts'[k] = posts[k] /\ posts[k].event # i
  BY <1>1, <1>3, <1>4
<1>9. OneAnswerPerAction'
  <2>0. SharedNames' = SharedNames
    BY <1>1 DEF SharedNames
  <2>1. ASSUME NEW k \in DOMAIN posts', NEW l \in DOMAIN posts',
               posts'[k].event = posts'[l].event, posts'[k].action = posts'[l].action
        PROVE  k = l \/ posts'[k].action[1] \in SharedNames
    <3>1. CASE k \in DOMAIN posts /\ l \in DOMAIN posts
      BY <1>8, <2>1, <3>1 DEF PostsInv, OneAnswerPerAction
    <3>2. CASE k \in DOMAIN posts /\ \E j \in DOMAIN responses : l = Len(posts) + j
      BY <1>5, <1>8, <2>1, <3>2
    <3>3. CASE l \in DOMAIN posts /\ \E j \in DOMAIN responses : k = Len(posts) + j
      BY <1>5, <1>8, <2>1, <3>3
    <3>4. CASE /\ \E j \in DOMAIN responses : k = Len(posts) + j
               /\ \E j \in DOMAIN responses : l = Len(posts) + j
      <4>1. PICK a \in DOMAIN responses : k = Len(posts) + a
        BY <3>4
      <4>2. PICK b \in DOMAIN responses : l = Len(posts) + b
        BY <3>4
      <4>3. responses[a].id = responses[b].id
        BY <1>5, <2>1, <4>1, <4>2
      <4>4. a = b \/ responses[a].id[1] \in SharedNames
        BY <1>2, <4>3 DEF DistinctIDs
      <4>. QED
        BY <1>5, <4>1, <4>2, <4>4
    <3>. QED
      BY <1>1, <3>1, <3>2, <3>3, <3>4
  <2>. QED
    BY <2>0, <2>1 DEF OneAnswerPerAction
<1>. DEFINE actions(n) == {posts[k].action : k \in {l \in DOMAIN posts : posts[l].event = n}}
            actions1(n) == {posts'[k].action : k \in {l \in DOMAIN posts' : posts'[l].event = n}}
<1>10. \A n \in 1..routed : actions1(n) = actions(n)
  <2>1. TAKE n \in 1..routed
  <2>2. n # i
    BY <1>3
  <2>3. {l \in DOMAIN posts' : posts'[l].event = n} = {l \in DOMAIN posts : posts[l].event = n}
    BY <1>1, <1>5, <1>8, <2>2
  <2>. QED
    BY <1>8, <2>3
<1>11. actions1(i) = {responses[k].id : k \in DOMAIN responses}
  <2>1. ASSUME NEW x \in actions1(i) PROVE x \in {responses[k].id : k \in DOMAIN responses}
    <3>1. PICK k \in DOMAIN posts' : posts'[k].event = i /\ x = posts'[k].action
      BY <2>1
    <3>2. PICK j \in DOMAIN responses : k = Len(posts) + j
      BY <1>1, <1>8, <3>1
    <3>. QED
      BY <1>5, <3>1, <3>2
  <2>2. ASSUME NEW k \in DOMAIN responses PROVE responses[k].id \in actions1(i)
    BY <1>1, <1>5
  <2>. QED
    BY <2>1, <2>2
<1>12. CommandsAnswered'
  <2>1. ASSUME NEW n \in 1..routed'
        PROVE  /\ events[n].author # "us" /\ IsCommand(events[n]) => actions1(n) # {}
               /\ <<"default">> \in actions1(n) =>
                     actions1(n) = {<<"default">>} /\ IsCommand(events[n])
    <3>1. CASE n \in 1..routed
      <4>1. /\ events[n].author # "us" /\ IsCommand(events[n]) => actions(n) # {}
            /\ <<"default">> \in actions(n) =>
                  actions(n) = {<<"default">>} /\ IsCommand(events[n])
        BY <3>1 DEF PostsInv, CommandsAnswered
      <4>2. actions1(n) = actions(n)
        BY <1>10, <3>1
      <4>. HIDE DEF actions, actions1
      <4>. QED
        BY <4>1, <4>2
    <3>2. CASE n = i
      <4>1. responses # <<>> => DOMAIN responses # {}
        BY <1>1 DEF IsSequence
      <4>2. actions1(n) = {responses[k].id : k \in DOMAIN responses}
        BY <1>11, <3>2
      <4>. HIDE DEF actions1
      <4>. QED
        BY <1>2, <3>2, <4>1, <4>2
    <3>. QED
      BY <1>1, <1>3, <2>1, <3>1, <3>2
  <2>2. \A n \in 1..routed' : IsCommand(events[n])' <=> IsCommand(events[n])
    BY <1>1 DEF IsCommand, IsDirectMessage
  <2>. QED
    BY <1>1, <2>1, <2>2 DEF CommandsAnswered, IsCommand, IsDirectMessage
<1>. QED
  BY <1>1, <1>3, <1>7, <1>9, <1>12 DEF PostsInv
LEMMA DeliverPosts ==
    ASSUME PostsInv, Deliver
    PROVE  PostsInv' /\ \A k \in DOMAIN events : k \in DOMAIN events' /\ events'[k] = events[k]
<1>1. PICK x : events' = Append(events, x)
  BY DEF Deliver, UserSays, Echo
<1>2. UNCHANGED <<routed, posts, plugins>>
  BY DEF Deliver, UserSays, Echo
<1>3. IsSequence(events)
  BY DEF PostsInv
<1>4. IsSequence(events') /\ Len(events') = Len(events) + 1
  BY <1>1, <1>3, AppendSequence
<1>5. \A k \in DOMAIN events : k \in DOMAIN events' /\ events'[k] = events[k]
  BY <1>1, <1>3, AppendSequence
<1>6. Len(events) \in Nat /\ DOMAIN events = 1..Len(events) /\ routed \in Nat /\ routed <= Len(events)
  BY <1>3, Sequences DEF PostsInv
<1>7. \A i \in 1..routed : events'[i] = events[i]
  BY <1>5, <1>6
<1>8. OneAnswerPerAction'
  BY <1>2 DEF PostsInv, OneAnswerPerAction, SharedNames
<1>9. CommandsAnswered'
  BY <1>2, <1>7 DEF PostsInv, CommandsAnswered, IsCommand, IsDirectMessage
<1>10. \A k \in DOMAIN posts :
           posts[k].event \in 1..routed /\ events'[posts[k].event].author # "us"
  BY <1>7 DEF PostsInv
<1>. QED
  BY <1>2, <1>4, <1>5, <1>6, <1>8, <1>9, <1>10 DEF PostsInv

AnswersInv == StartInv /\ PostsInv

LEMMA Quiet ==
    ASSUME [Next]_vars
    PROVE  config' = config /\ (UNCHANGED <<events, routed, posts>> \/ Deliver \/ Work)
BY DEF Next, vars, routingVars, NewBot, NextCall, MissingConfiguration, ConfigurationPanics,
       NotInstantiated, WithFailingPlugin, WithPlugin, Build, Run, LoopStep, NewHelpPlugin, RegisterHelpPlugin,
       InjectServices, StartWorkers, CacheSelfIdentity, Abort, Deliver, UserSays, Echo, Work,
       Route, SchedulerStep, RangeOverPlugins, RangeTorn, ScheduleActions, StartScheduler,
       ActionWithoutServices, Close

(* The plugins that are registered stay.                                   *)
LEMMA NamesStayShared ==
    ASSUME PluginsInv, [Next]_vars
    PROVE  SharedNames \subseteq SharedNames'
<1>1. UNCHANGED plugins \/ \E x : plugins' = Append(plugins, x)
  BY DEF Next, vars, NewBot, NextCall, MissingConfiguration, ConfigurationPanics, NotInstantiated,
         WithFailingPlugin, WithPlugin, Build, Run, LoopStep, NewHelpPlugin, RegisterHelpPlugin,
         InjectServices, StartWorkers, CacheSelfIdentity, Abort, Deliver, UserSays, Echo, Work,
         Route, SchedulerStep, RangeOverPlugins, RangeTorn, ScheduleActions, StartScheduler,
         ActionWithoutServices, Close
<1>2. IsSequence(plugins)
  BY IsSequenceIntro DEF PluginsInv
<1>3. \A i \in DOMAIN plugins : i \in DOMAIN plugins' /\ plugins'[i] = plugins[i]
  BY <1>1, <1>2, AppendSequence
<1>. QED
  BY <1>3 DEF SharedNames

LEMMA WorkRoutable ==
    ASSUME StartInv, Work
    PROVE  Routable /\ Route /\ err = None
<1>1. err = None
  BY DEF Work, Running, StartInv, BuildInv, Unbuilt
<1>. QED
  BY <1>1, PluginsRoutable DEF Work, StartInv

LEMMA AnswersStep ==
    ASSUME AnswersInv, [Next]_vars
    PROVE  AnswersInv'
<1>1. StartInv'
  BY BuildStep, PluginsStep, LoopInvStep, HelpStep, ScheduleStep DEF AnswersInv, StartInv
<1>2. ASSUME UNCHANGED <<events, routed, posts>> PROVE PostsInv'
  <2>1. OneAnswerPerAction'
    <3>1. SharedNames \subseteq SharedNames'
      BY NamesStayShared DEF AnswersInv, StartInv
    <3>. QED
      BY <1>2, <3>1 DEF AnswersInv, PostsInv, OneAnswerPerAction
  <2>2. CommandsAnswered'
    BY <1>2 DEF AnswersInv, PostsInv, CommandsAnswered, IsCommand, IsDirectMessage
  <2>3. IsSequence(events') /\ IsSequence(posts')
    BY <1>2 DEF AnswersInv, PostsInv
  <2>. QED
    BY <1>2, <2>1, <2>2, <2>3 DEF AnswersInv, PostsInv
<1>3. ASSUME Deliver PROVE PostsInv'
  BY <1>3, DeliverPosts DEF AnswersInv
<1>4. ASSUME Work PROVE PostsInv'
  BY <1>4, WorkRoutable, RouteStep DEF AnswersInv
<1>. QED
  BY <1>1, <1>2, <1>3, <1>4, Quiet DEF AnswersInv

LEMMA AnswersInit == Init => AnswersInv
<1>1. SUFFICES ASSUME Init PROVE PostsInv
  BY StartInit DEF AnswersInv
<1>2. events = <<>> /\ posts = <<>> /\ routed = 0
  BY <1>1 DEF Init, RoutingInit
<1>3. IsSequence(<<>>)
  <2>1. <<>> \in Seq({})
    OBVIOUS
  <2>. QED
    BY <2>1, IsSequenceIntro
<1>. QED
  BY <1>2, <1>3 DEF PostsInv, OneAnswerPerAction, CommandsAnswered

(* Every post answers a message that was handled, which never is the       *)
(* bot's own; a message's answers have different ids, and a command's are  *)
(* the default one only if there is no other (routeMessage).               *)
THEOREM AnswersInvariant == Spec => []AnswersInv
BY AnswersInit, AnswersStep, PTL DEF Spec

(* A message is handled only by a bot that is complete and knows itself.   *)
THEOREM ReadyFirst == Spec => []ReadyBeforeMessages
<1>1. AnswersInv => ReadyBeforeMessages
  <2>1. SUFFICES ASSUME AnswersInv, routed > 0
                 PROVE  identity /\ injected = Len(plugins) /\ Last(plugins) = HelpPlugin
    BY DEF ReadyBeforeMessages
  <2>2. events # <<>>
    BY <2>1 DEF AnswersInv, PostsInv
  <2>3. identity = TRUE /\ mainLoop \in {"looping", "over"}
    BY <2>1, <2>2 DEF AnswersInv, StartInv, LoopInv
  <2>4. injected = Len(plugins) /\ err = None /\ calls = Len(Chain)
    BY <2>1, <2>3 DEF AnswersInv, StartInv, LoopInv, BuildInv, Preparing, Unbuilt, Injected
  <2>5. Len(plugins) = Len(Chain) + 1 /\ plugins[Len(Chain) + 1] = HelpPlugin
    BY <2>1, <2>3, <2>4 DEF AnswersInv, StartInv, PluginsInv, Completed
  <2>. QED
    BY <2>3, <2>4, <2>5 DEF Last
<1>. QED
  BY <1>1, AnswersInvariant, PTL

(* Whatever Slack shows the bot of its own messages, updated ones as well, *)
(* it answers none of them.                                                *)
THEOREM NeverTalksToItself == Spec => []NeverAnswersItself
<1>1. AnswersInv => NeverAnswersItself
  BY DEF AnswersInv, PostsInv, NeverAnswersItself
<1>. QED
  BY <1>1, AnswersInvariant, PTL

(* The ids by which the response cache keeps the responses to a message    *)
(* are never the same for two of them, unless they are of plugins that     *)
(* have their name in common.                                              *)
THEOREM ActionsAnswerOnce == Spec => []OneAnswerPerAction
<1>1. AnswersInv => OneAnswerPerAction
  BY DEF AnswersInv, PostsInv
<1>. QED
  BY <1>1, AnswersInvariant, PTL

(* Every command is answered, by the default action if by no other, and    *)
(* nothing else is by the default action.                                  *)
THEOREM AllCommandsAnswered == Spec => []CommandsAnswered
<1>1. AnswersInv => CommandsAnswered
  BY DEF AnswersInv, PostsInv
<1>. QED
  BY <1>1, AnswersInvariant, PTL
-----------------------------------------------------------------------------
(* Where the answers go *)

(* The last option that sets an entry decides.                             *)
LEMMA LastOptionStays ==
    ASSUME NEW options, IsSequence(options), NEW name, NEW default, NEW j \in DOMAIN options,
           name \in DOMAIN options[j],
           \A i \in DOMAIN options : name \in DOMAIN options[i] => i <= j
    PROVE  Opt(ApplyAnswerOpts(options), name, default) = options[j][name]
<1>. DEFINE T == {i \in DOMAIN options : name \in DOMAIN options[i]}
            out == ApplyAnswerOpts(options)
<1>1. Max(T) = j
  <2>1. DOMAIN options \subseteq Int
    BY Sequences
  <2>2. j \in T /\ \A i \in T : i <= j
    OBVIOUS
  <2>3. T \subseteq Int
    BY <2>1
  <2>. HIDE DEF T
  <2>4. \A x \in T : (\A y \in T : x >= y) => x = j
    BY <2>2, <2>3
  <2>5. \A y \in T : j >= y
    BY <2>2, <2>3
  <2>. QED
    BY <2>2, <2>4, <2>5 DEF Max
<1>2. name \in DOMAIN out /\ out[name] = options[Max(T)][name]
  <2>1. name \in UNION {DOMAIN options[i] : i \in DOMAIN options}
    OBVIOUS
  <2>. QED
    BY <2>1 DEF ApplyAnswerOpts
<1>. QED
  BY <1>1, <1>2 DEF Opt

LEMMA UnsetOption ==
    ASSUME NEW options, NEW name, NEW default, \A i \in DOMAIN options : name \notin DOMAIN options[i]
    PROVE  Opt(ApplyAnswerOpts(options), name, default) = default
BY DEF Opt, ApplyAnswerOpts

LEMMA OptionDomains ==
    /\ \A ts : /\ DOMAIN AnswerInExistingThread(ts) = {"threadedReply", "threadTimestamp"}
               /\ AnswerInExistingThread(ts).threadedReply = TRUE
               /\ AnswerInExistingThread(ts).threadTimestamp = ts
    /\ DOMAIN AnswerWithoutThreading = {"threadedReply"}
    /\ AnswerWithoutThreading.threadedReply = FALSE
    /\ DOMAIN AnswerInThread = {"threadedReply"}
BY DEF AnswerInExistingThread, AnswerWithoutThreading, AnswerInThread

(* What slackscot adds for the message that is answered: its thread, and   *)
(* last, for a direct message, that there is to be none.                   *)
LEMMA ReplyOptionsOf ==
    ASSUME NEW e, NEW replies, replies = ReplyOptions(e)
    PROVE  /\ IsSequence(replies)
           /\ IsDirectMessage(e) => /\ Len(replies) \in DOMAIN replies
                                    /\ replies[Len(replies)] = AnswerWithoutThreading
           /\ ~IsDirectMessage(e) => Len(replies) <= 1
           /\ e.thread # 0 => /\ 1 \in DOMAIN replies
                              /\ replies[1] = AnswerInExistingThread(e.thread)
           /\ \A k \in DOMAIN replies :
                 k # 1 \/ e.thread = 0 => replies[k] = AnswerWithoutThreading
<1>. DEFINE a == AnswerInExistingThread(e.thread)
            b == AnswerWithoutThreading
            S == {a, b}
<1>1. a \in S /\ b \in S
  OBVIOUS
<1>2. replies = IF e.thread = 0 THEN IF IsDirectMessage(e) THEN <<b>> ELSE <<>>
                                ELSE IF IsDirectMessage(e) THEN <<a, b>> ELSE <<a>>
  BY DEF ReplyOptions, ExistingThread
<1>. HIDE DEF a, b, S
<1>3. replies \in Seq(S)
  BY <1>1, <1>2
<1>4. IsSequence(replies)
  BY <1>3, IsSequenceIntro
<1>. QED
  BY <1>2, <1>4 DEF a, b

(* What Whereabouts says of a message and its timestamp.                   *)
InContext(to, e, i) ==
    /\ to.thread \in IF IsDirectMessage(e) /\ ~config.threadedReplies THEN {0}
                     ELSE IF e.thread # 0 THEN {e.thread}
                     ELSE IF config.threadedReplies THEN {i}
                     ELSE {0, i}
    /\ to.broadcast => to.thread # 0

(* The thread of a response of an event, whatever the action's own options *)
(* are, as long as they name no thread.                                    *)
LEMMA DestinationOf ==
    ASSUME NEW own, IsSequence(own), NamesNoThread(own), NEW e, NEW i, i # 0,
           NEW options, options = own \o ReplyOptions(e), NEW to, to = Destination(options, i)
    PROVE  InContext(to, e, i)
<1>. DEFINE replies == ReplyOptions(e)
            n == Len(own)
            threadedReply == Opt(ApplyAnswerOpts(options), "threadedReply", FALSE)
            threadTimestamp == Opt(ApplyAnswerOpts(options), "threadTimestamp", i)
            threaded == config.threadedReplies \/ threadedReply
<1>1. /\ to.thread = IF threaded THEN threadTimestamp ELSE 0
      /\ to.broadcast => threaded
  BY DEF Destination
<1>2. /\ IsSequence(replies)
      /\ IsDirectMessage(e) => Len(replies) \in DOMAIN replies
                                  /\ replies[Len(replies)] = AnswerWithoutThreading
      /\ ~IsDirectMessage(e) => Len(replies) <= 1
      /\ e.thread # 0 => 1 \in DOMAIN replies /\ replies[1] = AnswerInExistingThread(e.thread)
      /\ \A k \in DOMAIN replies : k # 1 \/ e.thread = 0 => replies[k] = AnswerWithoutThreading
  BY ReplyOptionsOf
<1>3. options = own \o replies
  OBVIOUS
<1>. HIDE DEF replies
<1>4. /\ IsSequence(options) /\ Len(options) = n + Len(replies)
      /\ \A k \in DOMAIN own : k \in DOMAIN options /\ options[k] = own[k]
      /\ \A k \in DOMAIN replies : n + k \in DOMAIN options /\ options[n + k] = replies[k]
  <2>1. IsSequence(replies)
    BY <1>2
  <2>2. IsConcat(options, own, replies)
    BY <1>3, <2>1, ConcatSequences
  <2>. QED
    BY <2>2 DEF IsConcat
<1>6. /\ n \in Nat /\ DOMAIN own = 1..n
      /\ Len(replies) \in Nat /\ DOMAIN replies = 1..Len(replies)
      /\ DOMAIN options = 1..(n + Len(replies))
  BY <1>2, <1>4, Sequences
<1>5. ASSUME NEW k \in DOMAIN options, k \notin DOMAIN own
      PROVE  \E j \in DOMAIN replies : k = n + j
  <2>1. n \in Int /\ Len(replies) \in Int /\ k \in n + 1..n + Len(replies)
    BY <1>6, <1>5
  <2>. HIDE DEF n
  <2>2. k - n \in DOMAIN replies /\ k = n + (k - n)
    BY <1>6, <2>1
  <2>. QED
    BY <2>2
<1>7. IsDirectMessage(e) => threadedReply = FALSE
  <2>1. SUFFICES ASSUME IsDirectMessage(e) PROVE threadedReply = FALSE
    OBVIOUS
  <2>2. n + Len(replies) \in DOMAIN options
        /\ options[n + Len(replies)] = AnswerWithoutThreading
    BY <1>2, <1>4, <2>1
  <2>3. \A k \in DOMAIN options : k <= n + Len(replies)
    BY <1>6
  <2>. DEFINE last == n + Len(replies)
              no == FALSE
  <2>4. "threadedReply" \in DOMAIN options[last]
    BY <2>2, OptionDomains
  <2>9. options[last]["threadedReply"] = FALSE
    BY <2>2, OptionDomains
  <2>8. threadedReply = Opt(ApplyAnswerOpts(options), "threadedReply", no)
    OBVIOUS
  <2>5. IsSequence(options) /\ last \in DOMAIN options
    BY <1>4, <2>2
  <2>6. \A k \in DOMAIN options : "threadedReply" \in DOMAIN options[k] => k <= last
    BY <2>3
  <2>. HIDE DEF last, no, threadedReply
  <2>7. Opt(ApplyAnswerOpts(options), "threadedReply", no) = options[last]["threadedReply"]
    BY <2>4, <2>5, <2>6, LastOptionStays
  <2>. QED
    BY <2>7, <2>8, <2>9
<1>8. e.thread # 0 => threadTimestamp = e.thread
  <2>1. SUFFICES ASSUME e.thread # 0 PROVE threadTimestamp = e.thread
    OBVIOUS
  <2>2. n + 1 \in DOMAIN options /\ options[n + 1] = AnswerInExistingThread(e.thread)
    BY <1>2, <1>4, <2>1
  <2>3. ASSUME NEW k \in DOMAIN options, "threadTimestamp" \in DOMAIN options[k] PROVE k <= n + 1
    <3>1. CASE k \in DOMAIN own
      BY <1>6, <3>1
    <3>2. CASE k \notin DOMAIN own
      <4>1. PICK j \in DOMAIN replies : k = n + j
        BY <1>5, <3>2
      <4>2. options[k] = replies[j]
        BY <1>4, <4>1
      <4>3. j = 1
        <5>1. SUFFICES ASSUME j # 1 PROVE FALSE
          OBVIOUS
        <5>2. options[k] = AnswerWithoutThreading
          BY <1>2, <4>1, <4>2, <5>1
        <5>. QED
          BY <2>3, <5>2, OptionDomains
      <4>. QED
        BY <1>6, <4>1, <4>3
    <3>. QED
      BY <3>1, <3>2
  <2>. DEFINE last == n + 1
  <2>4. "threadTimestamp" \in DOMAIN options[last] /\ options[last]["threadTimestamp"] = e.thread
    BY <2>2, OptionDomains
  <2>5. IsSequence(options) /\ last \in DOMAIN options
    BY <1>4, <2>2
  <2>6. \A k \in DOMAIN options : "threadTimestamp" \in DOMAIN options[k] => k <= last
    BY <2>3
  <2>. HIDE DEF last
  <2>7. Opt(ApplyAnswerOpts(options), "threadTimestamp", i) = options[last]["threadTimestamp"]
    BY <2>4, <2>5, <2>6, LastOptionStays
  <2>. QED
    BY <2>4, <2>7
<1>9. e.thread = 0 => threadTimestamp = i
  <2>1. SUFFICES ASSUME e.thread = 0 PROVE threadTimestamp = i
    OBVIOUS
  <2>2. ASSUME NEW k \in DOMAIN options PROVE "threadTimestamp" \notin DOMAIN options[k]
    <3>1. CASE k \in DOMAIN own
      BY <1>4, <3>1 DEF NamesNoThread
    <3>2. CASE k \notin DOMAIN own
      <4>1. PICK j \in DOMAIN replies : k = n + j
        BY <1>5, <3>2
      <4>2. options[k] = AnswerWithoutThreading
        BY <1>2, <1>4, <2>1, <4>1
      <4>. QED
        BY <4>2, OptionDomains
    <3>. QED
      BY <3>1, <3>2
  <2>. QED
    BY <2>2, UnsetOption
<1>10. ~IsDirectMessage(e) /\ e.thread # 0 => threadedReply = TRUE
  <2>1. SUFFICES ASSUME ~IsDirectMessage(e), e.thread # 0 PROVE threadedReply = TRUE
    OBVIOUS
  <2>2. n + 1 \in DOMAIN options /\ options[n + 1] = AnswerInExistingThread(e.thread)
    BY <1>2, <1>4, <2>1
  <2>3. \A k \in DOMAIN options : k <= n + 1
    BY <1>2, <1>6, <2>1
  <2>. DEFINE last == n + 1
              no == FALSE
  <2>4. "threadedReply" \in DOMAIN options[last]
    BY <2>2, OptionDomains
  <2>9. options[last]["threadedReply"] = TRUE
    BY <2>2, OptionDomains
  <2>8. threadedReply = Opt(ApplyAnswerOpts(options), "threadedReply", no)
    OBVIOUS
  <2>5. IsSequence(options) /\ last \in DOMAIN options
    BY <1>4, <2>2
  <2>6. \A k \in DOMAIN options : "threadedReply" \in DOMAIN options[k] => k <= last
    BY <2>3
  <2>. HIDE DEF last, no, threadedReply
  <2>7. Opt(ApplyAnswerOpts(options), "threadedReply", no) = options[last]["threadedReply"]
    BY <2>4, <2>5, <2>6, LastOptionStays
  <2>. QED
    BY <2>7, <2>8, <2>9
<1>. HIDE DEF threadedReply, threadTimestamp
<1>11. threadTimestamp # 0
  BY <1>8, <1>9
<1>15. /\ threaded \/ ~threaded
       /\ config.threadedReplies \/ threadedReply = TRUE => threaded
       /\ ~config.threadedReplies /\ threadedReply = FALSE => ~threaded
  OBVIOUS
<1>. HIDE DEF threaded
<1>12. CASE IsDirectMessage(e) /\ ~config.threadedReplies
  BY <1>1, <1>7, <1>12, <1>15 DEF InContext
<1>13. CASE ~(IsDirectMessage(e) /\ ~config.threadedReplies) /\ e.thread # 0
  BY <1>1, <1>8, <1>10, <1>11, <1>13, <1>15 DEF InContext
<1>14. CASE ~(IsDirectMessage(e) /\ ~config.threadedReplies) /\ e.thread = 0
  BY <1>1, <1>9, <1>11, <1>14, <1>15 DEF InContext
<1>. QED
  BY <1>12, <1>13, <1>14
(* A response has its action's options and then slackscot's.               *)
LEMMA OptionsOf ==
    ASSUME StartInv, err = None, NoActionNamesThread, NEW e, NEW response, IsResponse(response, e)
    PROVE  \E own : /\ IsSequence(own) /\ NamesNoThread(own)
                    /\ response.options = own \o ReplyOptions(e)
<1>1. CASE response = DefaultAnswer(e)
  <2>. DEFINE replies == ReplyOptions(e)
  <2>1. response.options = replies
    BY <1>1 DEF DefaultAnswer
  <2>2. IsSequence(replies)
    BY ReplyOptionsOf
  <2>. HIDE DEF replies
  <2>3. replies \in Seq(ToSet(replies))
    BY <2>2, Sequences
  <2>4. <<>> \o replies = replies
    BY <2>3
  <2>5. <<>> \in Seq({})
    OBVIOUS
  <2>6. IsSequence(<<>>)
    BY <2>5, IsSequenceIntro
  <2>7. DOMAIN <<>> = {}
    OBVIOUS
  <2>. QED
    BY <2>1, <2>4, <2>6, <2>7 DEF replies, NamesNoThread
<1>2. CASE \E type \in {"command", "hearAction"} : IsActionResponse(response, type, e)
  <2>1. PICK type \in {"command", "hearAction"} : IsActionResponse(response, type, e)
    BY <1>2
  <2>2. PICK p \in DOMAIN plugins :
            \E i \in DOMAIN ActionsOf(plugins[p], type) :
                response = ActionResponse(plugins[p], type, i, e)
    BY <2>1 DEF IsActionResponse
  <2>3. PICK i \in DOMAIN ActionsOf(plugins[p], type) :
            response = ActionResponse(plugins[p], type, i, e)
    BY <2>2
  <2>. DEFINE own == ActionsOf(plugins[p], type)[i].options
  <2>4. response.options = own \o ReplyOptions(e)
    BY <2>3 DEF ActionResponse
  <2>5. IsSequence(own)
    BY PluginsRoutable DEF StartInv, Routable
  <2>6. NamesNoThread(own)
    <3>1. CASE p \in DOMAIN Chain /\ plugins[p] = Chain[p].plugin
      <4>1. ActionsOf(plugins[p], type) \in {Chain[p].plugin.commands, Chain[p].plugin.hearActions}
        BY <3>1 DEF ActionsOf
      <4>. QED
        BY <3>1, <4>1 DEF NoActionNamesThread
    <3>2. CASE plugins[p] = HelpPlugin
      <4>1. ActionsOf(plugins[p], type) # <<>>
        <5>1. DOMAIN <<>> = {}
          OBVIOUS
        <5>. QED
          BY <2>3, <5>1
      <4>2. ActionsOf(plugins[p], type) \in {HelpPlugin.commands, HelpPlugin.hearActions}
        BY <3>2 DEF ActionsOf
      <4>4. HelpPlugin.hearActions = <<>>
        BY DEF HelpPlugin
      <4>5. DOMAIN HelpPlugin.commands = {1}
            /\ HelpPlugin.commands[1].options = <<AnswerInThread>>
        BY DEF HelpPlugin
      <4>6. ActionsOf(plugins[p], type) = HelpPlugin.commands /\ i = 1
        BY <2>3, <4>1, <4>2, <4>4, <4>5
      <4>3. own = <<AnswerInThread>>
        BY <4>5, <4>6
      <4>. HIDE DEF own
      <4>. QED
        BY <4>3, OptionDomains DEF NamesNoThread
    <3>. QED
      BY <3>1, <3>2, RegisteredPlugins DEF StartInv
  <2>. QED
    BY <2>4, <2>5, <2>6
<1>. QED
  BY <1>1, <1>2 DEF IsResponse

PostInContext(post) ==
    /\ events[post.event].edited \/ post.thread \in Whereabouts(post.event)
    /\ post.broadcast => post.thread # 0

LEMMA ResponseInContext ==
    ASSUME StartInv, err = None, NoActionNamesThread, NEW i, i # 0,
           NEW response, IsResponse(response, events[i])
    PROVE  PostInContext(Post(response, i))
<1>. DEFINE e == events[i]
            post == Post(response, i)
            options == response.options
            to == Destination(options, i)
<1>1. PICK own : /\ IsSequence(own)
                 /\ NamesNoThread(own)
                 /\ options = own \o ReplyOptions(e)
  BY OptionsOf
<1>2. post.event = i /\ post.thread = to.thread /\ post.broadcast = to.broadcast
  BY PostFields
<1>. HIDE DEF e, options
<1>3. to = Destination(options, i)
  OBVIOUS
<1>. HIDE DEF to, post
<1>4. InContext(to, e, i)
  BY <1>1, <1>3, DestinationOf
<1>5. to.thread \in Whereabouts(i)
  BY <1>4 DEF Whereabouts, InContext, e
<1>. QED
  BY <1>2, <1>4, <1>5 DEF PostInContext, InContext, post

LEMMA ContextStep ==
    ASSUME AnswersInv, NoActionNamesThread, RepliesInContext, [Next]_vars
    PROVE  RepliesInContext'
<1>1. config' = config
  BY Quiet
<1>2. ASSUME UNCHANGED <<events, posts>> PROVE RepliesInContext'
  BY <1>1, <1>2 DEF RepliesInContext, Whereabouts, IsDirectMessage
<1>3. ASSUME Deliver PROVE RepliesInContext'
  <2>1. posts' = posts
    BY <1>3 DEF Deliver, UserSays, Echo
  <2>2. \A k \in DOMAIN events : events'[k] = events[k]
    BY <1>3, DeliverPosts DEF AnswersInv
  <2>3. IsSequence(events) /\ routed \in Nat /\ routed <= Len(events)
    BY DEF AnswersInv, PostsInv
  <2>4. \A k \in DOMAIN posts : posts[k].event \in DOMAIN events
    BY <2>3, Sequences DEF AnswersInv, PostsInv
  <2>5. \A i \in DOMAIN events : Whereabouts(i)' = Whereabouts(i)
    BY <1>1, <2>2 DEF Whereabouts, IsDirectMessage
  <2>. QED
    BY <2>1, <2>2, <2>4, <2>5 DEF RepliesInContext
<1>4. ASSUME Work PROVE RepliesInContext'
  <2>. DEFINE i == routed + 1
              responses == RouteMessage(events[i])
  <2>1. PostsInv /\ Routable /\ Route /\ err = None /\ StartInv
    BY <1>4, WorkRoutable DEF AnswersInv
  <2>2. i = routed + 1 /\ responses = RouteMessage(events[i])
    OBVIOUS
  <2>. HIDE DEF i, responses
  <2>3. /\ i \in Nat /\ UNCHANGED events
        /\ \A k \in DOMAIN posts : k \in DOMAIN posts' /\ posts'[k] = posts[k]
    BY <2>1, <2>2, RoutePosts
  <2>4. \A k \in DOMAIN responses :
            /\ Len(posts) + k \in DOMAIN posts'
            /\ posts'[Len(posts) + k] = Post(responses[k], i)
    BY <2>1, <2>2, RoutePosts
  <2>5. \A k \in DOMAIN posts' :
            k \in DOMAIN posts \/ \E j \in DOMAIN responses : k = Len(posts) + j
    BY <2>1, <2>2, RoutePosts
  <2>6. i # 0
    BY <2>1, <2>2 DEF PostsInv
  <2>7. \A k \in DOMAIN responses : IsResponse(responses[k], events[i])
    BY <2>1, <2>2, Routing
  <2>8. \A k \in DOMAIN responses : PostInContext(Post(responses[k], i))
    BY <2>1, <2>6, <2>7, ResponseInContext
  <2>9. \A k \in DOMAIN posts : PostInContext(posts[k])
    BY DEF RepliesInContext, PostInContext
  <2>10. \A k \in DOMAIN posts' : PostInContext(posts'[k])
    BY <2>3, <2>4, <2>5, <2>8, <2>9
  <2>11. \A n : Whereabouts(n)' = Whereabouts(n)
    BY <1>1, <2>3 DEF Whereabouts, IsDirectMessage
  <2>. QED
    BY <2>3, <2>10, <2>11 DEF RepliesInContext, PostInContext
<1>. QED
  BY <1>2, <1>3, <1>4, Quiet

(* Whatever options the actions give their answers, of those that name no  *)
(* thread themselves, and however the instance is configured: no answer    *)
(* leaves the conversation that it belongs to.                             *)
THEOREM RepliesStayInContext ==
    ASSUME NoActionNamesThread PROVE Spec => []RepliesInContext
<1>1. Init => RepliesInContext
  BY DEF Init, RoutingInit, RepliesInContext
<1>2. AnswersInv /\ RepliesInContext /\ [Next]_vars => RepliesInContext'
  BY ContextStep
<1>. QED
  BY <1>1, <1>2, AnswersInvariant, PTL DEF Spec
=============================================================================
