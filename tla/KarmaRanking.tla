---------------------------- MODULE KarmaRanking ----------------------------
(***************************************************************************)
(* The reports of the karma plugin: the first or last so many things of a  *)
(* channel, or of all channels together, as the memory of the storage has  *)
(* them at the moment.                                                     *)
(***************************************************************************)
EXTENDS Storage, SequencesExt

ASSUME ChannelsAssumption == IsFiniteSet(Silos)

(* The karma of an entry; a missing one counts as 0.                       *)
Points(entry) == IF entry = {} THEN 0 ELSE CHOOSE v \in entry : TRUE

(* What a silo has, and what all of them have: karma by thing.             *)
ScanChannelKarma(s) == [n \in Present(s, memory) |-> Points(memory[<<s, n>>])]

(* MUTANT of MergeKarma: the karma of the channel scanned last counts.     *)
MergeLatest(entries, chEntries) == chEntries @@ entries

MergeKarma(entries, chEntries) ==
    [n \in DOMAIN entries \cup DOMAIN chEntries |->
        (IF n \in DOMAIN entries THEN entries[n] ELSE 0)
            + (IF n \in DOMAIN chEntries THEN chEntries[n] ELSE 0)]

ScanGlobalKarma ==
    FoldSet(LAMBDA s, entries : MergeKarma(entries, ScanChannelKarma(s)), <<>>, Silos)

Position(n) == CHOOSE i \in DOMAIN NameOrder : NameOrder[i] = n

(* pairList: the order of sort.Sort, names compared as strings.            *)
Less(p, q) ==
    \/ p.value < q.value
    \/ p.value = q.value /\ Position(p.key) > Position(q.key)

ConvertToPairs(entries) == {[key |-> n, value |-> entries[n]] : n \in DOMAIN entries}

SortWorst(pairs) ==
    CHOOSE seq \in SetToSeqs(pairs) : \A i, j \in DOMAIN seq : i < j => Less(seq[i], seq[j])
SortTop(pairs) ==
    CHOOSE seq \in SetToSeqs(pairs) : \A i, j \in DOMAIN seq : i < j => Less(seq[j], seq[i])

GetRankedList(sorted, count) ==
    SubSeq(sorted, 1, IF Len(sorted) < count THEN Len(sorted) ELSE count)

KarmaReport(entries, top, count) ==
    LET pairs == ConvertToPairs(entries)
    IN  GetRankedList(IF top THEN SortTop(pairs) ELSE SortWorst(pairs), count)

-----------------------------------------------------------------------------
Total(channels, n) == MapThenSumSet(LAMBDA s : Points(memory[<<s, n>>]), channels)

(* A report lists as many of the things with karma as it was asked for, in *)
(* their places: so many things are before the i-th by their karma in all  *)
(* of the channels, and by name if it is the same, and none else is left   *)
(* out.                                                                    *)
RanksByTotal(report, channels, top, count) ==
    LET things == UNION {Present(s, memory) : s \in channels}
        key(i) == report[i].key
        Before(m, n) ==
            \/ IF top THEN Total(channels, m) > Total(channels, n)
                      ELSE Total(channels, m) < Total(channels, n)
            \/ /\ Total(channels, m) = Total(channels, n)
               /\ IF top THEN Position(m) < Position(n)
                         ELSE Position(m) > Position(n)
    IN  /\ Len(report) = Min({count, Cardinality(things)})
        /\ \A i \in DOMAIN report :
               /\ key(i) \in things /\ report[i].value = Total(channels, key(i))
               /\ Cardinality({n \in things : Before(n, key(i))}) = i - 1

(* "top" and "worst" rank a channel's things, "global top" and "global     *)
(* worst" those of all channels with their karma added up (karma.go:304),  *)
(* whatever is being stored meanwhile.                                     *)
ReportsRankByTotal ==
    up => \A top \in BOOLEAN, count \in 0..(Cardinality(Names) + 1) :
        /\ RanksByTotal(KarmaReport(ScanGlobalKarma, top, count), Silos, top, count)
        /\ \A s \in Silos :
               RanksByTotal(KarmaReport(ScanChannelKarma(s), top, count), {s}, top, count)
=============================================================================
