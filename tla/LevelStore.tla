----------------------------- MODULE LevelStore -----------------------------
(***************************************************************************)
(* The file storage of a plugin's state (store/leveldb.go): silo and key   *)
(* are encoded as one key of a LevelDB database, which executes the calls  *)
(* of the message processing goroutines one at a time.                     *)
(***************************************************************************)
EXTENDS Integers, SequencesExt

CONSTANTS
    Letters,          \* what silos and keys are written with
    Silos,            \* the silos, as sequences of letters
    Names,            \* the keys in a silo, as sequences of letters
    Values,           \* the values stored
    noString,         \* the empty string, which may be one of them
    siloKeyDelimiter  \* the letter between silo and key

ASSUME LettersAssumption ==
    /\ Silos \subseteq Seq(Letters) /\ Names \subseteq Seq(Letters)
    /\ siloKeyDelimiter \in Letters

(* Slack's channel ids, and the silo of none, are without the delimiter.   *)
ASSUME SilosAssumption == \A s \in Silos : ~Contains(s, siloKeyDelimiter)

VARIABLES
    database,    \* the entry of every encoded key: {v} or, for none, {}
    closed       \* the database was closed: all calls return an error, as
                 \* each may on an open one

storeVars == <<database, closed>>

Entries == {{}} \cup {{v} : v \in Values}
Keys == Silos \X Names

(* MUTANT of SiloPrefix: the silo alone.                                   *)
SiloPrefixPlain(silo) == silo

SiloPrefix(silo) == Append(silo, siloKeyDelimiter)
EncodeKey(silo, key) == SiloPrefix(silo) \o key
RawKeys == {EncodeKey(k[1], k[2]) : k \in Keys}

Stored == {raw \in RawKeys : database[raw] # {}}

(* strings.Split gives two parts when there is one delimiter.              *)
Decodable(raw) == Cardinality({i \in DOMAIN raw : raw[i] = siloKeyDelimiter}) = 1

DecodeKey(raw) ==
    LET i == CHOOSE j \in DOMAIN raw : raw[j] = siloKeyDelimiter
    IN  <<SubSeq(raw, 1, i - 1), SubSeq(raw, i + 1, Len(raw))>>

(* What a lookup finds that returns no error.  To those who look at the    *)
(* value alone an error, no entry and the empty string are one.            *)
GetSiloString(silo, key) == database[EncodeKey(silo, key)]
TakenForNone == {{}, {noString}}

(* The entries of a silo, the keys decoded; or an error if one of them     *)
(* cannot be, or if the iterator had one, as on a closed database.         *)
InSilo(silo) == {raw \in Stored : IsPrefix(SiloPrefix(silo), raw)}
ScanFails(silo) == \E raw \in InSilo(silo) : ~Decodable(raw)
CanScan(silo) == ~closed /\ ~ScanFails(silo)

ScanSilo(silo) ==
    [n \in Names |-> UNION {database[raw] : raw \in {r \in InSilo(silo) : DecodeKey(r)[2] = n}}]

(* The entries by silo of all keys, or an error if one cannot be decoded.  *)
GlobalScanFails == \E raw \in Stored : ~Decodable(raw)

GlobalScan ==
    [k \in Keys |-> UNION {database[raw] : raw \in {r \in Stored : DecodeKey(r) = k}}]

(* NewLevelDB opens a database with what was stored in earlier runs.       *)
NewLevelDB(content) ==
    /\ closed = FALSE
    /\ database = [raw \in RawKeys |->
        content[CHOOSE k \in Keys : EncodeKey(k[1], k[2]) = raw]]

(* A put and a delete differ in the entry they leave only.                 *)
Write(silo, key, entry) ==
    /\ ~closed
    /\ database' = [database EXCEPT ![EncodeKey(silo, key)] = entry]
    /\ UNCHANGED closed

(* Once, and not under a call.                                             *)
Close ==
    /\ ~closed /\ closed' = TRUE
    /\ UNCHANGED database

-----------------------------------------------------------------------------
(* A scan of a silo has what the keys of that silo were given, and nothing *)
(* of another silo; the scan of all silos has the same as their scans, and *)
(* a key fails it just if it fails one of them: a key is decoded to what   *)
(* was encoded.                                                            *)
ScansAgree ==
    /\ \A s \in Silos : ScanFails(s) \/ ScanSilo(s) = [n \in Names |-> GetSiloString(s, n)]
    /\ GlobalScanFails <=> \E s \in Silos : ScanFails(s)
    /\ GlobalScanFails \/ \A s \in Silos, n \in Names : GlobalScan[<<s, n>>] = ScanSilo(s)[n]

(* "ScanSilo returns the complete set of key/values from the database in   *)
(* the given silo" (leveldb.go:130), the delimiter being "not a valid UTF8 *)
(* character" (leveldb.go:21), so that no key has it.                      *)
ScansSucceed == \A s \in Silos : ~ScanFails(s)
=============================================================================
