-------------------------- MODULE Triggerer_proofs --------------------------
(***************************************************************************)
(* Whatever the silos and keys are, if no silo has the delimiter: a raw    *)
(* key stands for one silo and key, and a scan that does not fail has just *)
(* what was put.  And whatever the workers, the channels, the triggers and *)
(* their letters, and however commands, scans and the closing of the       *)
(* storage interleave: the bot reacts as registered, misses no trigger,    *)
(* forgets one at most and tells the truth.                                *)
(***************************************************************************)
EXTENDS Triggerer, SequenceTheorems, FiniteSetTheorems, TLAPS

(* A raw key, letter by letter.                                            *)
LEMMA Encoded ==
    ASSUME NEW s \in Silos, NEW n \in Names
    PROVE  LET raw == EncodeKey(s, n) IN
           /\ s \in Seq(Letters) /\ n \in Seq(Letters) /\ raw \in Seq(Letters)
           /\ Len(s) \in Nat /\ Len(n) \in Nat
           /\ Len(raw) = Len(s) + 1 + Len(n)
           /\ raw[Len(s) + 1] = siloKeyDelimiter
           /\ \A k \in 1..Len(s) : raw[k] = s[k] /\ raw[k] # siloKeyDelimiter
           /\ \A k \in 1..Len(n) : raw[Len(s) + 1 + k] = n[k]
<1>. DEFINE raw == EncodeKey(s, n)
<1>1. s \in Seq(Letters) /\ n \in Seq(Letters) /\ siloKeyDelimiter \in Letters
  BY LettersAssumption, Zenon
<1>2. /\ SiloPrefix(s) \in Seq(Letters) /\ Len(SiloPrefix(s)) = Len(s) + 1
      /\ \A k \in 1..Len(s) : SiloPrefix(s)[k] = s[k]
      /\ SiloPrefix(s)[Len(s) + 1] = siloKeyDelimiter
  BY <1>1, AppendProperties DEF SiloPrefix
<1>3. Len(s) \in Nat /\ Len(n) \in Nat
  BY <1>1, LenProperties
<1>4. /\ raw \in Seq(Letters) /\ Len(raw) = Len(s) + 1 + Len(n)
      /\ \A k \in 1..(Len(s) + 1 + Len(n)) :
            raw[k] = IF k <= Len(s) + 1 THEN SiloPrefix(s)[k] ELSE n[k - (Len(s) + 1)]
  <2>. DEFINE pre == SiloPrefix(s)
  <2>1. raw = pre \o n /\ pre \in Seq(Letters) /\ Len(pre) = Len(s) + 1
    BY <1>2 DEF EncodeKey
  <2>. HIDE DEF pre, raw
  <2>2. /\ pre \o n \in Seq(Letters) /\ Len(pre \o n) = Len(pre) + Len(n)
        /\ \A k \in 1..(Len(pre) + Len(n)) :
              (pre \o n)[k] = IF k <= Len(pre) THEN pre[k] ELSE n[k - Len(pre)]
    BY <1>1, <2>1, ConcatProperties
  <2>. QED
    BY <2>1, <2>2 DEF pre
<1>. HIDE DEF raw
<1>5. raw[Len(s) + 1] = siloKeyDelimiter
  BY <1>2, <1>3, <1>4
<1>6. \A k \in 1..Len(s) : raw[k] = s[k] /\ s[k] # siloKeyDelimiter
  BY <1>2, <1>3, <1>4, SilosAssumption DEF Contains
<1>7. \A k \in 1..Len(n) : raw[Len(s) + 1 + k] = n[k]
  <2>. TAKE k \in 1..Len(n)
  <2>1. /\ Len(s) + 1 + k \in 1..(Len(s) + 1 + Len(n))
        /\ ~(Len(s) + 1 + k <= Len(s) + 1) /\ (Len(s) + 1 + k) - (Len(s) + 1) = k
    BY <1>3
  <2>. QED
    BY <1>4, <2>1
<1>. QED
  BY <1>1, <1>3, <1>4, <1>5, <1>6, <1>7 DEF raw

(* The delimiter of a key that can be decoded is the one after its silo.   *)
LEMMA OneDelimiter ==
    ASSUME NEW s \in Silos, NEW n \in Names, Decodable(EncodeKey(s, n)),
           NEW j \in 1..Len(EncodeKey(s, n)), EncodeKey(s, n)[j] = siloKeyDelimiter
    PROVE  j = Len(s) + 1
<1>. DEFINE raw == EncodeKey(s, n)
            P == {i \in DOMAIN raw : raw[i] = siloKeyDelimiter}
<1>1. /\ raw \in Seq(Letters) /\ Len(s) \in Nat /\ Len(n) \in Nat
      /\ Len(raw) = Len(s) + 1 + Len(n) /\ raw[Len(s) + 1] = siloKeyDelimiter
  BY Encoded
<1>2. DOMAIN raw = 1..Len(raw)
  BY <1>1, LenProperties
<1>3. IsFiniteSet(P)
  <2>1. P \subseteq 1..Len(raw)
    BY <1>2
  <2>2. IsFiniteSet(1..Len(raw))
    BY <1>1, FS_Interval
  <2>. QED
    BY <2>1, <2>2, FS_Subset
<1>4. PICK x : P = {x}
  BY <1>3, FS_Singleton DEF Decodable
<1>5. j \in P
  BY <1>2
<1>6. Len(s) + 1 \in P
  <2>. HIDE DEF raw
  <2>. QED
    BY <1>1, <1>2
<1>. QED
  BY <1>4, <1>5, <1>6

LEMMA Decoded ==
    ASSUME NEW s \in Silos, NEW n \in Names, Decodable(EncodeKey(s, n))
    PROVE  DecodeKey(EncodeKey(s, n)) = <<s, n>>
<1>. DEFINE raw == EncodeKey(s, n)
            i == CHOOSE j \in DOMAIN raw : raw[j] = siloKeyDelimiter
            before == SubSeq(raw, 1, i - 1)
            after == SubSeq(raw, i + 1, Len(raw))
<1>1. /\ s \in Seq(Letters) /\ n \in Seq(Letters) /\ raw \in Seq(Letters)
      /\ Len(s) \in Nat /\ Len(n) \in Nat
      /\ Len(raw) = Len(s) + 1 + Len(n) /\ raw[Len(s) + 1] = siloKeyDelimiter
      /\ \A k \in 1..Len(s) : raw[k] = s[k]
      /\ \A k \in 1..Len(n) : raw[Len(s) + 1 + k] = n[k]
  BY Encoded
<1>2. DOMAIN raw = 1..Len(raw) /\ \A k \in 1..Len(raw) : raw[k] \in Letters
  BY <1>1, LenProperties
<1>3. i = Len(s) + 1
  <2>1. Len(s) + 1 \in DOMAIN raw /\ raw[Len(s) + 1] = siloKeyDelimiter
    <3>. HIDE DEF raw
    <3>. QED
      BY <1>1, <1>2
  <2>2. i \in DOMAIN raw /\ raw[i] = siloKeyDelimiter
    BY <2>1, Zenon
  <2>. HIDE DEF i
  <2>. QED
    BY <1>2, <2>2, OneDelimiter
<1>. HIDE DEF i, raw
<1>4. before = s
  <2>1. /\ before \in Seq(Letters)
        /\ Len(before) = IF 1 <= i - 1 THEN (i - 1) - 1 + 1 ELSE 0
        /\ \A k \in 1..((i - 1) - 1 + 1) : before[k] = raw[1 + k - 1]
    <3>1. 1 \in Int /\ i - 1 \in Int /\ \A k \in 1..(i - 1) : raw[k] \in Letters
      BY <1>1, <1>2, <1>3
    <3>. QED
      BY <3>1, SubSeqProperties
  <2>2. Len(before) = Len(s) /\ \A k \in 1..Len(before) : before[k] = s[k]
    <3>. HIDE DEF before
    <3>. QED
      BY <1>1, <1>3, <2>1
  <2>. HIDE DEF before
  <2>. QED
    BY <1>1, <2>1, <2>2, SeqEqual
<1>5. after = n
  <2>1. /\ after \in Seq(Letters)
        /\ Len(after) = IF i + 1 <= Len(raw) THEN Len(raw) - (i + 1) + 1 ELSE 0
        /\ \A k \in 1..(Len(raw) - (i + 1) + 1) : after[k] = raw[(i + 1) + k - 1]
    <3>1. i + 1 \in Int /\ Len(raw) \in Int /\ \A k \in (i + 1)..Len(raw) : raw[k] \in Letters
      BY <1>1, <1>2, <1>3
    <3>. QED
      BY <3>1, SubSeqProperties
  <2>2. Len(after) = Len(n)
    <3>. HIDE DEF after
    <3>. QED
      BY <1>1, <1>3, <2>1
  <2>3. \A k \in 1..Len(after) : after[k] = n[k]
    <3>. HIDE DEF after
    <3>. TAKE k \in 1..Len(after)
    <3>1. /\ k \in 1..Len(n) /\ k \in 1..(Len(raw) - (i + 1) + 1)
          /\ (i + 1) + k - 1 = Len(s) + 1 + k
      BY <1>1, <1>3, <2>2
    <3>. QED
      BY <1>1, <2>1, <3>1
  <2>. HIDE DEF after
  <2>. QED
    BY <1>1, <2>1, <2>2, <2>3, SeqEqual
<1>. QED
  BY <1>4, <1>5 DEF DecodeKey, i, raw

(* Two silos and keys never share a raw key: the first delimiter ends the  *)
(* silo, whatever the key has.                                             *)
LEMMA EncodedOnce ==
    ASSUME NEW s \in Silos, NEW n \in Names, NEW t \in Silos, NEW m \in Names,
           EncodeKey(s, n) = EncodeKey(t, m)
    PROVE  s = t /\ n = m
<1>. DEFINE raw == EncodeKey(s, n)
            other == EncodeKey(t, m)
<1>1. /\ s \in Seq(Letters) /\ n \in Seq(Letters)
      /\ Len(s) \in Nat /\ Len(n) \in Nat
      /\ Len(raw) = Len(s) + 1 + Len(n) /\ raw[Len(s) + 1] = siloKeyDelimiter
      /\ \A k \in 1..Len(s) : raw[k] = s[k] /\ raw[k] # siloKeyDelimiter
      /\ \A k \in 1..Len(n) : raw[Len(s) + 1 + k] = n[k]
  BY Encoded
<1>2. /\ t \in Seq(Letters) /\ m \in Seq(Letters)
      /\ Len(t) \in Nat /\ Len(m) \in Nat
      /\ Len(other) = Len(t) + 1 + Len(m) /\ other[Len(t) + 1] = siloKeyDelimiter
      /\ \A k \in 1..Len(t) : other[k] = t[k] /\ other[k] # siloKeyDelimiter
      /\ \A k \in 1..Len(m) : other[Len(t) + 1 + k] = m[k]
  BY Encoded
<1>. other = raw
  OBVIOUS
<1>. HIDE DEF raw, other
<1>3. Len(s) = Len(t)
  <2>1. ~(Len(s) < Len(t))
    <3>1. Len(s) < Len(t) => Len(s) + 1 \in 1..Len(t)
      BY <1>1, <1>2
    <3>. QED
      BY <1>1, <1>2, <3>1
  <2>2. ~(Len(t) < Len(s))
    <3>1. Len(t) < Len(s) => Len(t) + 1 \in 1..Len(s)
      BY <1>1, <1>2
    <3>. QED
      BY <1>1, <1>2, <3>1
  <2>. QED
    BY <1>1, <1>2, <2>1, <2>2
<1>4. s = t
  BY <1>1, <1>2, <1>3, SeqEqual
<1>5. Len(n) = Len(m)
  BY <1>1, <1>2, <1>3
<1>6. \A k \in 1..Len(n) : n[k] = m[k]
  BY <1>1, <1>2, <1>3, <1>5
<1>. QED
  BY <1>1, <1>2, <1>4, <1>5, <1>6, SeqEqual

-----------------------------------------------------------------------------
StoreTypeOK == database \in [RawKeys -> Entries] /\ closed \in BOOLEAN

LEMMA IsRawKey == ASSUME NEW s \in Silos, NEW n \in Names PROVE EncodeKey(s, n) \in RawKeys
<1>. DEFINE k == <<s, n>>
<1>1. k \in Keys /\ k[1] = s /\ k[2] = n
  BY DEF Keys
<1>. HIDE DEF k
<1>2. EncodeKey(k[1], k[2]) \in RawKeys
  BY <1>1, Zenon DEF RawKeys
<1>. QED
  BY <1>1, <1>2

LEMMA InItsSilo ==
    ASSUME NEW s \in Silos, NEW n \in Names
    PROVE  IsPrefix(SiloPrefix(s), EncodeKey(s, n))
<1>. DEFINE pre == SiloPrefix(s)
            raw == EncodeKey(s, n)
<1>1. pre \in Seq(Letters) /\ n \in Seq(Letters) /\ Len(pre) \in Nat /\ Len(n) \in Nat
  BY LettersAssumption, AppendProperties, LenProperties DEF SiloPrefix
<1>2. raw = pre \o n
  BY DEF EncodeKey
<1>. HIDE DEF pre, raw
<1>3. /\ raw \in Seq(Letters) /\ Len(raw) = Len(pre) + Len(n)
      /\ \A k \in 1..Len(pre) : raw[k] = pre[k]
  BY <1>1, <1>2, ConcatProperties
<1>4. SubSeq(pre, 1, Len(pre)) = SubSeq(raw, 1, Len(pre))
  BY <1>1, <1>3
<1>. QED
  BY <1>1, <1>3, <1>4 DEF IsPrefix, pre, raw

(* A key that begins like those of a silo is of it, whatever it has.       *)
LEMMA OwnSilo ==
    ASSUME NEW s \in Silos, NEW t \in Silos, NEW m \in Names,
           IsPrefix(SiloPrefix(s), EncodeKey(t, m))
    PROVE  t = s
<1>. DEFINE pre == SiloPrefix(s)
            raw == EncodeKey(t, m)
<1>1. /\ s \in Seq(Letters) /\ Len(s) \in Nat
      /\ pre \in Seq(Letters) /\ Len(pre) = Len(s) + 1
      /\ \A k \in 1..Len(s) : pre[k] = s[k]
      /\ pre[Len(s) + 1] = siloKeyDelimiter
  BY LettersAssumption, AppendProperties, LenProperties DEF SiloPrefix
<1>2. /\ t \in Seq(Letters) /\ raw \in Seq(Letters) /\ Len(t) \in Nat /\ Len(raw) \in Nat
      /\ raw[Len(t) + 1] = siloKeyDelimiter
      /\ \A k \in 1..Len(t) : raw[k] = t[k] /\ raw[k] # siloKeyDelimiter
  BY Encoded, LenProperties
<1>3. Len(pre) <= Len(raw) /\ SubSeq(pre, 1, Len(pre)) = SubSeq(raw, 1, Len(pre))
  BY DEF IsPrefix
<1>4. \A k \in 1..Len(s) : s[k] # siloKeyDelimiter
  BY SilosAssumption DEF Contains
<1>. HIDE DEF pre, raw
<1>5. \A k \in 1..Len(pre) : pre[k] = raw[k]
  <2>. TAKE k \in 1..Len(pre)
  <2>1. SubSeq(pre, 1, Len(pre))[k] = pre[k] /\ SubSeq(raw, 1, Len(pre))[k] = raw[k]
    BY <1>1, <1>2, <1>3
  <2>. QED
    BY <1>3, <2>1
<1>6. raw[Len(s) + 1] = siloKeyDelimiter /\ \A k \in 1..Len(s) : raw[k] = s[k]
  BY <1>1, <1>5
<1>7. Len(s) = Len(t)
  <2>1. ~(Len(s) < Len(t))
    <3>1. Len(s) < Len(t) => Len(s) + 1 \in 1..Len(t)
      BY <1>1, <1>2
    <3>. QED
      BY <1>2, <1>6, <3>1
  <2>2. ~(Len(t) < Len(s))
    <3>1. Len(t) < Len(s) => Len(t) + 1 \in 1..Len(s)
      BY <1>1, <1>2
    <3>. QED
      BY <1>2, <1>4, <1>6, <3>1
  <2>. QED
    BY <1>1, <1>2, <2>1, <2>2
<1>8. \A k \in 1..Len(s) : s[k] = t[k]
  BY <1>2, <1>6, <1>7
<1>. QED
  BY <1>1, <1>2, <1>7, <1>8, SeqEqual

(* One raw key at most has the entry of a key that a scan returns.         *)
LEMMA OneEntry ==
    ASSUME NEW R, NEW raw, R = (IF database[raw] = {} THEN {} ELSE {raw})
    PROVE  UNION {database[r] : r \in R} = database[raw]
OBVIOUS

LEMMA ScanExact ==
    ASSUME StoreTypeOK, NEW s \in Silos, ~ScanFails(s)
    PROVE  ScanSilo(s) = [n \in Names |-> GetSiloString(s, n)]
<1>1. SUFFICES ASSUME NEW n \in Names
               PROVE  UNION {database[r] : r \in {q \in InSilo(s) : DecodeKey(q)[2] = n}}
                        = database[EncodeKey(s, n)]
  BY Zenon DEF ScanSilo, GetSiloString
<1>. DEFINE raw == EncodeKey(s, n)
            R == {q \in InSilo(s) : DecodeKey(q)[2] = n}
<1>2. \A r \in InSilo(s) : /\ r \in RawKeys /\ database[r] # {}
                           /\ IsPrefix(SiloPrefix(s), r) /\ Decodable(r)
  BY DEF InSilo, Stored, ScanFails
<1>3. ASSUME NEW r \in R PROVE r = raw
  <2>1. PICK t \in Silos, m \in Names : r = EncodeKey(t, m)
    BY <1>2, <1>3 DEF RawKeys, Keys
  <2>2. t = s
    BY <1>2, <2>1, OwnSilo
  <2>3. DecodeKey(r) = <<s, m>>
    BY <1>2, <2>1, <2>2, Decoded
  <2>. QED
    BY <2>1, <2>2, <2>3
<1>4. raw \in RawKeys
  BY IsRawKey
<1>5. ASSUME database[raw] # {} PROVE raw \in R
  <2>1. raw \in InSilo(s)
    <3>1. IsPrefix(SiloPrefix(s), raw)
      BY InItsSilo
    <3>. QED
      BY <1>4, <1>5, <3>1 DEF InSilo, Stored
  <2>2. DecodeKey(raw) = <<s, n>>
    BY <1>2, <2>1, Decoded
  <2>. QED
    BY <2>1, <2>2
<1>6. R = IF database[raw] = {} THEN {} ELSE {raw}
  <2>1. \A r \in R : r = raw /\ database[raw] # {}
    BY <1>2, <1>3
  <2>. HIDE DEF R, raw
  <2>. QED
    BY <1>5, <2>1
<1>. HIDE DEF raw
<1>. QED
  BY <1>6, OneEntry DEF R, raw

LEMMA GlobalScanExact ==
    ASSUME StoreTypeOK, NEW s \in Silos, NEW n \in Names, ~GlobalScanFails
    PROVE  GlobalScan[<<s, n>>] = GetSiloString(s, n)
<1>. DEFINE raw == EncodeKey(s, n)
            R == {q \in Stored : DecodeKey(q) = <<s, n>>}
<1>1. <<s, n>> \in Keys
  BY DEF Keys
<1>2. GlobalScan[<<s, n>>] = UNION {database[r] : r \in R}
  BY <1>1 DEF GlobalScan
<1>3. \A r \in Stored : r \in RawKeys /\ database[r] # {} /\ Decodable(r)
  BY DEF Stored, GlobalScanFails
<1>4. ASSUME NEW r \in R PROVE r = raw
  <2>1. PICK t \in Silos, m \in Names : r = EncodeKey(t, m)
    BY <1>3, <1>4 DEF RawKeys, Keys
  <2>2. DecodeKey(r) = <<t, m>>
    BY <1>3, <2>1, Decoded
  <2>. QED
    BY <2>1, <2>2
<1>5. raw \in RawKeys
  BY IsRawKey
<1>6. ASSUME database[raw] # {} PROVE raw \in R
  <2>1. raw \in Stored
    BY <1>5, <1>6 DEF Stored
  <2>. QED
    BY <1>3, <2>1, Decoded
<1>7. R = IF database[raw] = {} THEN {} ELSE {raw}
  <2>1. \A r \in R : r = raw /\ database[raw] # {}
    BY <1>3, <1>4
  <2>. HIDE DEF R, raw
  <2>. QED
    BY <1>6, <2>1
<1>. HIDE DEF R, raw
<1>8. UNION {database[r] : r \in R} = database[raw]
  BY <1>7, OneEntry
<1>. QED
  BY <1>2, <1>8 DEF raw, GetSiloString

(* The scans agree with what was put, and with each other.                 *)
LEMMA ScansAlwaysAgree == ASSUME StoreTypeOK PROVE ScansAgree
<1>1. \A s \in Silos : ScanFails(s) \/ ScanSilo(s) = [n \in Names |-> GetSiloString(s, n)]
  BY ScanExact
<1>2. GlobalScanFails <=> \E s \in Silos : ScanFails(s)
  <2>1. ASSUME NEW s \in Silos, ScanFails(s) PROVE GlobalScanFails
    BY <2>1 DEF ScanFails, GlobalScanFails, InSilo
  <2>2. ASSUME GlobalScanFails PROVE \E s \in Silos : ScanFails(s)
    <3>1. PICK raw \in Stored : ~Decodable(raw)
      BY <2>2 DEF GlobalScanFails
    <3>2. PICK s \in Silos, n \in Names : raw = EncodeKey(s, n)
      BY DEF Stored, RawKeys, Keys
    <3>3. raw \in InSilo(s)
      BY <3>2, InItsSilo DEF InSilo
    <3>. QED
      BY <3>1, <3>3 DEF ScanFails
  <2>. QED
    BY <2>1, <2>2
<1>3. ASSUME ~GlobalScanFails, NEW s \in Silos, NEW n \in Names
      PROVE  GlobalScan[<<s, n>>] = ScanSilo(s)[n]
  <2>1. ScanSilo(s)[n] = GetSiloString(s, n)
    BY <1>1, <1>2, <1>3
  <2>. QED
    BY <1>3, <2>1, GlobalScanExact
<1>. QED
  BY <1>1, <1>2, <1>3 DEF ScansAgree

(* A scan fails only on a key of its silo that has the delimiter.          *)
LEMMA FailsOnDelimiter ==
    ASSUME StoreTypeOK, NEW s \in Silos, ScanFails(s)
    PROVE  \E n \in Names : Contains(n, siloKeyDelimiter) /\ GetSiloString(s, n) # {}
<1>1. PICK raw \in InSilo(s) : ~Decodable(raw)
  BY DEF ScanFails
<1>2. PICK t \in Silos, n \in Names : raw = EncodeKey(t, n)
  BY DEF InSilo, Stored, RawKeys, Keys
<1>3. t = s
  BY <1>2, OwnSilo DEF InSilo
<1>4. GetSiloString(s, n) # {}
  BY <1>2, <1>3 DEF InSilo, Stored, GetSiloString
<1>5. ASSUME ~Contains(n, siloKeyDelimiter) PROVE Decodable(raw)
  <2>1. /\ raw \in Seq(Letters) /\ Len(s) \in Nat /\ Len(n) \in Nat
        /\ Len(raw) = Len(s) + 1 + Len(n) /\ raw[Len(s) + 1] = siloKeyDelimiter
        /\ \A k \in 1..Len(s) : raw[k] # siloKeyDelimiter
        /\ \A k \in 1..Len(n) : raw[Len(s) + 1 + k] = n[k]
    BY <1>2, <1>3, Encoded
  <2>2. DOMAIN raw = 1..Len(raw)
    BY <2>1, LenProperties
  <2>3. \A k \in 1..Len(n) : raw[Len(s) + 1 + k] # siloKeyDelimiter
    BY <1>5, <2>1 DEF Contains
  <2>4. ASSUME NEW j \in 1..Len(raw), raw[j] = siloKeyDelimiter PROVE j = Len(s) + 1
    <3>1. ~(j \in 1..Len(s))
      BY <2>1, <2>4
    <3>2. ~(j - (Len(s) + 1) \in 1..Len(n))
      <4>1. Len(s) + 1 + (j - (Len(s) + 1)) = j
        BY <2>1
      <4>. QED
        BY <2>3, <2>4, <4>1
    <3>. QED
      BY <2>1, <3>1, <3>2
  <2>5. {j \in DOMAIN raw : raw[j] = siloKeyDelimiter} = {Len(s) + 1}
    <3>1. Len(s) + 1 \in 1..Len(raw)
      BY <2>1
    <3>. QED
      BY <2>1, <2>2, <2>4, <3>1
  <2>. QED
    BY <2>5, FS_Singleton DEF Decodable
<1>. QED
  BY <1>1, <1>4, <1>5

-----------------------------------------------------------------------------
(* The triggers *)

Registering ==
    [at : {"register", "registered", "error"}, silo : Silos, name : Names, reaction : Entries]
Forgetting ==
    [at : {"forget", "forgetting", "forgotten", "none found", "error"},
     channel : Channels, name : Names, silo : Silos, deleted : SUBSET Silos,
     unread : SUBSET Silos]
Looking ==
    [at : {"match", "matching", "react", "reacting", "list", "listing",
           "reacted", "listed", "failed to load"},
     channel : Channels, said : SUBSET Names, global : [Names -> Entries],
     reactions : SUBSET (Names \X Entries), unread : SUBSET Silos]
Works == {Idle} \cup Registering \cup Forgetting \cup Looking
Sightings == [Keys -> SUBSET Entries]

TypesOK ==
    /\ StoreTypeOK
    /\ work \in [Workers -> Works]
    /\ seen \in [Workers -> Sightings]

(* What is stored has been seen by every worker that is at work.           *)
Watched ==
    \A w \in Workers : work[w] # Idle =>
        \A s \in Silos, n \in Names : GetSiloString(s, n) \in seen[w][<<s, n>>]

(* What holds of a worker's action, by what it has seen.  A registered     *)
(* reaction was there.                                                     *)
HasRegistered(a, S) == a.at = "registered" => a.reaction \in S[<<a.silo, a.name>>]

(* A forget command goes on to all channels when it did not find a trigger *)
(* in its own, and deletes where it looked last.                           *)
Missing(a, S, s) == s \in a.unread \/ S[<<s, a.name>>] \cap TakenForNone # {}
Fallback(a, S) == a.silo = a.channel \/ Missing(a, S, a.channel)

HasForgotten(a, S) ==
    /\ a.at \in {"forget", "forgetting"} => Fallback(a, S)
    /\ a \in Forgetting /\ a.at # "forgotten" => a.deleted = {}
    /\ a.at = "forgotten" =>
          a.deleted = {a.silo} /\ {} \in S[<<a.silo, a.name>>] /\ Fallback(a, S)
    /\ a.at = "none found" => Missing(a, S, a.channel) /\ Missing(a, S, globalSiloName)

(* What was scanned of the silo of all channels was there, and reactions   *)
(* are of registered triggers and leave out none that stayed.              *)
HasScanned(a, S) ==
    /\ a.at \in {"matching", "reacting", "listing"} =>
          \A n \in Names : a.global[n] \in S[<<globalSiloName, n>>]
    /\ a.at \in {"match", "matching"} => a.reactions = {}

WasRegistered(a, S, n, e) ==
    /\ n \in a.said /\ e # {}
    /\ \/ e \in S[<<a.channel, n>>]
       \/ {} \in S[<<a.channel, n>>] /\ e \in S[<<globalSiloName, n>>]

Steady(a, S) ==
    {n \in a.said : {} \notin S[<<a.channel, n>>] \/ {} \notin S[<<globalSiloName, n>>]}

HasReacted(a, S) ==
    LET reacting == {r[1] : r \in a.reactions} IN
    /\ a.at \in {"reacted", "listed"} =>
        /\ \A r \in a.reactions : WasRegistered(a, S, r[1], r[2])
        /\ Steady(a, S) \cap Emoji \subseteq reacting
        /\ Steady(a, S) \cap Standard # {} => reacting \cap Standard # {}
    /\ a.at = "listed" => Steady(a, S) \subseteq reacting

HasFailed(a, S) ==
    a.at = "failed to load" =>
        a.unread # {} \/ \E s \in {a.channel, globalSiloName}, n \in Names :
                 Contains(n, siloKeyDelimiter) /\ \E e \in S[<<s, n>>] : e # {}

Promise(a, S) ==
    /\ HasRegistered(a, S) /\ HasForgotten(a, S) /\ HasScanned(a, S)
    /\ HasReacted(a, S) /\ HasFailed(a, S)

TriggersInv ==
    TypesOK /\ Watched /\ \A w \in Workers : Promise(work[w], seen[w])

-----------------------------------------------------------------------------
LEMMA SiloFacts == /\ Channels \subseteq Silos /\ globalSiloName \in Silos
                   /\ globalSiloName \notin Channels
                   /\ \A s \in Silos, n \in Names : <<s, n>> \in Keys
BY SilosAreChannels DEF Keys

LEMMA NoEntry == {} \in Entries /\ \A v \in Values : {v} \in Entries
BY DEF Entries

LEMMA ScanningRange ==
    /\ DOMAIN Scanning = {"match", "react", "list"}
    /\ Range(Scanning) = {"matching", "reacting", "listing"}
    /\ Scanning["match"] = "matching" /\ Scanning["react"] = "reacting"
    /\ Scanning["list"] = "listing"
<1>1. DOMAIN Scanning = {"match", "react", "list"}
  BY DEF Scanning
<1>2. Scanning["match"] = "matching" /\ Scanning["react"] = "reacting"
        /\ Scanning["list"] = "listing"
  BY DEF Scanning
<1>. QED
  BY <1>1, <1>2, Zenon DEF Range

(* What a worker is doing tells which fields there are.                    *)
IsRegistering(a) ==
    /\ a \in Registering /\ a # Idle /\ a \notin Forgetting
    /\ a.at \in {"register", "registered", "error"}
    /\ a.silo \in Silos /\ a.name \in Names /\ a.reaction \in Entries

IsForgetting(a) ==
    /\ a \in Forgetting /\ a # Idle
    /\ a.at \in {"forget", "forgetting", "forgotten", "none found", "error"}
    /\ a.channel \in Channels /\ a.name \in Names /\ a.silo \in Silos
    /\ a.deleted \subseteq Silos /\ a.unread \subseteq Silos

IsLooking(a) ==
    /\ a \in Looking /\ a # Idle /\ a \notin Forgetting
    /\ a.at \in {"match", "matching", "react", "reacting", "list", "listing",
                 "reacted", "listed", "failed to load"}
    /\ a.channel \in Channels /\ a.said \subseteq Names
    /\ a.global \in [Names -> Entries] /\ a.reactions \subseteq Names \X Entries

IsIdle(a) == a = Idle /\ a.at = "idle" /\ a \notin Forgetting

LEMMA IdleAt == Idle.at = "idle"
BY DEF Idle

LEMMA Shape ==
    ASSUME NEW a \in Works
    PROVE  IsIdle(a) \/ IsRegistering(a) \/ IsForgetting(a) \/ IsLooking(a)
<1>1. ASSUME a = Idle PROVE IsIdle(a)
  BY <1>1 DEF IsIdle, Idle, Forgetting
<1>2. ASSUME a \in Registering PROVE IsRegistering(a)
  <2>1. /\ a.at \in {"register", "registered", "error"}
        /\ a.silo \in Silos /\ a.name \in Names /\ a.reaction \in Entries
    BY <1>2 DEF Registering
  <2>2. a # Idle
    BY <2>1, IdleAt
  <2>3. a \notin Forgetting
    <3>1. DOMAIN a = {"at", "silo", "name", "reaction"}
      BY <1>2 DEF Registering
    <3>2. a \in Forgetting => DOMAIN a = {"at", "channel", "name", "silo", "deleted", "unread"}
      BY DEF Forgetting
    <3>. QED
      BY <3>1, <3>2
  <2>. QED
    BY <1>2, <2>1, <2>2, <2>3 DEF IsRegistering
<1>3. ASSUME a \in Forgetting PROVE IsForgetting(a)
  <2>1. /\ a.at \in {"forget", "forgetting", "forgotten", "none found", "error"}
        /\ a.channel \in Channels /\ a.name \in Names /\ a.silo \in Silos
        /\ a.deleted \subseteq Silos /\ a.unread \subseteq Silos
    BY <1>3 DEF Forgetting
  <2>2. a # Idle
    BY <2>1, IdleAt
  <2>. QED
    BY <1>3, <2>1, <2>2 DEF IsForgetting
<1>4. ASSUME a \in Looking PROVE IsLooking(a)
  <2>1. /\ a.at \in {"match", "matching", "react", "reacting", "list", "listing",
                     "reacted", "listed", "failed to load"}
        /\ a.channel \in Channels /\ a.said \subseteq Names
        /\ a.global \in [Names -> Entries] /\ a.reactions \subseteq Names \X Entries
    BY <1>4 DEF Looking
  <2>2. a # Idle
    BY <2>1, IdleAt
  <2>3. a \notin Forgetting
    BY <2>1 DEF Forgetting
  <2>. QED
    BY <1>4, <2>1, <2>2, <2>3 DEF IsLooking
<1>. QED
  BY <1>1, <1>2, <1>3, <1>4 DEF Works

(* A promise that was kept stays kept, whatever others do.                 *)
LEMMA Kept ==
    ASSUME NEW a \in Works, NEW S \in Sightings, NEW T \in Sightings,
           a # Idle => \A k \in Keys : S[k] \subseteq T[k], Promise(a, S)
    PROVE  Promise(a, T)
<1>1. CASE IsIdle(a)
  BY <1>1 DEF IsIdle, Promise, HasRegistered, HasForgotten, HasScanned, HasReacted, HasFailed
<1>2. CASE IsRegistering(a)
  <2>1. <<a.silo, a.name>> \in Keys
    BY <1>2, SiloFacts DEF IsRegistering
  <2>2. HasRegistered(a, T)
    BY <1>2, <2>1 DEF IsRegistering, Promise, HasRegistered
  <2>. QED
    BY <1>2, <2>2 DEF IsRegistering, Promise, HasForgotten, HasScanned, HasReacted, HasFailed
<1>3. CASE IsForgetting(a)
  <2>1. /\ <<a.channel, a.name>> \in Keys /\ <<a.silo, a.name>> \in Keys
        /\ <<globalSiloName, a.name>> \in Keys
    BY <1>3, SiloFacts DEF IsForgetting
  <2>2. HasForgotten(a, T)
    BY <1>3, <2>1 DEF IsForgetting, Promise, HasForgotten, Fallback, Missing
  <2>. QED
    BY <1>3, <2>2 DEF IsForgetting, Promise, HasRegistered, HasScanned, HasReacted, HasFailed
<1>4. CASE IsLooking(a)
  <2>1. \A n \in Names : /\ <<a.channel, n>> \in Keys /\ <<globalSiloName, n>> \in Keys
                         /\ S[<<a.channel, n>>] \subseteq T[<<a.channel, n>>]
                         /\ S[<<globalSiloName, n>>] \subseteq T[<<globalSiloName, n>>]
    BY <1>4, SiloFacts DEF IsLooking
  <2>2. HasScanned(a, T)
    BY <1>4, <2>1 DEF IsLooking, Promise, HasScanned
  <2>3. Steady(a, T) \subseteq Steady(a, S)
    BY <1>4, <2>1 DEF IsLooking, Steady
  <2>4. ASSUME NEW r \in a.reactions, WasRegistered(a, S, r[1], r[2])
        PROVE  WasRegistered(a, T, r[1], r[2])
    <3>1. r[1] \in Names
      BY <1>4 DEF IsLooking
    <3>. QED
      BY <2>1, <2>4, <3>1 DEF WasRegistered
  <2>5. HasReacted(a, T)
    BY <2>3, <2>4 DEF Promise, HasReacted
  <2>6. HasFailed(a, T)
    BY <1>4, <2>1 DEF IsLooking, Promise, HasFailed
  <2>7. HasRegistered(a, T) /\ HasForgotten(a, T)
    BY <1>4 DEF IsLooking, HasRegistered, HasForgotten
  <2>. QED
    BY <2>2, <2>5, <2>6, <2>7 DEF Promise
<1>. QED
  BY <1>1, <1>2, <1>3, <1>4, Shape, Zenon

(* What is to be shown of an action, by what it is about.                  *)
LEMMA PromiseRegistering ==
    ASSUME NEW b \in Registering, NEW T, HasRegistered(b, T)
    PROVE  b \in Works /\ Promise(b, T)
<1>1. b \in Works
  BY DEF Works
<1>2. /\ b.at \in {"register", "registered", "error"} /\ b \notin Forgetting
  <2>1. b.at \in {"register", "registered", "error"}
    BY DEF Registering
  <2>2. DOMAIN b = {"at", "silo", "name", "reaction"}
    BY DEF Registering
  <2>3. b \in Forgetting => DOMAIN b = {"at", "channel", "name", "silo", "deleted", "unread"}
    BY DEF Forgetting
  <2>. QED
    BY <2>1, <2>2, <2>3
<1>. QED
  BY <1>1, <1>2 DEF Promise, HasForgotten, HasScanned, HasReacted, HasFailed

LEMMA PromiseForgetting ==
    ASSUME NEW b \in Forgetting, NEW T, HasForgotten(b, T)
    PROVE  b \in Works /\ Promise(b, T)
<1>1. b \in Works
  BY DEF Works
<1>2. b.at \in {"forget", "forgetting", "forgotten", "none found", "error"}
  BY DEF Forgetting
<1>. QED
  BY <1>1, <1>2 DEF Promise, HasRegistered, HasScanned, HasReacted, HasFailed

LEMMA PromiseLooking ==
    ASSUME NEW b \in Looking, NEW T,
           HasScanned(b, T), HasReacted(b, T), HasFailed(b, T)
    PROVE  b \in Works /\ Promise(b, T)
<1>1. b \in Works
  BY DEF Works
<1>2. /\ b.at \in {"match", "matching", "react", "reacting", "list", "listing",
                   "reacted", "listed", "failed to load"}
      /\ b \notin Forgetting
  <2>1. b.at \in {"match", "matching", "react", "reacting", "list", "listing",
                   "reacted", "listed", "failed to load"}
    BY DEF Looking
  <2>. QED
    BY <2>1 DEF Forgetting
<1>. QED
  BY <1>1, <1>2 DEF Promise, HasRegistered, HasForgotten

-----------------------------------------------------------------------------
LEMMA Untouched ==
    ASSUME StoreTypeOK, UNCHANGED storeVars
    PROVE  /\ StoreTypeOK'
           /\ \A s \in Silos, n \in Names : database'[EncodeKey(s, n)] = GetSiloString(s, n)
BY DEF StoreTypeOK, storeVars, GetSiloString

LEMMA Written ==
    ASSUME StoreTypeOK, NEW s \in Silos, NEW n \in Names, NEW e \in Entries, Write(s, n, e)
    PROVE  /\ StoreTypeOK'
           /\ database'[EncodeKey(s, n)] = e
<1>1. EncodeKey(s, n) \in RawKeys
  BY IsRawKey
<1>. QED
  BY <1>1 DEF Write, StoreTypeOK

(* What a worker has seen after a step of its own ...                      *)
Sighted(w, T) ==
    /\ T \in Sightings
    /\ work[w] # Idle => \A k \in Keys : seen[w][k] \subseteq T[k]
    /\ \A s \in Silos, n \in Names : database'[EncodeKey(s, n)] \in T[<<s, n>>]

(* ... for which it keeps its promise.                                     *)
Keeping(w, T, b) ==
    /\ StoreTypeOK'
    /\ b \in Works /\ work' = [work EXCEPT ![w] = b]
    /\ Promise(b, T)

LEMMA Registers ==
    ASSUME TypesOK, NEW w \in Workers, NEW T, Sighted(w, T),
           HearRegister(w) \/ InvalidReaction(w) \/ Register(w)
    PROVE  \E b : Keeping(w, T, b)
<1>1. CASE HearRegister(w)
  <2>1. PICK c \in Channels, s \in Silos, n \in Names, e \in Entries :
            Begin(w, [at |-> "register", silo |-> s, name |-> n, reaction |-> e])
    <3>1. \A n \in Names : Encodings(n) \subseteq Entries
      BY DEF Encodings
    <3>. QED
      BY <1>1, <3>1 DEF HearRegister
  <2>. DEFINE b == [at |-> "register", silo |-> s, name |-> n, reaction |-> e]
  <2>2. b \in Registering /\ HasRegistered(b, T)
    BY DEF Registering, HasRegistered
  <2>3. work' = [work EXCEPT ![w] = b] /\ UNCHANGED storeVars
    BY <2>1 DEF Begin
  <2>. HIDE DEF b
  <2>4. Keeping(w, T, b)
    BY <2>2, <2>3, Untouched, PromiseRegistering DEF Keeping, TypesOK
  <2>. QED
    BY <2>4
<1>2. ASSUME work[w].at = "register"
      PROVE  /\ work[w] \in Registering /\ work[w].silo \in Silos /\ work[w].name \in Names
             /\ work[w].reaction \in Entries
             /\ \A at \in {"registered", "error"} :
                   LET b == [work[w] EXCEPT !.at = at] IN
                   /\ b \in Registering /\ b.at = at /\ b.silo = work[w].silo
                   /\ b.name = work[w].name /\ b.reaction = work[w].reaction
  <2>1. work[w] \in Works
    BY DEF TypesOK
  <2>2. IsRegistering(work[w])
    BY <1>2, <2>1, Shape DEF IsIdle, IsRegistering, IsForgetting, IsLooking
  <2>. QED
    BY <2>2 DEF IsRegistering, Registering
<1>3. ASSUME work[w].at = "register", Goto(w, "error"), UNCHANGED storeVars
      PROVE  \E b : Keeping(w, T, b)
  <2>. DEFINE b == [work[w] EXCEPT !.at = "error"]
  <2>1. b \in Registering /\ b.at = "error"
    BY <1>2, <1>3
  <2>2. work' = [work EXCEPT ![w] = b]
    BY <1>3 DEF Goto
  <2>. HIDE DEF b
  <2>3. Promise(b, T) /\ b \in Works
    BY <2>1, PromiseRegistering DEF HasRegistered
  <2>4. Keeping(w, T, b)
    BY <1>3, <2>2, <2>3, Untouched DEF Keeping, TypesOK
  <2>. QED
    BY <2>4
<1>4. ASSUME work[w].at = "register", Goto(w, "registered"),
             Write(work[w].silo, work[w].name, work[w].reaction)
      PROVE  \E b : Keeping(w, T, b)
  <2>. DEFINE b == [work[w] EXCEPT !.at = "registered"]
  <2>1. /\ b \in Registering /\ b.silo = work[w].silo
        /\ b.name = work[w].name /\ b.reaction = work[w].reaction
    BY <1>2, <1>4
  <2>2. work' = [work EXCEPT ![w] = b]
    BY <1>4 DEF Goto
  <2>. HIDE DEF b
  <2>3. /\ StoreTypeOK'
        /\ database'[EncodeKey(work[w].silo, work[w].name)] = work[w].reaction
    BY <1>2, <1>4, Written DEF TypesOK
  <2>4. work[w].reaction \in T[<<work[w].silo, work[w].name>>]
    BY <1>2, <1>4, <2>3 DEF Sighted
  <2>5. Promise(b, T) /\ b \in Works
    BY <2>1, <2>4, PromiseRegistering DEF HasRegistered
  <2>6. Keeping(w, T, b)
    BY <2>2, <2>3, <2>5 DEF Keeping
  <2>. QED
    BY <2>6
<1>. QED
  BY <1>1, <1>3, <1>4 DEF InvalidReaction, Register

LEMMA Forgets ==
    ASSUME TypesOK, NEW w \in Workers, Promise(work[w], seen[w]), NEW T, Sighted(w, T),
           HearForget(w) \/ Find(w) \/ Forget(w)
    PROVE  \E b : Keeping(w, T, b)
<1>1. CASE HearForget(w)
  <2>1. PICK c \in Channels, n \in Names :
            Begin(w, [at |-> "forget", channel |-> c, name |-> n, silo |-> c, deleted |-> {},
                      unread |-> {}])
    BY <1>1 DEF HearForget
  <2>. DEFINE b == [at |-> "forget", channel |-> c, name |-> n, silo |-> c, deleted |-> {},
                    unread |-> {}]
  <2>2. b \in Forgetting /\ HasForgotten(b, T)
    BY SiloFacts DEF Forgetting, HasForgotten, Fallback
  <2>3. work' = [work EXCEPT ![w] = b] /\ UNCHANGED storeVars
    BY <2>1 DEF Begin
  <2>. HIDE DEF b
  <2>4. Keeping(w, T, b)
    BY <2>2, <2>3, Untouched, PromiseForgetting DEF Keeping, TypesOK
  <2>. QED
    BY <2>4
<1>. DEFINE a == work[w]
<1>2. ASSUME a.at \in {"forget", "forgetting"}
      PROVE  /\ a \in Forgetting /\ a.channel \in Channels /\ a.channel \in Silos
             /\ a.channel # globalSiloName /\ globalSiloName \in Silos
             /\ a.name \in Names /\ a.silo \in Silos /\ a.deleted = {}
             /\ a.unread \subseteq Silos /\ Fallback(a, T)
  <2>1. a \in Works
    BY DEF TypesOK
  <2>2. IsForgetting(a)
    BY <1>2, <2>1, Shape DEF IsIdle, IsRegistering, IsForgetting, IsLooking
  <2>3. a.deleted = {} /\ Fallback(a, seen[w])
    BY <1>2, <2>2 DEF Promise, HasForgotten, IsForgetting
  <2>4. <<a.channel, a.name>> \in Keys /\ a # Idle
    BY <2>2, SiloFacts DEF IsForgetting
  <2>5. seen[w][<<a.channel, a.name>>] \subseteq T[<<a.channel, a.name>>]
    BY <2>4 DEF Sighted
  <2>6. Fallback(a, T)
    BY <2>3, <2>5 DEF Fallback, Missing
  <2>. QED
    BY <2>2, <2>3, <2>6, SiloFacts DEF IsForgetting
<1>3. ASSUME a \in Forgetting
      PROVE  \A at \in {"forgetting", "error"} :
                 LET b == [a EXCEPT !.at = at] IN
                 /\ b \in Forgetting /\ b.at = at /\ b.silo = a.silo
                 /\ b.channel = a.channel /\ b.name = a.name /\ b.deleted = a.deleted
                 /\ b.unread = a.unread
  BY <1>3 DEF Forgetting
<1>4. ASSUME NEW b \in Forgetting, HasForgotten(b, T), StoreTypeOK',
             work' = [work EXCEPT ![w] = b]
      PROVE  \E x : Keeping(w, T, x)
  BY <1>4, PromiseForgetting, Zenon DEF Keeping
<1>5. CASE Find(w)
  <2>1. a.at = "forget" /\ UNCHANGED storeVars
    BY <1>5 DEF Find
  <2>2. StoreTypeOK'
    BY <2>1, Untouched DEF TypesOK
  <2>3. GetSiloString(a.silo, a.name) \in T[<<a.silo, a.name>>]
    BY <1>2, <2>1, Untouched DEF Sighted, TypesOK
  <2>4. CASE Goto(w, "forgetting")
    <3>. DEFINE b == [a EXCEPT !.at = "forgetting"]
    <3>1. /\ b \in Forgetting /\ b.at = "forgetting" /\ b.silo = a.silo
          /\ b.channel = a.channel /\ b.name = a.name /\ b.deleted = {} /\ b.unread = a.unread
      BY <1>2, <1>3, <2>1
    <3>2. work' = [work EXCEPT ![w] = b]
      BY <2>4 DEF Goto
    <3>. HIDE DEF b
    <3>3. Fallback(a, T)
      BY <1>2, <2>1
    <3>4. HasForgotten(b, T)
      BY <3>1, <3>3 DEF HasForgotten, Fallback, Missing
    <3>. QED
      BY <1>4, <2>2, <3>1, <3>2, <3>4
  <2>5. ASSUME NEW failed, failed \subseteq {a.silo}, LookFurther(w, failed),
               a.silo \in failed \/ GetSiloString(a.silo, a.name) \in TakenForNone
        PROVE  \E x : Keeping(w, T, x)
    <3>. DEFINE at == IF a.silo = globalSiloName THEN "none found" ELSE "forget"
                b == [a EXCEPT !.at = at, !.silo = globalSiloName, !.unread = @ \cup failed]
    <3>1. /\ a \in Forgetting /\ a.silo \in Silos /\ globalSiloName \in Silos
          /\ a.unread \subseteq Silos /\ a.deleted = {} /\ Fallback(a, T)
          /\ a.channel # globalSiloName
      BY <1>2, <2>1
    <3>2. at \in {"none found", "forget"} /\ failed \subseteq Silos
      BY <2>5, <3>1
    <3>3. /\ b \in Forgetting /\ b.at = at /\ b.silo = globalSiloName
          /\ b.channel = a.channel /\ b.name = a.name /\ b.deleted = {}
          /\ b.unread = a.unread \cup failed
      <4>. HIDE DEF at
      <4>. QED
        BY <3>1, <3>2 DEF Forgetting
    <3>4. work' = [work EXCEPT ![w] = b]
      BY <2>5 DEF LookFurther
    <3>5. Missing(b, T, a.silo)
      <4>. HIDE DEF b
      <4>. QED
        BY <2>3, <2>5, <3>3 DEF Missing
    <3>6. Missing(b, T, a.channel)
      <4>1. CASE a.silo = a.channel
        BY <3>5, <4>1
      <4>2. CASE Missing(a, T, a.channel)
        <5>. HIDE DEF b
        <5>. QED
          BY <3>3, <4>2 DEF Missing
      <4>. QED
        BY <3>1, <4>1, <4>2 DEF Fallback
    <3>7. HasForgotten(b, T)
      <4>1. CASE a.silo = globalSiloName
        <5>1. b.at = "none found"
          BY <3>3, <4>1
        <5>2. Missing(b, T, b.channel) /\ Missing(b, T, globalSiloName)
          BY <3>3, <3>5, <3>6, <4>1
        <5>. HIDE DEF b
        <5>. QED
          BY <3>3, <5>1, <5>2 DEF HasForgotten
      <4>2. CASE a.silo # globalSiloName
        <5>1. b.at = "forget"
          BY <3>3, <4>2
        <5>2. Missing(b, T, b.channel)
          BY <3>3, <3>6
        <5>. HIDE DEF b
        <5>. QED
          BY <3>3, <5>1, <5>2 DEF HasForgotten, Fallback
      <4>. QED
        BY <4>1, <4>2
    <3>. HIDE DEF b
    <3>. QED
      BY <1>4, <2>2, <3>3, <3>4, <3>7
  <2>. QED
    BY <1>5, <2>4, <2>5 DEF Find
<1>6. ASSUME a.at = "forgetting", Write(a.silo, a.name, {}),
             work' = [work EXCEPT ![w].at = "forgotten", ![w].deleted = @ \cup {a.silo}]
      PROVE  \E x : Keeping(w, T, x)
  <2>. DEFINE b == [a EXCEPT !.at = "forgotten", !.deleted = @ \cup {a.silo}]
  <2>1. /\ b \in Forgetting /\ b.at = "forgotten" /\ b.silo = a.silo
        /\ b.channel = a.channel /\ b.name = a.name /\ b.deleted = {a.silo} /\ b.unread = a.unread
    BY <1>2, <1>6 DEF Forgetting
  <2>2. work' = [work EXCEPT ![w] = b]
    BY <1>6
  <2>3. /\ StoreTypeOK'
        /\ database'[EncodeKey(a.silo, a.name)] = {}
    BY <1>2, <1>6, Written, NoEntry DEF TypesOK
  <2>. HIDE DEF b
  <2>4. {} \in T[<<a.silo, a.name>>]
    BY <1>2, <1>6, <2>3 DEF Sighted
  <2>5. Fallback(b, T)
    BY <1>2, <1>6, <2>1 DEF Fallback, Missing
  <2>6. HasForgotten(b, T)
    BY <2>1, <2>4, <2>5 DEF HasForgotten
  <2>. QED
    BY <1>4, <2>1, <2>2, <2>3, <2>6
<1>7. ASSUME a.at = "forgetting", Goto(w, "error"), UNCHANGED storeVars
      PROVE  \E x : Keeping(w, T, x)
  <2>. DEFINE b == [a EXCEPT !.at = "error"]
  <2>1. b \in Forgetting /\ b.at = "error" /\ b.deleted = {}
    BY <1>2, <1>3, <1>7
  <2>2. work' = [work EXCEPT ![w] = b]
    BY <1>7 DEF Goto
  <2>. HIDE DEF b
  <2>3. HasForgotten(b, T)
    BY <2>1 DEF HasForgotten
  <2>. QED
    BY <1>4, <1>7, <2>1, <2>2, <2>3, Untouched DEF TypesOK
<1>. QED
  BY <1>1, <1>5, <1>6, <1>7 DEF Forget

LEMMA Hears ==
    ASSUME TypesOK, NEW w \in Workers, NEW T, Sighted(w, T), HearMessage(w) \/ HearList(w)
    PROVE  \E b : Keeping(w, T, b)
<1>1. PICK at \in {"match", "list"}, c \in Channels, said \in SUBSET Names :
          Begin(w, [at |-> at, channel |-> c, said |-> said,
                    global |-> NoTriggers, reactions |-> {}, unread |-> {}])
  BY DEF HearMessage, HearList, Standard, Emoji
<1>. DEFINE b == [at |-> at, channel |-> c, said |-> said,
                  global |-> NoTriggers, reactions |-> {}, unread |-> {}]
<1>2. b \in Looking /\ b.at \in {"match", "list"} /\ b.reactions = {}
  BY NoEntry DEF Looking, NoTriggers
<1>3. work' = [work EXCEPT ![w] = b] /\ UNCHANGED storeVars
  BY <1>1 DEF Begin
<1>. HIDE DEF b
<1>4. b \in Works /\ Promise(b, T)
  BY <1>2, PromiseLooking DEF HasScanned, HasReacted, HasFailed
<1>5. Keeping(w, T, b)
  BY <1>3, <1>4, Untouched DEF Keeping, TypesOK
<1>. QED
  BY <1>5

(* The fields of a worker that looks at triggers.                          *)
LEMMA LooksAt ==
    ASSUME TypesOK, NEW w \in Workers, NEW T, Sighted(w, T),
           Promise(work[w], seen[w]),
           work[w].at \in {"match", "matching", "react", "reacting", "list", "listing"}
    PROVE  /\ work[w] \in Looking /\ work[w].channel \in Channels /\ work[w].channel \in Silos
           /\ work[w].said \subseteq Names /\ work[w].global \in [Names -> Entries]
           /\ work[w].reactions \subseteq Names \X Entries
           /\ work[w].at \in {"matching", "reacting", "listing"} =>
                 \A n \in Names : work[w].global[n] \in T[<<globalSiloName, n>>]
           /\ work[w].at \in {"match", "matching"} => work[w].reactions = {}
<1>. DEFINE a == work[w]
<1>1. a \in Works
  BY DEF TypesOK
<1>2. IsLooking(a)
  BY <1>1, Shape DEF IsIdle, IsRegistering, IsForgetting, IsLooking
<1>3. \A n \in Names : <<globalSiloName, n>> \in Keys
  BY SiloFacts
<1>4. ASSUME a.at \in {"matching", "reacting", "listing"}, NEW n \in Names
      PROVE  a.global[n] \in T[<<globalSiloName, n>>]
  <2>1. a.global[n] \in seen[w][<<globalSiloName, n>>]
    BY <1>4 DEF Promise, HasScanned
  <2>2. seen[w][<<globalSiloName, n>>] \subseteq T[<<globalSiloName, n>>]
    BY <1>2, <1>3 DEF Sighted, IsLooking
  <2>. QED
    BY <2>1, <2>2
<1>5. a.at \in {"match", "matching"} => a.reactions = {}
  BY DEF Promise, HasScanned
<1>. QED
  BY <1>2, <1>4, <1>5, SiloFacts DEF IsLooking

LEMMA LooksOn ==
    ASSUME TypesOK, NEW w \in Workers, NEW T, Sighted(w, T), UNCHANGED storeVars,
           NEW b \in Looking, work' = [work EXCEPT ![w] = b],
           HasScanned(b, T), HasReacted(b, T), HasFailed(b, T)
    PROVE  \E x : Keeping(w, T, x)
<1>1. StoreTypeOK'
  BY Untouched DEF TypesOK
<1>2. b \in Works /\ Promise(b, T)
  BY PromiseLooking
<1>. QED
  BY <1>1, <1>2, Zenon DEF Keeping

LEMMA ScansGlobal ==
    ASSUME TypesOK, NEW w \in Workers, NEW T, Sighted(w, T),
           Promise(work[w], seen[w]), ScanGlobal(w)
    PROVE  \E b : Keeping(w, T, b)
<1>. DEFINE a == work[w]
            scan == ScanSilo(globalSiloName)
            b == [a EXCEPT !.global = scan, !.at = Scanning[a.at]]
<1>1. /\ a.at \in {"match", "react", "list"} /\ ~ScanFails(globalSiloName)
      /\ UNCHANGED storeVars
  BY ScanningRange DEF ScanGlobal, CanScan
<1>2. work' = [work EXCEPT ![w] = b]
  BY DEF ScanGlobal
<1>3. Scanning[a.at] \in {"matching", "reacting", "listing"}
  BY <1>1, ScanningRange
<1>4. scan = [n \in Names |-> GetSiloString(globalSiloName, n)]
  BY <1>1, ScanExact, SiloFacts DEF TypesOK
<1>5. \A n \in Names : /\ GetSiloString(globalSiloName, n) \in Entries
                       /\ GetSiloString(globalSiloName, n) \in T[<<globalSiloName, n>>]
  <2>. TAKE n \in Names
  <2>1. EncodeKey(globalSiloName, n) \in RawKeys
    BY IsRawKey, SiloFacts
  <2>2. GetSiloString(globalSiloName, n) \in Entries
    BY <2>1 DEF TypesOK, StoreTypeOK, GetSiloString
  <2>3. database'[EncodeKey(globalSiloName, n)] = GetSiloString(globalSiloName, n)
    BY <1>1, Untouched, SiloFacts DEF TypesOK
  <2>. QED
    BY <2>2, <2>3, SiloFacts DEF Sighted
<1>6. scan \in [Names -> Entries] /\ \A n \in Names : scan[n] \in T[<<globalSiloName, n>>]
  BY <1>4, <1>5
<1>7. a \in Looking
  BY <1>1, LooksAt
<1>. HIDE DEF scan
<1>8. /\ b \in Looking /\ b.at \in {"matching", "reacting", "listing"} /\ b.global = scan
      /\ b.at = Scanning[a.at] /\ b.reactions = a.reactions
  BY <1>3, <1>6, <1>7 DEF Looking
<1>9. b.at = "matching" => b.reactions = {}
  <2>1. b.at = "matching" => a.at = "match"
    BY <1>1, <1>8, ScanningRange
  <2>. QED
    BY <1>8, <2>1, LooksAt
<1>. HIDE DEF b
<1>. QED
  BY <1>1, <1>2, <1>6, <1>8, <1>9, LooksOn DEF HasScanned, HasReacted, HasFailed

LEMMA FailsToLoad ==
    ASSUME TypesOK, NEW w \in Workers, NEW T, Sighted(w, T),
           Promise(work[w], seen[w]), FailToLoad(w)
    PROVE  \E b : Keeping(w, T, b)
<1>. DEFINE a == work[w]
            silo == IF a.at \in DOMAIN Scanning THEN globalSiloName ELSE a.channel
<1>1. /\ a.at \in {"match", "matching", "react", "reacting", "list", "listing"}
      /\ UNCHANGED storeVars
  BY ScanningRange DEF FailToLoad
<1>2. a \in Looking /\ silo \in {a.channel, globalSiloName} /\ silo \in Silos
  BY <1>1, LooksAt, SiloFacts
<1>3. \/ ScanFails(silo) /\ Goto(w, "failed to load")
      \/ work' = [work EXCEPT ![w].at = "failed to load", ![w].unread = {silo}]
  BY DEF FailToLoad
<1>. HIDE DEF silo
<1>4. CASE ScanFails(silo) /\ Goto(w, "failed to load")
  <2>. DEFINE b == [a EXCEPT !.at = "failed to load"]
  <2>1. b \in Looking /\ b.at = "failed to load" /\ b.channel = a.channel
    BY <1>2 DEF Looking
  <2>2. work' = [work EXCEPT ![w] = b]
    BY <1>4 DEF Goto
  <2>. HIDE DEF b
  <2>3. PICK n \in Names : Contains(n, siloKeyDelimiter) /\ GetSiloString(silo, n) # {}
    BY <1>2, <1>4, FailsOnDelimiter DEF TypesOK
  <2>4. database'[EncodeKey(silo, n)] = GetSiloString(silo, n)
    BY <1>1, <1>2, Untouched DEF TypesOK
  <2>5. GetSiloString(silo, n) \in T[<<silo, n>>]
    BY <1>2, <2>4 DEF Sighted
  <2>6. HasFailed(b, T)
    BY <1>2, <2>1, <2>3, <2>5 DEF HasFailed
  <2>. QED
    BY <1>1, <2>1, <2>2, <2>6, LooksOn DEF HasScanned, HasReacted
<1>5. CASE work' = [work EXCEPT ![w].at = "failed to load", ![w].unread = {silo}]
  <2>. DEFINE b == [a EXCEPT !.at = "failed to load", !.unread = {silo}]
  <2>1. b \in Looking /\ b.at = "failed to load" /\ b.unread # {}
    BY <1>2 DEF Looking
  <2>2. work' = [work EXCEPT ![w] = b]
    BY <1>5
  <2>. HIDE DEF b
  <2>3. HasFailed(b, T)
    BY <2>1 DEF HasFailed
  <2>. QED
    BY <1>1, <2>1, <2>2, <2>3, LooksOn DEF HasScanned, HasReacted
<1>. QED
  BY <1>3, <1>4, <1>5

(* What a worker that has scanned both silos finds.                        *)
Found(w, n) == ByName(work[w].global, ScanSilo(work[w].channel))[n]

LEMMA Finds ==
    ASSUME TypesOK, NEW w \in Workers, NEW T, Sighted(w, T),
           Promise(work[w], seen[w]), UNCHANGED storeVars,
           work[w].at \in {"matching", "reacting", "listing"}, ~ScanFails(work[w].channel)
    PROVE  /\ \A n \in Matching(w) : /\ n \in Names /\ Found(w, n) \in Entries
                                     /\ WasRegistered(work[w], T, n, Found(w, n))
           /\ Steady(work[w], T) \subseteq Matching(w)
           /\ Matching(w) \subseteq work[w].said
<1>. DEFINE a == work[w]
            scan == ScanSilo(a.channel)
<1>1. /\ a.channel \in Silos /\ a.said \subseteq Names /\ a.global \in [Names -> Entries]
      /\ \A n \in Names : a.global[n] \in T[<<globalSiloName, n>>]
  BY LooksAt
<1>2. scan = [n \in Names |-> GetSiloString(a.channel, n)]
  BY <1>1, ScanExact DEF TypesOK
<1>3. \A n \in Names : scan[n] \in Entries /\ scan[n] \in T[<<a.channel, n>>]
  <2>. TAKE n \in Names
  <2>1. GetSiloString(a.channel, n) \in Entries
    BY <1>1, IsRawKey DEF TypesOK, StoreTypeOK, GetSiloString
  <2>2. database'[EncodeKey(a.channel, n)] = GetSiloString(a.channel, n)
    BY <1>1, Untouched DEF TypesOK
  <2>3. GetSiloString(a.channel, n) \in T[<<a.channel, n>>]
    BY <1>1, <2>2 DEF Sighted
  <2>. QED
    BY <1>2, <2>1, <2>3
<1>4. \A n \in Names : Found(w, n) = IF scan[n] # {} THEN scan[n] ELSE a.global[n]
  BY DEF Found, ByName
<1>. HIDE DEF scan
<1>5. Matching(w) = {n \in a.said : Found(w, n) # {}}
  BY DEF Matching, Found
<1>6. ASSUME NEW n \in Matching(w)
      PROVE  /\ n \in Names /\ Found(w, n) \in Entries /\ WasRegistered(a, T, n, Found(w, n))
  <2>1. n \in a.said /\ n \in Names /\ Found(w, n) # {}
    BY <1>1, <1>5
  <2>2. Found(w, n) = IF scan[n] # {} THEN scan[n] ELSE a.global[n]
    BY <1>4, <2>1
  <2>3. scan[n] \in T[<<a.channel, n>>] /\ a.global[n] \in T[<<globalSiloName, n>>]
          /\ scan[n] \in Entries /\ a.global[n] \in Entries
    BY <1>1, <1>3, <2>1
  <2>. QED
    BY <2>1, <2>2, <2>3 DEF WasRegistered
<1>7. ASSUME NEW n \in Steady(a, T) PROVE n \in Matching(w)
  <2>1. /\ n \in a.said /\ n \in Names
        /\ {} \notin T[<<a.channel, n>>] \/ {} \notin T[<<globalSiloName, n>>]
    BY <1>1 DEF Steady
  <2>2. scan[n] # {} \/ a.global[n] # {}
    BY <1>1, <1>3, <2>1
  <2>3. Found(w, n) # {}
    BY <1>4, <2>1, <2>2
  <2>. QED
    BY <1>5, <2>1, <2>3
<1>. QED
  BY <1>5, <1>6, <1>7

(* Reacting to some of the triggers found, or listing them.                *)
LEMMA Reacted ==
    ASSUME TypesOK, NEW w \in Workers, NEW T, Sighted(w, T),
           Promise(work[w], seen[w]), UNCHANGED storeVars,
           work[w].at \in {"matching", "reacting", "listing"}, ~ScanFails(work[w].channel),
           NEW names, names \subseteq Matching(w),
           Matching(w) \cap Emoji \subseteq names,
           Matching(w) \cap Standard # {} => names \cap Standard # {},
           NEW at \in {"reacted", "listed"}, at = "listed" => names = Matching(w),
           work' = [work EXCEPT ![w] =
                      [work[w] EXCEPT !.at = at, !.reactions = Reactions(w, names)]]
    PROVE  \E b : Keeping(w, T, b)
<1>. DEFINE a == work[w]
            R == Reactions(w, names)
            b == [a EXCEPT !.at = at, !.reactions = R]
            reacting == {r[1] : r \in R}
<1>1. /\ \A n \in Matching(w) : /\ n \in Names /\ Found(w, n) \in Entries
                                /\ WasRegistered(a, T, n, Found(w, n))
      /\ Steady(a, T) \subseteq Matching(w)
  BY Finds
<1>2. R = {<<n, Found(w, n)>> : n \in names}
  BY DEF Reactions, Found
<1>3. R \subseteq Names \X Entries
  BY <1>1, <1>2
<1>4. /\ \A r \in R : WasRegistered(a, T, r[1], r[2])
      /\ reacting = names
  <2>. HIDE DEF R
  <2>1. ASSUME NEW r \in R PROVE r[1] \in names /\ WasRegistered(a, T, r[1], r[2])
    <3>1. PICK n \in names : r = <<n, Found(w, n)>>
      BY <1>2
    <3>2. r[1] = n /\ r[2] = Found(w, n)
      BY <3>1
    <3>. QED
      BY <1>1, <3>2
  <2>2. ASSUME NEW n \in names PROVE n \in reacting
    <3>1. <<n, Found(w, n)>> \in R
      BY <1>2
    <3>. QED
      BY <3>1
  <2>. QED
    BY <2>1, <2>2
<1>5. a \in Looking
  BY LooksAt
<1>. HIDE DEF R
<1>6. /\ b \in Looking /\ b.at = at /\ b.reactions = R /\ b.said = a.said /\ b.channel = a.channel
  BY <1>3, <1>5 DEF Looking
<1>7. work' = [work EXCEPT ![w] = b]
  BY DEF R
<1>. HIDE DEF b
<1>8. /\ \A n, e : WasRegistered(b, T, n, e) <=> WasRegistered(a, T, n, e)
      /\ Steady(b, T) = Steady(a, T)
  BY <1>6 DEF WasRegistered, Steady
<1>9. HasReacted(b, T)
  BY <1>1, <1>4, <1>6, <1>8 DEF HasReacted
<1>. QED
  BY <1>6, <1>7, <1>9, LooksOn DEF HasScanned, HasFailed

LEMMA LooksUp ==
    ASSUME TypesOK, NEW w \in Workers, NEW T, Sighted(w, T),
           Promise(work[w], seen[w]), Match(w) \/ React(w) \/ List(w)
    PROVE  \E b : Keeping(w, T, b)
<1>. DEFINE a == work[w]
<1>1. ASSUME a.at \in {"matching", "reacting", "listing"}
      PROVE  a \in Looking /\ (a.at = "matching" => a.reactions = {})
  BY <1>1, LooksAt
<1>2. CASE Match(w) /\ Matching(w) # {}
  <2>. DEFINE b == [a EXCEPT !.at = "react"]
  <2>1. a.at = "matching" /\ UNCHANGED storeVars /\ work' = [work EXCEPT ![w] = b]
    BY <1>2 DEF Match, Goto
  <2>2. b \in Looking /\ b.at = "react"
    BY <1>1, <2>1 DEF Looking
  <2>. HIDE DEF b
  <2>. QED
    BY <2>1, <2>2, LooksOn DEF HasScanned, HasReacted, HasFailed
<1>3. CASE Match(w) /\ Matching(w) = {}
  <2>1. /\ a.at = "matching" /\ UNCHANGED storeVars /\ ~ScanFails(a.channel)
        /\ work' = [work EXCEPT ![w] = [a EXCEPT !.at = "reacted"]]
    BY <1>3 DEF Match, Goto, CanScan
  <2>2. Reactions(w, {}) = {}
    BY DEF Reactions
  <2>3. [a EXCEPT !.at = "reacted"] = [a EXCEPT !.at = "reacted", !.reactions = {}]
    BY <1>1, <2>1 DEF Looking
  <2>. QED
    BY <1>3, <2>1, <2>2, <2>3, Reacted
<1>4. CASE React(w)
  <2>1. /\ a.at = "reacting" /\ UNCHANGED storeVars /\ ~ScanFails(a.channel)
    BY <1>4 DEF React, CanScan
  <2>2. PICK S \in SUBSET (Matching(w) \cap Standard) :
          /\ Cardinality(S) = IF Matching(w) \cap Standard = {} THEN 0 ELSE 1
          /\ work' = [work EXCEPT ![w] = [a EXCEPT !.at = "reacted",
                        !.reactions = Reactions(w, S \cup (Matching(w) \cap Emoji))]]
    BY <1>4 DEF React
  <2>. DEFINE names == S \cup (Matching(w) \cap Emoji)
  <2>3. Matching(w) \cap Standard # {} => S # {}
    BY <2>2, FS_EmptySet
  <2>4. /\ names \subseteq Matching(w) /\ Matching(w) \cap Emoji \subseteq names
        /\ Matching(w) \cap Standard # {} => names \cap Standard # {}
    BY <2>3
  <2>. HIDE DEF names
  <2>5. work' = [work EXCEPT ![w] = [a EXCEPT !.at = "reacted",
                                              !.reactions = Reactions(w, names)]]
    BY <2>2 DEF names
  <2>. QED
    BY <2>1, <2>4, <2>5, Reacted
<1>5. CASE List(w)
  <2>1. /\ a.at = "listing" /\ UNCHANGED storeVars /\ ~ScanFails(a.channel)
        /\ work' = [work EXCEPT ![w] = [a EXCEPT !.at = "listed",
                      !.reactions = Reactions(w, Matching(w))]]
    BY <1>5 DEF List, CanScan
  <2>. QED
    BY <2>1, Reacted
<1>. QED
  BY <1>2, <1>3, <1>4, <1>5

-----------------------------------------------------------------------------
(* The worker that takes a step has seen the store it leaves, and keeps its *)
(* promise.                                                                *)
LEMMA Finishes ==
    ASSUME TypesOK, NEW w \in Workers, NEW T, Finish(w)
    PROVE  Keeping(w, T, Idle)
<1>1. UNCHANGED storeVars /\ work' = [work EXCEPT ![w] = Idle]
  BY DEF Finish
<1>2. Idle \in Works /\ Idle.at = "idle" /\ Idle \notin Forgetting
  BY DEF Works, Idle, Forgetting
<1>3. Promise(Idle, T)
  BY <1>2 DEF Promise, HasRegistered, HasForgotten, HasScanned, HasReacted, HasFailed
<1>. QED
  BY <1>1, <1>2, <1>3, Untouched DEF Keeping, TypesOK

(* What Observe adds to what a worker has seen.                            *)
LEMMA Observes ==
    ASSUME seen \in [Workers -> Sightings], StoreTypeOK', Observe
    PROVE  /\ seen' \in [Workers -> Sightings]
           /\ \A w \in Workers, k \in Keys : work'[w] # Idle =>
                 seen'[w][k] = seen[w][k] \cup {database'[EncodeKey(k[1], k[2])]}
<1>. DEFINE Now(k) == database'[EncodeKey(k[1], k[2])]
<1>1. \A k \in Keys : Now(k) \in Entries
  <2>. TAKE k \in Keys
  <2>1. EncodeKey(k[1], k[2]) \in RawKeys
    BY IsRawKey DEF Keys
  <2>. QED
    BY <2>1 DEF StoreTypeOK
<1>2. seen' = [w \in Workers |-> IF work'[w] = Idle THEN [k \in Keys |-> {}]
                                 ELSE [k \in Keys |-> seen[w][k] \cup {Now(k)}]]
  BY Zenon DEF Observe, GetSiloString
<1>. HIDE DEF Now
<1>3. ASSUME NEW w \in Workers PROVE seen'[w] \in Sightings
  <2>1. \A k \in Keys : seen[w][k] \cup {Now(k)} \in SUBSET Entries
    BY <1>1 DEF Sightings
  <2>2. [k \in Keys |-> seen[w][k] \cup {Now(k)}] \in Sightings
    BY <2>1 DEF Sightings
  <2>3. [k \in Keys |-> {}] \in Sightings
    BY DEF Sightings
  <2>. QED
    BY <1>2, <2>2, <2>3
<1>4. seen' \in [Workers -> Sightings]
  BY <1>2, <1>3
<1>. QED
  BY <1>2, <1>4 DEF Now

LEMMA WorkerSteps ==
    ASSUME TriggersInv, NEW w \in Workers, Step(w), Observe
    PROVE  TriggersInv'
<1>. DEFINE T == [k \in Keys |-> seen[w][k] \cup {database'[EncodeKey(k[1], k[2])]}]
<1>1. /\ TypesOK /\ Watched /\ Promise(work[w], seen[w])
      /\ work \in [Workers -> Works] /\ seen \in [Workers -> Sightings]
  BY DEF TriggersInv, TypesOK
<1>2. StoreTypeOK' => Sighted(w, T)
  <2>. SUFFICES ASSUME StoreTypeOK' PROVE Sighted(w, T)
    OBVIOUS
  <2>1. \A k \in Keys : database'[EncodeKey(k[1], k[2])] \in Entries
    <3>. TAKE k \in Keys
    <3>1. EncodeKey(k[1], k[2]) \in RawKeys
      BY IsRawKey DEF Keys
    <3>. QED
      BY <3>1 DEF StoreTypeOK
  <2>2. T \in Sightings
    BY <1>1, <2>1 DEF Sightings
  <2>3. \A s \in Silos, n \in Names : database'[EncodeKey(s, n)] \in T[<<s, n>>]
    <3>. TAKE s \in Silos, n \in Names
    <3>1. <<s, n>> \in Keys /\ <<s, n>>[1] = s /\ <<s, n>>[2] = n
      BY SiloFacts
    <3>. QED
      BY <3>1
  <2>. QED
    BY <2>2, <2>3 DEF Sighted
<1>3. StoreTypeOK'
  <2>1. ASSUME UNCHANGED storeVars PROVE StoreTypeOK'
    BY <1>1, <2>1, Untouched DEF TypesOK
  <2>2. CASE \/ HearRegister(w) \/ InvalidReaction(w) \/ HearForget(w) \/ Find(w)
             \/ HearMessage(w) \/ HearList(w) \/ ScanGlobal(w) \/ FailToLoad(w)
             \/ Match(w) \/ React(w) \/ List(w) \/ Finish(w)
    BY <2>1, <2>2 DEF HearRegister, InvalidReaction, HearForget, Find, HearMessage, HearList,
       Begin, ScanGlobal, FailToLoad, Match, React, List, Finish
  <2>3. work[w] \in Works
    BY <1>1
  <2>4. CASE Register(w)
    <3>1. work[w].at = "register"
      BY <2>4 DEF Register
    <3>2. IsRegistering(work[w])
      BY <2>3, <3>1, Shape DEF IsIdle, IsRegistering, IsForgetting, IsLooking
    <3>3. Write(work[w].silo, work[w].name, work[w].reaction) => StoreTypeOK'
      BY <1>1, <3>2, Written DEF IsRegistering, TypesOK
    <3>. QED
      BY <2>1, <2>4, <3>3 DEF Register
  <2>5. CASE Forget(w)
    <3>1. work[w].at = "forgetting"
      BY <2>5 DEF Forget
    <3>2. IsForgetting(work[w])
      BY <2>3, <3>1, Shape DEF IsIdle, IsRegistering, IsForgetting, IsLooking
    <3>3. Write(work[w].silo, work[w].name, {}) => StoreTypeOK'
      BY <1>1, <3>2, Written, NoEntry DEF IsForgetting, TypesOK
    <3>. QED
      BY <2>1, <2>5, <3>3 DEF Forget
  <2>. QED
    BY <2>2, <2>4, <2>5 DEF Step
<1>4. Sighted(w, T)
  BY <1>2, <1>3
<1>5. \E b : Keeping(w, T, b)
  <2>. HIDE DEF T
  <2>1. CASE HearRegister(w) \/ InvalidReaction(w) \/ Register(w)
    BY <1>1, <1>4, <2>1, Registers
  <2>2. CASE HearForget(w) \/ Find(w) \/ Forget(w)
    BY <1>1, <1>4, <2>2, Forgets
  <2>3. CASE HearMessage(w) \/ HearList(w)
    BY <1>1, <1>4, <2>3, Hears
  <2>4. CASE ScanGlobal(w)
    BY <1>1, <1>4, <2>4, ScansGlobal
  <2>5. CASE FailToLoad(w)
    BY <1>1, <1>4, <2>5, FailsToLoad
  <2>6. CASE Match(w) \/ React(w) \/ List(w)
    BY <1>1, <1>4, <2>6, LooksUp
  <2>7. CASE Finish(w)
    BY <1>1, <2>7, Finishes
  <2>. QED
    BY <2>1, <2>2, <2>3, <2>4, <2>5, <2>6, <2>7 DEF Step
<1>6. PICK b : Keeping(w, T, b)
  BY <1>5
<1>7. /\ b \in Works /\ Promise(b, T)
      /\ work' = [work EXCEPT ![w] = b] /\ work' \in [Workers -> Works] /\ work'[w] = b
      /\ \A u \in Workers : u # w => work'[u] = work[u]
  <2>. HIDE DEF T
  <2>. QED
    BY <1>1, <1>6 DEF Keeping
<1>8. /\ seen' \in [Workers -> Sightings]
      /\ \A u \in Workers, k \in Keys : work'[u] # Idle =>
            seen'[u][k] = seen[u][k] \cup {database'[EncodeKey(k[1], k[2])]}
  BY <1>1, <1>3, Observes
<1>9. TypesOK'
  BY <1>3, <1>7, <1>8 DEF TypesOK
<1>10. Watched'
  <2>. SUFFICES ASSUME NEW u \in Workers, work'[u] # Idle, NEW s \in Silos, NEW n \in Names
                PROVE  GetSiloString(s, n)' \in seen'[u][<<s, n>>]
    BY DEF Watched
  <2>1. <<s, n>> \in Keys /\ <<s, n>>[1] = s /\ <<s, n>>[2] = n
    BY SiloFacts
  <2>2. GetSiloString(s, n)' = database'[EncodeKey(s, n)]
    BY DEF GetSiloString
  <2>. QED
    BY <1>8, <2>1, <2>2
<1>11. ASSUME NEW u \in Workers PROVE Promise(work'[u], seen'[u])
  <2>1. CASE u = w /\ b # Idle
    <3>1. \A k \in Keys : T[k] = seen'[w][k]
      BY <1>7, <1>8, <2>1
    <3>2. T \in Sightings /\ seen'[w] \in Sightings
      BY <1>4, <1>8 DEF Sighted
    <3>. HIDE DEF T
    <3>3. \A k \in Keys : T[k] \subseteq seen'[w][k]
      BY <3>1
    <3>4. Promise(b, seen'[w])
      BY <1>7, <3>2, <3>3, Kept
    <3>. QED
      BY <1>7, <2>1, <3>4
  <2>2. CASE u = w /\ b = Idle
    <3>1. T \in Sightings /\ seen'[w] \in Sightings /\ Idle \in Works
      BY <1>4, <1>8 DEF Sighted, Works
    <3>. HIDE DEF T
    <3>2. Promise(Idle, seen'[w])
      BY <1>7, <2>2, <3>1, Kept
    <3>. QED
      BY <1>7, <2>2, <3>2
  <2>3. CASE u # w
    <3>1. work'[u] = work[u] /\ work[u] \in Works /\ seen[u] \in Sightings
            /\ seen'[u] \in Sightings
      BY <1>1, <1>7, <1>8, <2>3
    <3>2. work[u] # Idle => \A k \in Keys : seen[u][k] \subseteq seen'[u][k]
      BY <1>8, <3>1
    <3>3. Promise(work[u], seen[u])
      BY DEF TriggersInv
    <3>4. Promise(work[u], seen'[u])
      BY <1>7, <3>1, <3>2, <3>3, Kept
    <3>. QED
      BY <3>1, <3>4
  <2>. QED
    BY <2>1, <2>2, <2>3
<1>. QED
  BY <1>9, <1>10, <1>11 DEF TriggersInv

LEMMA StorageCloses == ASSUME TriggersInv, CloseStorage PROVE TriggersInv'
<1>1. /\ closed' = TRUE /\ database' = database /\ work' = work /\ seen' = seen
  BY DEF CloseStorage, Close
<1>2. TypesOK' /\ Watched'
  BY <1>1 DEF TriggersInv, TypesOK, StoreTypeOK, Watched, GetSiloString
<1>3. ASSUME NEW w \in Workers PROVE Promise(work'[w], seen'[w])
  <2>1. Promise(work[w], seen[w])
    BY DEF TriggersInv
  <2>. QED
    BY <1>1, <2>1
<1>. QED
  BY <1>2, <1>3 DEF TriggersInv

LEMMA OpensStorage ==
    ASSUME NEW content \in [Keys -> Entries], NewLevelDB(content)
    PROVE  StoreTypeOK
<1>. DEFINE k(raw) == CHOOSE x \in Keys : EncodeKey(x[1], x[2]) = raw
<1>1. ASSUME NEW raw \in RawKeys PROVE k(raw) \in Keys
  <2>1. \E x \in Keys : EncodeKey(x[1], x[2]) = raw
    BY <1>1, Zenon DEF RawKeys
  <2>. QED
    BY <2>1, Zenon
<1>2. database = [raw \in RawKeys |-> content[k(raw)]] /\ closed = FALSE
  BY Zenon DEF NewLevelDB
<1>. HIDE DEF k
<1>3. \A raw \in RawKeys : content[k(raw)] \in Entries
  BY <1>1
<1>. QED
  BY <1>2, <1>3 DEF StoreTypeOK

LEMMA TriggersStart == Init => TriggersInv
<1>. SUFFICES ASSUME Init PROVE TriggersInv
  OBVIOUS
<1>1. StoreTypeOK
  BY OpensStorage DEF Init
<1>2. /\ work = [w \in Workers |-> Idle] /\ seen = [w \in Workers |-> [k \in Keys |-> {}]]
      /\ Idle \in Works /\ Idle.at = "idle" /\ Idle \notin Forgetting
  BY DEF Init, Works, Idle, Forgetting
<1>3. TypesOK /\ Watched
  BY <1>1, <1>2 DEF TypesOK, Sightings, Watched
<1>4. \A S, c : Promise(Idle, S)
  BY <1>2 DEF Promise, HasRegistered, HasForgotten, HasScanned, HasReacted, HasFailed
<1>. QED
  BY <1>2, <1>3, <1>4 DEF TriggersInv

(* What is stored and scanned, and what every worker has done, goes with   *)
(* what it has seen of the silos (plugins/triggerer.go, store/leveldb.go). *)
THEOREM TriggersInvariant == Spec => []TriggersInv
<1>1. TriggersInv /\ [Next]_vars => TriggersInv'
  <2>. SUFFICES ASSUME TriggersInv, [Next]_vars PROVE TriggersInv'
    OBVIOUS
  <2>1. CASE Next
    BY <2>1, WorkerSteps, StorageCloses DEF Next
  <2>2. CASE UNCHANGED vars
    BY <2>2 DEF vars, storeVars, TriggersInv, TypesOK, StoreTypeOK, Watched, GetSiloString
  <2>. QED
    BY <2>1, <2>2
<1>. QED
  BY <1>1, TriggersStart, PTL DEF Spec

(* A scan of a silo has exactly the silo's keys, and agrees with the scan  *)
(* of all silos (leveldb.go:131-172), whatever the keys are.               *)
THEOREM ScansAlwaysRight == Spec => []ScansAgree
<1>1. TriggersInv => ScansAgree
  BY ScansAlwaysAgree DEF TriggersInv, TypesOK
<1>. QED
  BY <1>1, TriggersInvariant, PTL

(* A forget command deletes one trigger at most, and that of all channels  *)
(* only if its lookup did not find the channel's: there was none, or its   *)
(* reaction was empty, or the lookup failed (triggerer.go:424-466).        *)
THEOREM OneForgotten == Spec => []ForgetsOnlyOne
<1>1. TriggersInv => ForgetsOnlyOne
  <2>. SUFFICES ASSUME TriggersInv, NEW w \in Workers, "deleted" \in DOMAIN work[w]
                PROVE  /\ Cardinality(work[w].deleted) <= 1
                       /\ globalSiloName \in work[w].deleted =>
                              NotFound(w, work[w].channel)
    BY DEF ForgetsOnlyOne
  <2>1. work[w] \in Works /\ HasForgotten(work[w], seen[w])
    BY DEF TriggersInv, TypesOK, Promise
  <2>2. IsForgetting(work[w])
    <3>1. ~IsIdle(work[w])
      <4>1. DOMAIN Idle = {"at"}
        BY DEF Idle
      <4>. QED
        BY <4>1 DEF IsIdle
    <3>2. ~IsRegistering(work[w])
      BY DEF IsRegistering, Registering
    <3>3. ~IsLooking(work[w])
      <4>1. work[w] \in Looking =>
              DOMAIN work[w] = {"at", "channel", "said", "global", "reactions", "unread"}
        BY DEF Looking
      <4>2. IsLooking(work[w]) => work[w] \in Looking
        BY DEF IsLooking
      <4>. QED
        BY <4>1, <4>2
    <3>. QED
      BY <2>1, <3>1, <3>2, <3>3, Shape
  <2>3. CASE work[w].deleted = {}
    BY <2>3, FS_EmptySet
  <2>4. CASE work[w].deleted # {}
    <3>1. work[w].at = "forgotten"
      BY <2>1, <2>2, <2>4 DEF HasForgotten, IsForgetting
    <3>2. work[w].deleted = {work[w].silo} /\ Fallback(work[w], seen[w])
      BY <2>1, <3>1 DEF HasForgotten
    <3>3. Cardinality(work[w].deleted) = 1
      BY <3>2, FS_Singleton
    <3>4. Cardinality(work[w].deleted) <= 1
      BY <3>3
    <3>5. globalSiloName \in work[w].deleted => NotFound(w, work[w].channel)
      BY <2>2, <3>2, SiloFacts DEF IsForgetting, Fallback, Missing, NotFound
    <3>. QED
      BY <3>4, <3>5
  <2>. QED
    BY <2>3, <2>4
<1>. QED
  BY <1>1, TriggersInvariant, PTL

(* A reaction was registered while its message was handled, and is the     *)
(* channel's if the channel had one throughout: "channel version wins"     *)
(* (triggerer.go:513), however scans and commands interleave.              *)
THEOREM ReactionsAreRegistered == Spec => []ReactsAsRegistered
<1>1. TriggersInv => ReactsAsRegistered
  BY DEF TriggersInv, Promise, HasReacted, WasRegistered, ReactsAsRegistered
<1>. QED
  BY <1>1, TriggersInvariant, PTL

(* What a command answers was so while it was executed; "no trigger found" *)
(* means that neither lookup found one (triggerer.go:299, :424).           *)
THEOREM AnswersWereTrue == Spec => []AnswersAreTrue
<1>1. TriggersInv => AnswersAreTrue
  BY DEF TriggersInv, Promise, HasRegistered, HasForgotten, Missing, AnswersAreTrue, NotFound
<1>. QED
  BY <1>1, TriggersInvariant, PTL

(* No trigger that stays registered is missed, by a message or by a list,  *)
(* unless a scan failed, by an error of the database or because there were *)
(* triggers that have its delimiter (triggerer.go:214, :255, :480).        *)
THEOREM TriggersNotMissed == Spec => []NoTriggerMissed
<1>1. TriggersInv => NoTriggerMissed
  <2>. SUFFICES ASSUME TriggersInv, NEW w \in Workers
                PROVE  NoTriggerMissed!(w)
    BY DEF NoTriggerMissed
  <2>. QED
    BY DEF TriggersInv, Promise, HasReacted, HasFailed, Steady, Throughout
<1>. QED
  BY <1>1, TriggersInvariant, PTL
=============================================================================
