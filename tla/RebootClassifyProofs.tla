------------------------ MODULE RebootClassifyProofs ------------------------
(***************************************************************************)
(* Proofs about RebootClassify, for every set of registers, every way to   *)
(* find the properties of a device and every number of derivations.        *)
(***************************************************************************)
EXTENDS RebootClassify, WellFoundedInduction, SequenceTheorems, TLAPS

(***************************************************************************)
(* The table of map_hardware_reason.                                       *)
(***************************************************************************)
\* The smallest number of a set of numbers is one of them.
LEMMA SmallestExists ==
    ASSUME NEW S \in SUBSET Nat, S # {}
    PROVE  Min(S) \in S /\ \A y \in S : Min(S) <= y
<1>1. PICK x \in S : \A y \in S : ~(<<y, x>> \in OpToRel(<, Nat))
  BY NatLessThanWellFounded, WFMin, Zenon
<1>2. \A y \in S : <<y, x>> \notin OpToRel(<, Nat) => ~(y < x)
  BY DEF OpToRel
<1>3. ASSUME NEW y \in S PROVE x <= y
  <2>1. ~(y < x)
    BY <1>1, <1>2, Zenon
  <2>2. x \in Nat /\ y \in Nat
    OBVIOUS
  <2> QED BY <2>1, <2>2
<1> QED BY <1>3 DEF Min

\* A row names a source and a reason, and not the reasons that logs decide.
Ordinary(row) == row.source # "" /\ row.reason \notin {NoName, FwFailure, Panic}

\* Every row but the one for a kernel panic is of that kind.
LEMMA OrdinaryRows ==
    \A i \in DOMAIN HardwareRows \ {3} : Ordinary(HardwareRows[i])
<1>1. Ordinary(HardwareRows[1])
  BY DEF HardwareRows, Row, Ordinary, NoName, FwFailure, Panic, Software
<1>2. Ordinary(HardwareRows[2])
  BY DEF HardwareRows, Row, Ordinary, NoName, FwFailure, Panic
<1>4. Ordinary(HardwareRows[4])
  BY DEF HardwareRows, Row, Ordinary, NoName, FwFailure, Panic, PowerOn
<1>5. Ordinary(HardwareRows[5])
  BY DEF HardwareRows, Row, Ordinary, NoName, FwFailure, Panic
<1>6. Ordinary(HardwareRows[6])
  BY DEF HardwareRows, Row, Ordinary, NoName, FwFailure, Panic
<1>7. Ordinary(HardwareRows[7])
  BY DEF HardwareRows, Row, Ordinary, NoName, FwFailure, Panic
<1>8. Ordinary(HardwareRows[8])
  BY DEF HardwareRows, Row, Ordinary, NoName, FwFailure, Panic
<1>9. Ordinary(HardwareRows[9])
  BY DEF HardwareRows, Row, Ordinary, NoName, FwFailure, Panic
<1>10. Ordinary(HardwareRows[10])
  BY DEF HardwareRows, Row, Ordinary, NoName, FwFailure, Panic
<1>11. Ordinary(HardwareRows[11])
  BY DEF HardwareRows, Row, Ordinary, NoName, FwFailure, Panic
<1>12. Ordinary(HardwareRows[12])
  BY DEF HardwareRows, Row, Ordinary, NoName, FwFailure, Panic
<1>13. Ordinary(HardwareRows[13])
  BY DEF HardwareRows, Row, Ordinary, NoName, FwFailure, Panic
<1>14. Ordinary(HardwareRows[14])
  BY DEF HardwareRows, Row, Ordinary, NoName, FwFailure, Panic
<1>15. Ordinary(HardwareRows[15])
  BY DEF HardwareRows, Row, Ordinary, NoName, FwFailure, Panic
<1>16. Ordinary(HardwareRows[16])
  BY DEF HardwareRows, Row, Ordinary, NoName, FwFailure, Panic
<1>17. Ordinary(HardwareRows[17])
  BY DEF HardwareRows, Row, Ordinary, NoName, FwFailure, Panic
<1>18. Ordinary(HardwareRows[18])
  BY DEF HardwareRows, Row, Ordinary, NoName, FwFailure, Panic
<1>19. Ordinary(HardwareRows[19])
  BY DEF HardwareRows, Row, Ordinary, NoName, FwFailure, Panic
<1>20. Ordinary(HardwareRows[20])
  BY DEF HardwareRows, Row, Ordinary, NoName, FwFailure, Panic
<1>21. Ordinary(HardwareRows[21])
  BY DEF HardwareRows, Row, Ordinary, NoName, FwFailure, Panic
<1>22. DOMAIN HardwareRows = 1..21
  BY DEF HardwareRows
<1>23. \A i \in 1..21 : i # 3 =>
          \/ i = 1 \/ i = 2 \/ i = 4 \/ i = 5 \/ i = 6 \/ i = 7 \/ i = 8
          \/ i = 9 \/ i = 10 \/ i = 11 \/ i = 12 \/ i = 13 \/ i = 14 \/ i = 15
          \/ i = 16 \/ i = 17 \/ i = 18 \/ i = 19 \/ i = 20 \/ i = 21
  OBVIOUS
<1>24. TAKE i \in DOMAIN HardwareRows \ {3}
<1>25. i \in 1..21 /\ i # 3
  BY <1>22
<1>26. \/ i = 1 \/ i = 2 \/ i = 4 \/ i = 5 \/ i = 6 \/ i = 7 \/ i = 8
       \/ i = 9 \/ i = 10 \/ i = 11 \/ i = 12 \/ i = 13 \/ i = 14 \/ i = 15
       \/ i = 16 \/ i = 17 \/ i = 18 \/ i = 19 \/ i = 20 \/ i = 21
  BY <1>23, <1>25
<1> QED
  BY <1>26, <1>1, <1>2, <1>4, <1>5, <1>6, <1>7, <1>8, <1>9, <1>10, <1>11, <1>12, <1>13,
     <1>14, <1>15, <1>16, <1>17, <1>18, <1>19, <1>20, <1>21, Zenon

PanicReset == <<"KERNEL", "PANIC", "RESET">>

\* The row for a kernel panic.
LEMMA PanicRow ==
    /\ HardwareRows[3].source # "" /\ HardwareRows[3].reason = Panic
    /\ HardwareRows[3].patterns = {Panic, PanicReset}
BY DEF HardwareRows, Row, PanicReset

LEMMA PanicIs ==
    ASSUME NEW name \in Seq(STRING), NEW i \in Nat, i + 2 <= Len(name),
           name[i + 1] = "KERNEL", name[i + 2] = "PANIC"
    PROVE  SubSeq(name, i + 1, i + 2) = Panic
<1> DEFINE cut == SubSeq(name, i + 1, i + 2)
<1>1. cut \in Seq(STRING) /\ Len(cut) = 2 /\ cut[1] = name[i + 1] /\ cut[2] = name[i + 2]
  OBVIOUS
<1>2. Panic \in Seq(STRING) /\ Len(Panic) = 2 /\ Panic[1] = "KERNEL" /\ Panic[2] = "PANIC"
  BY DEF Panic
<1>3. \A j \in 1..2 : j = 1 \/ j = 2
  OBVIOUS
<1> HIDE DEF cut
<1>4. \A j \in 1 .. Len(cut) : cut[j] = Panic[j]
  BY <1>1, <1>2, <1>3
<1> QED BY <1>1, <1>2, <1>4, SeqEqual DEF cut

\* A name with a KERNEL_PANIC_RESET has a KERNEL_PANIC, and so has KERNEL_PANIC.
LEMMA PanicInside ==
    ASSUME NEW name \in Seq(STRING)
    PROVE  /\ Contains(name, PanicReset) => Contains(name, Panic)
           /\ name = Panic => Contains(name, Panic)
<1>1. ASSUME Contains(name, PanicReset) PROVE Contains(name, Panic)
  <2>1. Len(PanicReset) = 3 /\ Len(Panic) = 2
    BY DEF PanicReset, Panic
  <2>2. PICK i \in 0 .. Len(name) - 3 : SubSeq(name, i + 1, i + 3) = PanicReset
    BY <1>1, <2>1 DEF Contains
  <2>3. i \in 0 .. Len(name) - 2 /\ i \in Nat
    BY <2>2
  <2>4. SubSeq(name, i + 1, i + 3)[1] = name[i + 1]
        /\ SubSeq(name, i + 1, i + 3)[2] = name[i + 2]
    BY <2>2, <2>3
  <2>5. PanicReset[1] = "KERNEL" /\ PanicReset[2] = "PANIC"
    BY DEF PanicReset
  <2>6. name[i + 1] = "KERNEL" /\ name[i + 2] = "PANIC"
    BY <2>2, <2>4, <2>5
  <2>7. SubSeq(name, i + 1, i + 2) = Panic
    BY <2>3, <2>6, PanicIs
  <2> QED BY <2>1, <2>3, <2>7 DEF Contains
<1>2. ASSUME name = Panic PROVE Contains(name, Panic)
  <2>1. name[1] = "KERNEL" /\ name[2] = "PANIC" /\ Len(name) = 2
    BY <1>2 DEF Panic
  <2>2. SubSeq(name, 0 + 1, 0 + 2) = Panic
    BY <2>1, PanicIs
  <2>3. Len(Panic) = 2
    BY DEF Panic
  <2> QED BY <2>1, <2>2, <2>3 DEF Contains
<1> QED BY <1>1, <1>2

\* What map_hardware_reason makes of a name: never an empty source or reason, and
\* a failure or a panic only out of a name that says so.
LEMMA MappedSoundly ==
    ASSUME NEW name \in Seq(STRING), name # NoName,
           NEW mapped, mapped = map_hardware_reason(name)
    PROVE  /\ mapped.source # "" /\ mapped.reason # NoName
           /\ mapped.reason = FwFailure => name = FwFailure
           /\ mapped.reason = Panic => Contains(name, Panic)
<1> DEFINE hits == {i \in DOMAIN HardwareRows :
                      \E p \in HardwareRows[i].patterns : Contains(name, p)}
           row  == HardwareRows[Min(hits)]
<1>1. CASE hits = {}
  <2>1. mapped = [source |-> "Unknown", reason |-> name]
    BY <1>1, Zenon DEF map_hardware_reason
  <2>2. mapped.source = "Unknown" /\ mapped.reason = name
    BY <2>1
  <2> QED BY <2>2, PanicInside
<1>2. CASE hits # {}
  <2>1. DOMAIN HardwareRows \subseteq Nat
    BY DEF HardwareRows
  <2>2. Min(hits) \in hits
    <3> HIDE DEF hits
    <3>1. hits \in SUBSET Nat
      BY <2>1 DEF hits
    <3> QED BY <1>2, <3>1, SmallestExists
  <2>3. PICK p \in row.patterns : Contains(name, p)
    BY <2>2, Zenon
  <2>4. mapped = [source |-> row.source, reason |-> row.reason]
    BY <1>2, Zenon DEF map_hardware_reason
  <2>5. mapped.source = row.source /\ mapped.reason = row.reason
    <3> HIDE DEF row
    <3> QED BY <2>4
  <2>6. CASE Min(hits) = 3
    <3>0. row = HardwareRows[3]
      BY <2>6
    <3>1. row.source # "" /\ row.reason = Panic /\ p \in {Panic, PanicReset}
      <4> HIDE DEF row
      <4> QED BY <2>3, <3>0, PanicRow
    <3>2. Contains(name, Panic)
      BY <2>3, <3>1, PanicInside, Zenon
    <3>3. Panic # NoName /\ Panic # FwFailure
      BY DEF Panic, NoName, FwFailure
    <3> QED BY <2>5, <3>1, <3>2, <3>3, Zenon
  <2>7. CASE Min(hits) # 3
    <3>1. Min(hits) \in DOMAIN HardwareRows \ {3}
      BY <2>2, <2>7, Zenon
    <3>2. Ordinary(row)
      BY <3>1, OrdinaryRows, Zenon
    <3>3. row.source # "" /\ row.reason # NoName
          /\ row.reason # FwFailure /\ row.reason # Panic
      BY <3>2, Zenon DEF Ordinary
    <3> QED BY <2>5, <3>3, Zenon
  <2> QED BY <2>6, <2>7, Zenon
<1> QED BY <1>1, <1>2, Zenon

-----------------------------------------------------------------------------
(***************************************************************************)
(* The table of the program and the table of the script.                   *)
(***************************************************************************)
Hit(name, i) == \E p \in HardwareRows[i].patterns : Contains(name, p)

MappedTo(name) == map_hardware_reason(name).reason

\* map_hardware_reason passes the name on, or takes the first row that has a part
\* of it.
LEMMA FirstHit ==
    ASSUME NEW name
    PROVE  \/ MappedTo(name) = name /\ \A i \in 1..21 : ~Hit(name, i)
           \/ \E k \in 1..21 : /\ Hit(name, k) /\ \A i \in 1..21 : Hit(name, i) => k <= i
                               /\ MappedTo(name) = HardwareRows[k].reason
<1> DEFINE hits == {i \in DOMAIN HardwareRows :
                      \E p \in HardwareRows[i].patterns : Contains(name, p)}
           row  == HardwareRows[Min(hits)]
<1>1. DOMAIN HardwareRows = 1..21
  BY DEF HardwareRows
<1>2. \A i \in 1..21 : i \in hits <=> Hit(name, i)
  BY <1>1, Zenon DEF Hit
<1>3. CASE hits = {}
  <2>1. map_hardware_reason(name) = [source |-> "Unknown", reason |-> name]
    BY <1>3, Zenon DEF map_hardware_reason
  <2>2. MappedTo(name) = name
    BY <2>1 DEF MappedTo
  <2>3. \A i \in 1..21 : ~Hit(name, i)
    BY <1>2, <1>3, Zenon
  <2> QED BY <2>2, <2>3
<1>4. CASE hits # {}
  <2>1. Min(hits) \in hits /\ \A y \in hits : Min(hits) <= y
    <3> HIDE DEF hits
    <3>1. hits \in SUBSET Nat
      BY <1>1 DEF hits
    <3> QED BY <1>4, <3>1, SmallestExists
  <2>2. map_hardware_reason(name) = [source |-> row.source, reason |-> row.reason]
    BY <1>4, Zenon DEF map_hardware_reason
  <2>3. MappedTo(name) = row.reason
    <3> HIDE DEF row
    <3> QED BY <2>2 DEF MappedTo
  <2>4. Min(hits) \in 1..21
    BY <1>1, <2>1, Zenon
  <2>5. Hit(name, Min(hits)) /\ \A i \in 1..21 : Hit(name, i) => Min(hits) <= i
    BY <1>2, <2>1, <2>4, Zenon
  <2> QED BY <2>3, <2>4, <2>5, Zenon
<1> QED BY <1>3, <1>4

\* A row with a part of the name, and none before it, is the one that counts.
LEMMA Taken ==
    ASSUME NEW name, NEW k \in 1..21, NEW p \in HardwareRows[k].patterns,
           Contains(name, p), \A i \in 1..(k - 1) : ~Hit(name, i)
    PROVE  MappedTo(name) = HardwareRows[k].reason
<1>1. Hit(name, k)
  BY Zenon DEF Hit
<1>2. PICK n \in 1..21 : /\ Hit(name, n) /\ \A i \in 1..21 : Hit(name, i) => n <= i
                         /\ MappedTo(name) = HardwareRows[n].reason
  BY <1>1, FirstHit, Zenon
<1>3. n <= k
  BY <1>1, <1>2, Zenon
<1>4. n = k
  <2>1. n \notin 1..(k - 1)
    BY <1>2, Zenon
  <2> QED BY <1>3, <2>1
<1> QED BY <1>2, <1>4

\* A pattern that a name contains brings its words.
Says(p, k, words) == Len(p) \in Nat /\ k \in 1 .. Len(p) /\ p[k] \in words

LEMMA WordsInside ==
    ASSUME NEW S, NEW name \in Seq(S), NEW p, NEW k, NEW words, Says(p, k, words),
           Contains(name, p)
    PROVE  \E j \in 1 .. Len(name) : name[j] \in words
<1>1. PICK i \in 0 .. Len(name) - Len(p) : SubSeq(name, i + 1, i + Len(p)) = p
  BY DEF Contains
<1>2. SubSeq(name, i + 1, i + Len(p))[k] = name[i + k]
  BY <1>1 DEF Says
<1>3. i + k \in 1 .. Len(name)
  BY <1>1 DEF Says
<1> QED BY <1>1, <1>2, <1>3 DEF Says

\* A name contains what stands in it at some place.
LEMMA InsideAt ==
    ASSUME NEW S, NEW name \in Seq(S), NEW p \in Seq(S),
           NEW i \in 0 .. Len(name) - Len(p), \A k \in 1 .. Len(p) : name[i + k] = p[k]
    PROVE  Contains(name, p)
<1> DEFINE cut == SubSeq(name, i + 1, i + Len(p))
<1>1. PICK n \in Nat : n = Len(p)
  OBVIOUS
<1>2. cut \in Seq(S) /\ Len(cut) = n /\ \A k \in 1 .. n : cut[k] = name[i + k]
  BY <1>1
<1> HIDE DEF cut
<1>3. cut = p
  BY <1>1, <1>2, SeqEqual
<1>4. SubSeq(name, i + 1, i + Len(p)) = p
  BY <1>3 DEF cut
<1> QED BY <1>4 DEF Contains

\* In particular what it begins with.
LEMMA BeginningInside ==
    ASSUME NEW S, NEW name \in Seq(S), NEW p \in Seq(S), Len(p) <= Len(name),
           \A k \in 1 .. Len(p) : name[k] = p[k]
    PROVE  Contains(name, p)
<1>1. /\ 0 \in 0 .. Len(name) - Len(p)
      /\ \A k \in 1 .. Len(p) : name[0 + k] = p[k]
  OBVIOUS
<1> QED BY <1>1, InsideAt, Zenon

\* The patterns and the reasons of the rows.
LEMMA TableRows ==
    /\ HardwareRows[1].patterns = {Software, <<"SOFTWARE", "RESET">>, <<"SOFTWARE",
        "REBOOT">>, <<"SW", "RESET">>, <<"SOFTWARE">>}
    /\ HardwareRows[1].reason = Software
    /\ HardwareRows[2].patterns = {<<"WATCHDOG">>}
    /\ HardwareRows[2].reason = <<"WATCHDOG", "TIMER", "RESET">>
    /\ HardwareRows[3].patterns = {Panic, <<"KERNEL", "PANIC", "RESET">>}
    /\ HardwareRows[3].reason = Panic
    /\ HardwareRows[4].patterns = {<<"POWER", "ON">>, <<"HARDWARE">>}
    /\ HardwareRows[4].reason = PowerOn
    /\ HardwareRows[5].patterns = {<<"MAIN", "CHIP", "INPUT", "RESET">>}
    /\ HardwareRows[5].reason = <<"MAIN", "CHIP", "INPUT", "RESET">>
    /\ HardwareRows[6].patterns = {<<"MAIN", "CHIP", "RESET", "INPUT">>}
    /\ HardwareRows[6].reason = <<"MAIN", "CHIP", "RESET", "INPUT">>
    /\ HardwareRows[7].patterns = {<<"TAP", "IN", "SYSTEM", "RESET">>}
    /\ HardwareRows[7].reason = <<"TAP", "IN", "SYSTEM", "RESET">>
    /\ HardwareRows[8].patterns = {<<"FRONT", "PANEL", "4SEC", "RESET">>, <<"FRONT",
        "PANEL", "RESET">>}
    /\ HardwareRows[8].reason = <<"FRONT", "PANEL", "RESET">>
    /\ HardwareRows[9].patterns = {<<"S3", "WAKEUP", "RESET">>}
    /\ HardwareRows[9].reason = <<"S3", "WAKEUP", "RESET">>
    /\ HardwareRows[10].patterns = {<<"SMARTCARD", "INSERT", "RESET">>}
    /\ HardwareRows[10].reason = <<"SMARTCARD", "INSERT", "RESET">>
    /\ HardwareRows[11].patterns = {<<"OVERTEMP">>, <<"OVERHEAT">>}
    /\ HardwareRows[11].reason = <<"OVERTEMP", "RESET">>
    /\ HardwareRows[12].patterns = {<<"OVERVOLTAGE">>}
    /\ HardwareRows[12].reason = <<"OVERVOLTAGE", "RESET">>
    /\ HardwareRows[13].patterns = {<<"UNDERVOLTAGE">>, <<"UNDERVOLTAGE", "0",
        "RESET">>, <<"UNDERVOLTAGE", "1", "RESET">>}
    /\ HardwareRows[13].reason = <<"UNDERVOLTAGE", "RESET">>
    /\ HardwareRows[14].patterns = {<<"PCIE", "0", "HOT", "BOOT", "RESET">>, <<"PCIE",
        "1", "HOT", "BOOT", "RESET">>, <<"PCIE", "HOT", "BOOT", "RESET">>}
    /\ HardwareRows[14].reason = <<"PCIE", "HOT", "BOOT", "RESET">>
    /\ HardwareRows[15].patterns = {<<"SECURITY", "MASTER", "RESET">>}
    /\ HardwareRows[15].reason = <<"SECURITY", "MASTER", "RESET">>
    /\ HardwareRows[16].patterns = {<<"CPU", "EJTAG", "RESET">>}
    /\ HardwareRows[16].reason = <<"CPU", "EJTAG", "RESET">>
    /\ HardwareRows[17].patterns = {<<"S", "CPU", "EJTAG", "RESET">>}
    /\ HardwareRows[17].reason = <<"S", "CPU", "EJTAG", "RESET">>
    /\ HardwareRows[18].patterns = {<<"GEN", "WATCHDOG", "1", "RESET">>, <<"GEN",
        "WATCHDOG", "RESET">>}
    /\ HardwareRows[18].reason = <<"GEN", "WATCHDOG", "RESET">>
    /\ HardwareRows[19].patterns = {<<"AUX", "CHIP", "EDGE", "RESET", "0">>, <<"AUX",
        "CHIP", "EDGE", "RESET", "1">>, <<"AUX", "CHIP", "EDGE", "RESET">>}
    /\ HardwareRows[19].reason = <<"AUX", "CHIP", "EDGE", "RESET">>
    /\ HardwareRows[20].patterns = {<<"AUX", "CHIP", "LEVEL", "RESET", "0">>, <<"AUX",
        "CHIP", "LEVEL", "RESET", "1">>, <<"AUX", "CHIP", "LEVEL", "RESET">>}
    /\ HardwareRows[20].reason = <<"AUX", "CHIP", "LEVEL", "RESET">>
    /\ HardwareRows[21].patterns = {<<"MPM", "RESET">>}
    /\ HardwareRows[21].reason = <<"MPM", "RESET">>
BY DEF HardwareRows, Row

\* Words without which a name has no part that the row knows.
RowWords ==
    <<{"SOFTWARE", "SW"}, {"WATCHDOG"}, {"KERNEL"}, {"ON", "HARDWARE"}, {"MAIN"},
      {"MAIN"}, {"TAP"}, {"FRONT"}, {"S3"}, {"SMARTCARD"}, {"OVERTEMP", "OVERHEAT"},
      {"OVERVOLTAGE"}, {"UNDERVOLTAGE"}, {"PCIE"}, {"SECURITY"}, {"CPU"}, {"S"},
      {"GEN"}, {"EDGE"}, {"LEVEL"}, {"MPM"}>>

\* The words, row by row.
LEMMA TableWords ==
    /\ RowWords[1] = {"SOFTWARE", "SW"} /\ RowWords[2] = {"WATCHDOG"}
    /\ RowWords[3] = {"KERNEL"} /\ RowWords[4] = {"ON", "HARDWARE"}
    /\ RowWords[5] = {"MAIN"}
    /\ RowWords[6] = {"MAIN"} /\ RowWords[7] = {"TAP"} /\ RowWords[8] = {"FRONT"}
    /\ RowWords[9] = {"S3"} /\ RowWords[10] = {"SMARTCARD"}
    /\ RowWords[11] = {"OVERTEMP", "OVERHEAT"} /\ RowWords[12] = {"OVERVOLTAGE"}
    /\ RowWords[13] = {"UNDERVOLTAGE"} /\ RowWords[14] = {"PCIE"}
    /\ RowWords[15] = {"SECURITY"} /\ RowWords[16] = {"CPU"} /\ RowWords[17] = {"S"}
    /\ RowWords[18] = {"GEN"} /\ RowWords[19] = {"EDGE"}
    /\ RowWords[20] = {"LEVEL"} /\ RowWords[21] = {"MPM"}
BY DEF RowWords

\* Every pattern of a row has one of its words.
Worded(P, words) == \A p \in P : \E k : Says(p, k, words)

LEMMA RowSays == \A i \in 1..21 : Worded(HardwareRows[i].patterns, RowWords[i])
<1>1. Worded(HardwareRows[1].patterns, RowWords[1])
  <2>1. Says(Software, 1, {"SOFTWARE", "SW"})
    BY DEF Says, Software
  <2>2. Says(<<"SOFTWARE", "RESET">>, 1, {"SOFTWARE", "SW"})
    BY DEF Says
  <2>3. Says(<<"SOFTWARE", "REBOOT">>, 1, {"SOFTWARE", "SW"})
    BY DEF Says
  <2>4. Says(<<"SW", "RESET">>, 1, {"SOFTWARE", "SW"})
    BY DEF Says
  <2>5. Says(<<"SOFTWARE">>, 1, {"SOFTWARE", "SW"})
    BY DEF Says
  <2>6. Worded({Software, <<"SOFTWARE", "RESET">>, <<"SOFTWARE", "REBOOT">>, <<"SW",
            "RESET">>, <<"SOFTWARE">>}, {"SOFTWARE", "SW"})
    BY <2>1, <2>2, <2>3, <2>4, <2>5, Zenon DEF Worded
  <2> QED BY <2>6, TableRows, TableWords
<1>2. Worded(HardwareRows[2].patterns, RowWords[2])
  <2>1. Says(<<"WATCHDOG">>, 1, {"WATCHDOG"})
    BY DEF Says
  <2>2. Worded({<<"WATCHDOG">>}, {"WATCHDOG"})
    BY <2>1, Zenon DEF Worded
  <2> QED BY <2>2, TableRows, TableWords
<1>3. Worded(HardwareRows[3].patterns, RowWords[3])
  <2>1. Says(Panic, 1, {"KERNEL"})
    BY DEF Says, Panic
  <2>2. Says(<<"KERNEL", "PANIC", "RESET">>, 1, {"KERNEL"})
    BY DEF Says
  <2>3. Worded({Panic, <<"KERNEL", "PANIC", "RESET">>}, {"KERNEL"})
    BY <2>1, <2>2, Zenon DEF Worded
  <2> QED BY <2>3, TableRows, TableWords
<1>4. Worded(HardwareRows[4].patterns, RowWords[4])
  <2>1. Says(<<"POWER", "ON">>, 2, {"ON", "HARDWARE"})
    BY DEF Says
  <2>2. Says(<<"HARDWARE">>, 1, {"ON", "HARDWARE"})
    BY DEF Says
  <2>3. Worded({<<"POWER", "ON">>, <<"HARDWARE">>}, {"ON", "HARDWARE"})
    BY <2>1, <2>2, Zenon DEF Worded
  <2> QED BY <2>3, TableRows, TableWords
<1>5. Worded(HardwareRows[5].patterns, RowWords[5])
  <2>1. Says(<<"MAIN", "CHIP", "INPUT", "RESET">>, 1, {"MAIN"})
    BY DEF Says
  <2>2. Worded({<<"MAIN", "CHIP", "INPUT", "RESET">>}, {"MAIN"})
    BY <2>1, Zenon DEF Worded
  <2> QED BY <2>2, TableRows, TableWords
<1>6. Worded(HardwareRows[6].patterns, RowWords[6])
  <2>1. Says(<<"MAIN", "CHIP", "RESET", "INPUT">>, 1, {"MAIN"})
    BY DEF Says
  <2>2. Worded({<<"MAIN", "CHIP", "RESET", "INPUT">>}, {"MAIN"})
    BY <2>1, Zenon DEF Worded
  <2> QED BY <2>2, TableRows, TableWords
<1>7. Worded(HardwareRows[7].patterns, RowWords[7])
  <2>1. Says(<<"TAP", "IN", "SYSTEM", "RESET">>, 1, {"TAP"})
    BY DEF Says
  <2>2. Worded({<<"TAP", "IN", "SYSTEM", "RESET">>}, {"TAP"})
    BY <2>1, Zenon DEF Worded
  <2> QED BY <2>2, TableRows, TableWords
<1>8. Worded(HardwareRows[8].patterns, RowWords[8])
  <2>1. Says(<<"FRONT", "PANEL", "4SEC", "RESET">>, 1, {"FRONT"})
    BY DEF Says
  <2>2. Says(<<"FRONT", "PANEL", "RESET">>, 1, {"FRONT"})
    BY DEF Says
  <2>3. Worded({<<"FRONT", "PANEL", "4SEC", "RESET">>, <<"FRONT", "PANEL", "RESET">>},
            {"FRONT"})
    BY <2>1, <2>2, Zenon DEF Worded
  <2> QED BY <2>3, TableRows, TableWords
<1>9. Worded(HardwareRows[9].patterns, RowWords[9])
  <2>1. Says(<<"S3", "WAKEUP", "RESET">>, 1, {"S3"})
    BY DEF Says
  <2>2. Worded({<<"S3", "WAKEUP", "RESET">>}, {"S3"})
    BY <2>1, Zenon DEF Worded
  <2> QED BY <2>2, TableRows, TableWords
<1>10. Worded(HardwareRows[10].patterns, RowWords[10])
  <2>1. Says(<<"SMARTCARD", "INSERT", "RESET">>, 1, {"SMARTCARD"})
    BY DEF Says
  <2>2. Worded({<<"SMARTCARD", "INSERT", "RESET">>}, {"SMARTCARD"})
    BY <2>1, Zenon DEF Worded
  <2> QED BY <2>2, TableRows, TableWords
<1>11. Worded(HardwareRows[11].patterns, RowWords[11])
  <2>1. Says(<<"OVERTEMP">>, 1, {"OVERTEMP", "OVERHEAT"})
    BY DEF Says
  <2>2. Says(<<"OVERHEAT">>, 1, {"OVERTEMP", "OVERHEAT"})
    BY DEF Says
  <2>3. Worded({<<"OVERTEMP">>, <<"OVERHEAT">>}, {"OVERTEMP", "OVERHEAT"})
    BY <2>1, <2>2, Zenon DEF Worded
  <2> QED BY <2>3, TableRows, TableWords
<1>12. Worded(HardwareRows[12].patterns, RowWords[12])
  <2>1. Says(<<"OVERVOLTAGE">>, 1, {"OVERVOLTAGE"})
    BY DEF Says
  <2>2. Worded({<<"OVERVOLTAGE">>}, {"OVERVOLTAGE"})
    BY <2>1, Zenon DEF Worded
  <2> QED BY <2>2, TableRows, TableWords
<1>13. Worded(HardwareRows[13].patterns, RowWords[13])
  <2>1. Says(<<"UNDERVOLTAGE">>, 1, {"UNDERVOLTAGE"})
    BY DEF Says
  <2>2. Says(<<"UNDERVOLTAGE", "0", "RESET">>, 1, {"UNDERVOLTAGE"})
    BY DEF Says
  <2>3. Says(<<"UNDERVOLTAGE", "1", "RESET">>, 1, {"UNDERVOLTAGE"})
    BY DEF Says
  <2>4. Worded({<<"UNDERVOLTAGE">>, <<"UNDERVOLTAGE", "0", "RESET">>, <<"UNDERVOLTAGE",
            "1", "RESET">>}, {"UNDERVOLTAGE"})
    BY <2>1, <2>2, <2>3, Zenon DEF Worded
  <2> QED BY <2>4, TableRows, TableWords
<1>14. Worded(HardwareRows[14].patterns, RowWords[14])
  <2>1. Says(<<"PCIE", "0", "HOT", "BOOT", "RESET">>, 1, {"PCIE"})
    BY DEF Says
  <2>2. Says(<<"PCIE", "1", "HOT", "BOOT", "RESET">>, 1, {"PCIE"})
    BY DEF Says
  <2>3. Says(<<"PCIE", "HOT", "BOOT", "RESET">>, 1, {"PCIE"})
    BY DEF Says
  <2>4. Worded({<<"PCIE", "0", "HOT", "BOOT", "RESET">>, <<"PCIE", "1", "HOT", "BOOT",
            "RESET">>, <<"PCIE", "HOT", "BOOT", "RESET">>}, {"PCIE"})
    BY <2>1, <2>2, <2>3, Zenon DEF Worded
  <2> QED BY <2>4, TableRows, TableWords
<1>15. Worded(HardwareRows[15].patterns, RowWords[15])
  <2>1. Says(<<"SECURITY", "MASTER", "RESET">>, 1, {"SECURITY"})
    BY DEF Says
  <2>2. Worded({<<"SECURITY", "MASTER", "RESET">>}, {"SECURITY"})
    BY <2>1, Zenon DEF Worded
  <2> QED BY <2>2, TableRows, TableWords
<1>16. Worded(HardwareRows[16].patterns, RowWords[16])
  <2>1. Says(<<"CPU", "EJTAG", "RESET">>, 1, {"CPU"})
    BY DEF Says
  <2>2. Worded({<<"CPU", "EJTAG", "RESET">>}, {"CPU"})
    BY <2>1, Zenon DEF Worded
  <2> QED BY <2>2, TableRows, TableWords
<1>17. Worded(HardwareRows[17].patterns, RowWords[17])
  <2>1. Says(<<"S", "CPU", "EJTAG", "RESET">>, 1, {"S"})
    BY DEF Says
  <2>2. Worded({<<"S", "CPU", "EJTAG", "RESET">>}, {"S"})
    BY <2>1, Zenon DEF Worded
  <2> QED BY <2>2, TableRows, TableWords
<1>18. Worded(HardwareRows[18].patterns, RowWords[18])
  <2>1. Says(<<"GEN", "WATCHDOG", "1", "RESET">>, 1, {"GEN"})
    BY DEF Says
  <2>2. Says(<<"GEN", "WATCHDOG", "RESET">>, 1, {"GEN"})
    BY DEF Says
  <2>3. Worded({<<"GEN", "WATCHDOG", "1", "RESET">>, <<"GEN", "WATCHDOG", "RESET">>},
            {"GEN"})
    BY <2>1, <2>2, Zenon DEF Worded
  <2> QED BY <2>3, TableRows, TableWords
<1>19. Worded(HardwareRows[19].patterns, RowWords[19])
  <2>1. Says(<<"AUX", "CHIP", "EDGE", "RESET", "0">>, 3, {"EDGE"})
    BY DEF Says
  <2>2. Says(<<"AUX", "CHIP", "EDGE", "RESET", "1">>, 3, {"EDGE"})
    BY DEF Says
  <2>3. Says(<<"AUX", "CHIP", "EDGE", "RESET">>, 3, {"EDGE"})
    BY DEF Says
  <2>4. Worded({<<"AUX", "CHIP", "EDGE", "RESET", "0">>, <<"AUX", "CHIP", "EDGE",
            "RESET", "1">>, <<"AUX", "CHIP", "EDGE", "RESET">>}, {"EDGE"})
    BY <2>1, <2>2, <2>3, Zenon DEF Worded
  <2> QED BY <2>4, TableRows, TableWords
<1>20. Worded(HardwareRows[20].patterns, RowWords[20])
  <2>1. Says(<<"AUX", "CHIP", "LEVEL", "RESET", "0">>, 3, {"LEVEL"})
    BY DEF Says
  <2>2. Says(<<"AUX", "CHIP", "LEVEL", "RESET", "1">>, 3, {"LEVEL"})
    BY DEF Says
  <2>3. Says(<<"AUX", "CHIP", "LEVEL", "RESET">>, 3, {"LEVEL"})
    BY DEF Says
  <2>4. Worded({<<"AUX", "CHIP", "LEVEL", "RESET", "0">>, <<"AUX", "CHIP", "LEVEL",
            "RESET", "1">>, <<"AUX", "CHIP", "LEVEL", "RESET">>}, {"LEVEL"})
    BY <2>1, <2>2, <2>3, Zenon DEF Worded
  <2> QED BY <2>4, TableRows, TableWords
<1>21. Worded(HardwareRows[21].patterns, RowWords[21])
  <2>1. Says(<<"MPM", "RESET">>, 1, {"MPM"})
    BY DEF Says
  <2>2. Worded({<<"MPM", "RESET">>}, {"MPM"})
    BY <2>1, Zenon DEF Worded
  <2> QED BY <2>2, TableRows, TableWords
<1>22. TAKE i \in 1..21
<1>23. \/ i = 1 \/ i = 2 \/ i = 3 \/ i = 4 \/ i = 5 \/ i = 6 \/ i = 7 \/ i = 8
       \/ i = 9 \/ i = 10 \/ i = 11 \/ i = 12 \/ i = 13 \/ i = 14 \/ i = 15
       \/ i = 16 \/ i = 17 \/ i = 18 \/ i = 19 \/ i = 20 \/ i = 21
  OBVIOUS
<1> QED BY <1>1, <1>2, <1>3, <1>4, <1>5, <1>6, <1>7, <1>8, <1>9, <1>10, <1>11, <1>12,
  <1>13, <1>14, <1>15, <1>16, <1>17, <1>18, <1>19, <1>20, <1>21, <1>23, Zenon

\* A name without the words of a row is not for that row.
LEMMA NoHit ==
    ASSUME NEW S, NEW name \in Seq(S), NEW i \in 1..21,
           \A j \in 1 .. Len(name) : name[j] \notin RowWords[i]
    PROVE  ~Hit(name, i)
<1> SUFFICES ASSUME NEW p \in HardwareRows[i].patterns, Contains(name, p) PROVE FALSE
  BY Zenon DEF Hit
<1>1. PICK k : Says(p, k, RowWords[i])
  BY RowSays, Zenon DEF Worded
<1> QED BY <1>1, WordsInside, Zenon

Begins(name, p) == Len(p) <= Len(name) /\ \A j \in 1 .. Len(p) : name[j] = p[j]

\* The name has no word of an earlier row.
NotBefore(k, name) ==
    \A i \in 1..(k - 1) : \A j \in 1 .. Len(name) : name[j] \notin RowWords[i]

\* An earlier row is a row.
LEMMA EarlierRow == \A k \in 1..21 : \A i \in 1..(k - 1) : i \in 1..21
OBVIOUS

\* A name with a pattern of a row inside, and no word of an earlier row, gets the
\* reason of the row.
LEMMA LandsIn ==
    ASSUME NEW name \in Seq(STRING), NEW k \in 1..21, NEW p \in HardwareRows[k].patterns,
           Contains(name, p), NotBefore(k, name)
    PROVE  MappedTo(name) = HardwareRows[k].reason
<1>1. ASSUME NEW i \in 1..(k - 1) PROVE ~Hit(name, i)
  <2>1. i \in 1..21
    BY EarlierRow, Zenon
  <2>2. \A j \in 1 .. Len(name) : name[j] \notin RowWords[i]
    BY Zenon DEF NotBefore
  <2> QED BY <2>1, <2>2, NoHit, Zenon
<1> QED BY <1>1, Taken, Zenon

\* In particular a name that begins with the pattern.
LEMMA Lands ==
    ASSUME NEW name \in Seq(STRING), NEW p \in Seq(STRING), Begins(name, p),
           NEW k \in 1..21, p \in HardwareRows[k].patterns, NotBefore(k, name)
    PROVE  MappedTo(name) = HardwareRows[k].reason
<1>1. Contains(name, p)
  BY BeginningInside, Zenon DEF Begins
<1> QED BY <1>1, LandsIn, Zenon

\* Every name begins with itself.
LEMMA BeginsItself == ASSUME NEW name \in Seq(STRING) PROVE Begins(name, name)
BY DEF Begins

\* A name that the script keeps is kept, but for the one that is shadowed.
LEMMA SelfMapped ==
    ASSUME NEW name \in Seq(STRING), name \in SelfNamed, name \notin Shadowed
    PROVE  MappedTo(name) = name
<1>1. ASSUME name = Software PROVE MappedTo(name) = name
  <2>1. Len(name) = 3 /\ name[1] = "SOFTWARE" /\ name[2] = "MASTER" /\ name[3] = "RESET"
    BY <1>1 DEF Software
  <2>2. name \in HardwareRows[1].patterns /\ HardwareRows[1].reason = name
    BY <1>1, TableRows, Zenon
  <2>3. 1 \in 1..21 /\ NotBefore(1, name)
    BY <2>1, TableWords DEF NotBefore
  <2> QED BY <1>1, <2>2, <2>3, BeginsItself, Lands, Zenon
<1>2. ASSUME name = <<"WATCHDOG", "TIMER", "RESET">> PROVE MappedTo(name) = name
  <2>1. Len(name) = 3 /\ name[1] = "WATCHDOG" /\ name[2] = "TIMER" /\ name[3] = "RESET"
    BY <1>2
  <2>2. <<"WATCHDOG">> \in HardwareRows[2].patterns /\ HardwareRows[2].reason = name
    BY <1>2, TableRows, Zenon
  <2>3. 2 \in 1..21 /\ NotBefore(2, name)
    BY <2>1, TableWords DEF NotBefore
  <2>4. <<"WATCHDOG">> \in Seq(STRING) /\ Begins(name, <<"WATCHDOG">>)
    <3>1. name[1] \in STRING
      <4>1. 1 \in 1 .. Len(name)
        BY <2>1
      <4> QED BY <4>1, ElementOfSeq, Zenon
    <3> QED BY <2>1, <3>1 DEF Begins
  <2> QED BY <1>2, <2>2, <2>3, <2>4, Lands, Zenon
<1>3. ASSUME name = PowerOn PROVE MappedTo(name) = name
  <2>1. Len(name) = 3 /\ name[1] = "POWER" /\ name[2] = "ON" /\ name[3] = "RESET"
    BY <1>3 DEF PowerOn
  <2>2. <<"POWER", "ON">> \in HardwareRows[4].patterns
        /\ HardwareRows[4].reason = name
    BY <1>3, TableRows, Zenon
  <2>3. 4 \in 1..21 /\ NotBefore(4, name)
    BY <2>1, TableWords DEF NotBefore
  <2>4. <<"POWER", "ON">> \in Seq(STRING) /\ Begins(name, <<"POWER", "ON">>)
    <3>1. name[1] \in STRING /\ name[2] \in STRING
      <4>1. 1 \in 1 .. Len(name) /\ 2 \in 1 .. Len(name)
        BY <2>1
      <4> QED BY <4>1, ElementOfSeq, Zenon
    <3> QED BY <2>1, <3>1 DEF Begins
  <2> QED BY <1>3, <2>2, <2>3, <2>4, Lands, Zenon
<1>4. ASSUME name = <<"MAIN", "CHIP", "INPUT", "RESET">> PROVE MappedTo(name) = name
  <2>1. Len(name) = 4 /\ name[1] = "MAIN" /\ name[2] = "CHIP" /\ name[3] = "INPUT" /\
          name[4] = "RESET"
    BY <1>4
  <2>2. name \in HardwareRows[5].patterns /\ HardwareRows[5].reason = name
    BY <1>4, TableRows, Zenon
  <2>3. 5 \in 1..21 /\ NotBefore(5, name)
    BY <2>1, TableWords DEF NotBefore
  <2> QED BY <1>4, <2>2, <2>3, BeginsItself, Lands, Zenon
<1>5. ASSUME name = <<"MAIN", "CHIP", "RESET", "INPUT">> PROVE MappedTo(name) = name
  <2>1. Len(name) = 4 /\ name[1] = "MAIN" /\ name[2] = "CHIP" /\ name[3] = "RESET" /\
          name[4] = "INPUT"
    BY <1>5
  <2>2. name \in HardwareRows[6].patterns /\ HardwareRows[6].reason = name
    BY <1>5, TableRows, Zenon
  <2>3. ASSUME NEW i \in 1..(6 - 1) PROVE ~Hit(name, i)
    <3>1. CASE i = 5
      <4> DEFINE other == <<"MAIN", "CHIP", "INPUT", "RESET">>
      <4> SUFFICES ASSUME Contains(name, other) PROVE FALSE
        BY <3>1, TableRows, Zenon DEF Hit
      <4>1. Len(other) = 4 /\ other[3] = "INPUT"
        OBVIOUS
      <4> HIDE DEF other
      <4>2. SubSeq(name, 0 + 1, 0 + 4) = other
        BY <2>1, <4>1 DEF Contains
      <4>3. SubSeq(name, 0 + 1, 0 + 4)[3] = name[3]
        BY <2>1
      <4> QED BY <2>1, <4>1, <4>2, <4>3
    <3>2. CASE i # 5
      <4>1. i \in 1..21 /\ \A j \in 1 .. Len(name) : name[j] \notin RowWords[i]
        BY <2>1, <3>2, TableWords
      <4> QED BY <4>1, NoHit, Zenon
    <3> QED BY <3>1, <3>2
  <2>4. 6 \in 1..21
    OBVIOUS
  <2>5. Contains(name, name)
    BY BeginsItself, BeginningInside, Zenon DEF Begins
  <2> QED BY <2>2, <2>3, <2>4, <2>5, Taken, Zenon
<1>6. ASSUME name = <<"TAP", "IN", "SYSTEM", "RESET">> PROVE MappedTo(name) = name
  <2>1. Len(name) = 4 /\ name[1] = "TAP" /\ name[2] = "IN" /\ name[3] = "SYSTEM" /\
          name[4] = "RESET"
    BY <1>6
  <2>2. name \in HardwareRows[7].patterns /\ HardwareRows[7].reason = name
    BY <1>6, TableRows, Zenon
  <2>3. 7 \in 1..21 /\ NotBefore(7, name)
    BY <2>1, TableWords DEF NotBefore
  <2> QED BY <1>6, <2>2, <2>3, BeginsItself, Lands, Zenon
<1>7. ASSUME name = <<"S3", "WAKEUP", "RESET">> PROVE MappedTo(name) = name
  <2>1. Len(name) = 3 /\ name[1] = "S3" /\ name[2] = "WAKEUP" /\ name[3] = "RESET"
    BY <1>7
  <2>2. name \in HardwareRows[9].patterns /\ HardwareRows[9].reason = name
    BY <1>7, TableRows, Zenon
  <2>3. 9 \in 1..21 /\ NotBefore(9, name)
    BY <2>1, TableWords DEF NotBefore
  <2> QED BY <1>7, <2>2, <2>3, BeginsItself, Lands, Zenon
<1>8. ASSUME name = <<"SMARTCARD", "INSERT", "RESET">> PROVE MappedTo(name) = name
  <2>1. Len(name) = 3 /\ name[1] = "SMARTCARD" /\ name[2] = "INSERT" /\ name[3] =
          "RESET"
    BY <1>8
  <2>2. name \in HardwareRows[10].patterns /\ HardwareRows[10].reason = name
    BY <1>8, TableRows, Zenon
  <2>3. 10 \in 1..21 /\ NotBefore(10, name)
    BY <2>1, TableWords DEF NotBefore
  <2> QED BY <1>8, <2>2, <2>3, BeginsItself, Lands, Zenon
<1>9. ASSUME name = <<"OVERTEMP", "RESET">> PROVE MappedTo(name) = name
  <2>1. Len(name) = 2 /\ name[1] = "OVERTEMP" /\ name[2] = "RESET"
    BY <1>9
  <2>2. <<"OVERTEMP">> \in HardwareRows[11].patterns
        /\ HardwareRows[11].reason = name
    BY <1>9, TableRows, Zenon
  <2>3. 11 \in 1..21 /\ NotBefore(11, name)
    BY <2>1, TableWords DEF NotBefore
  <2>4. <<"OVERTEMP">> \in Seq(STRING) /\ Begins(name, <<"OVERTEMP">>)
    <3>1. name[1] \in STRING
      <4>1. 1 \in 1 .. Len(name)
        BY <2>1
      <4> QED BY <4>1, ElementOfSeq, Zenon
    <3> QED BY <2>1, <3>1 DEF Begins
  <2> QED BY <1>9, <2>2, <2>3, <2>4, Lands, Zenon
<1>10. ASSUME name = <<"OVERVOLTAGE", "RESET">> PROVE MappedTo(name) = name
  <2>1. Len(name) = 2 /\ name[1] = "OVERVOLTAGE" /\ name[2] = "RESET"
    BY <1>10
  <2>2. <<"OVERVOLTAGE">> \in HardwareRows[12].patterns
        /\ HardwareRows[12].reason = name
    BY <1>10, TableRows, Zenon
  <2>3. 12 \in 1..21 /\ NotBefore(12, name)
    BY <2>1, TableWords DEF NotBefore
  <2>4. <<"OVERVOLTAGE">> \in Seq(STRING) /\ Begins(name, <<"OVERVOLTAGE">>)
    <3>1. name[1] \in STRING
      <4>1. 1 \in 1 .. Len(name)
        BY <2>1
      <4> QED BY <4>1, ElementOfSeq, Zenon
    <3> QED BY <2>1, <3>1 DEF Begins
  <2> QED BY <1>10, <2>2, <2>3, <2>4, Lands, Zenon
<1>11. ASSUME name = <<"UNDERVOLTAGE", "RESET">> PROVE MappedTo(name) = name
  <2>1. Len(name) = 2 /\ name[1] = "UNDERVOLTAGE" /\ name[2] = "RESET"
    BY <1>11
  <2>2. <<"UNDERVOLTAGE">> \in HardwareRows[13].patterns
        /\ HardwareRows[13].reason = name
    BY <1>11, TableRows, Zenon
  <2>3. 13 \in 1..21 /\ NotBefore(13, name)
    BY <2>1, TableWords DEF NotBefore
  <2>4. <<"UNDERVOLTAGE">> \in Seq(STRING) /\ Begins(name, <<"UNDERVOLTAGE">>)
    <3>1. name[1] \in STRING
      <4>1. 1 \in 1 .. Len(name)
        BY <2>1
      <4> QED BY <4>1, ElementOfSeq, Zenon
    <3> QED BY <2>1, <3>1 DEF Begins
  <2> QED BY <1>11, <2>2, <2>3, <2>4, Lands, Zenon
<1>12. ASSUME name = <<"SECURITY", "MASTER", "RESET">> PROVE MappedTo(name) = name
  <2>1. Len(name) = 3 /\ name[1] = "SECURITY" /\ name[2] = "MASTER" /\ name[3] = "RESET"
    BY <1>12
  <2>2. name \in HardwareRows[15].patterns /\ HardwareRows[15].reason = name
    BY <1>12, TableRows, Zenon
  <2>3. 15 \in 1..21 /\ NotBefore(15, name)
    BY <2>1, TableWords DEF NotBefore
  <2> QED BY <1>12, <2>2, <2>3, BeginsItself, Lands, Zenon
<1>13. ASSUME name = <<"CPU", "EJTAG", "RESET">> PROVE MappedTo(name) = name
  <2>1. Len(name) = 3 /\ name[1] = "CPU" /\ name[2] = "EJTAG" /\ name[3] = "RESET"
    BY <1>13
  <2>2. name \in HardwareRows[16].patterns /\ HardwareRows[16].reason = name
    BY <1>13, TableRows, Zenon
  <2>3. 16 \in 1..21 /\ NotBefore(16, name)
    BY <2>1, TableWords DEF NotBefore
  <2> QED BY <1>13, <2>2, <2>3, BeginsItself, Lands, Zenon
<1>14. ASSUME name = <<"MPM", "RESET">> PROVE MappedTo(name) = name
  <2>1. Len(name) = 2 /\ name[1] = "MPM" /\ name[2] = "RESET"
    BY <1>14
  <2>2. name \in HardwareRows[21].patterns /\ HardwareRows[21].reason = name
    BY <1>14, TableRows, Zenon
  <2>3. 21 \in 1..21 /\ NotBefore(21, name)
    BY <2>1, TableWords DEF NotBefore
  <2> QED BY <1>14, <2>2, <2>3, BeginsItself, Lands, Zenon
<1> QED BY <1>1, <1>2, <1>3, <1>4, <1>5, <1>6, <1>7, <1>8, <1>9, <1>10, <1>11, <1>12,
     <1>13, <1>14, Zenon DEF SelfNamed, Shadowed

\* A name that the script changes is changed in the same way, but for the one that
\* is shadowed.
LEMMA RenamedMapped ==
    ASSUME NEW name \in Seq(STRING), name \notin Shadowed, NEW reason,
           NEW r \in Renamed, r[1] = name, r[2] = reason
    PROVE  MappedTo(name) = reason
<1>1. CASE r = <<<<"SOFTWARE">>, Software>>
  <2>0. name = <<"SOFTWARE">> /\ reason = Software
    BY <1>1
  <2>1. Len(name) = 1 /\ name[1] = "SOFTWARE"
    BY <2>0
  <2>2. name \in HardwareRows[1].patterns /\ HardwareRows[1].reason = reason
    BY <2>0, TableRows, Zenon
  <2>3. 1 \in 1..21 /\ NotBefore(1, name)
    BY <2>1, TableWords DEF NotBefore
  <2> QED BY <2>0, <2>2, <2>3, BeginsItself, Lands, Zenon
<1>2. CASE r = <<<<"WATCHDOG">>, <<"WATCHDOG", "TIMER", "RESET">>>>
  <2>0. name = <<"WATCHDOG">> /\ reason = <<"WATCHDOG", "TIMER", "RESET">>
    BY <1>2
  <2>1. Len(name) = 1 /\ name[1] = "WATCHDOG"
    BY <2>0
  <2>2. name \in HardwareRows[2].patterns /\ HardwareRows[2].reason = reason
    BY <2>0, TableRows, Zenon
  <2>3. 2 \in 1..21 /\ NotBefore(2, name)
    BY <2>1, TableWords DEF NotBefore
  <2> QED BY <2>0, <2>2, <2>3, BeginsItself, Lands, Zenon
<1>3. CASE r = <<<<"KERNEL", "PANIC", "RESET">>, Panic>>
  <2>0. name = <<"KERNEL", "PANIC", "RESET">> /\ reason = Panic
    BY <1>3
  <2>1. Len(name) = 3 /\ name[1] = "KERNEL" /\ name[2] = "PANIC" /\ name[3] = "RESET"
    BY <2>0
  <2>2. name \in HardwareRows[3].patterns /\ HardwareRows[3].reason = reason
    BY <2>0, TableRows, Zenon
  <2>3. 3 \in 1..21 /\ NotBefore(3, name)
    BY <2>1, TableWords DEF NotBefore
  <2> QED BY <2>0, <2>2, <2>3, BeginsItself, Lands, Zenon
<1>4. CASE r = <<<<"HARDWARE">>, PowerOn>>
  <2>0. name = <<"HARDWARE">> /\ reason = PowerOn
    BY <1>4
  <2>1. Len(name) = 1 /\ name[1] = "HARDWARE"
    BY <2>0
  <2>2. name \in HardwareRows[4].patterns /\ HardwareRows[4].reason = reason
    BY <2>0, TableRows, Zenon
  <2>3. 4 \in 1..21 /\ NotBefore(4, name)
    BY <2>1, TableWords DEF NotBefore
  <2> QED BY <2>0, <2>2, <2>3, BeginsItself, Lands, Zenon
<1>5. CASE r = <<<<"FRONT", "PANEL", "4SEC", "RESET">>, <<"FRONT", "PANEL", "RESET">>>>
  <2>0. name = <<"FRONT", "PANEL", "4SEC", "RESET">>
        /\ reason = <<"FRONT", "PANEL", "RESET">>
    BY <1>5
  <2>1. Len(name) = 4 /\ name[1] = "FRONT" /\ name[2] = "PANEL" /\ name[3] = "4SEC" /\
          name[4] = "RESET"
    BY <2>0
  <2>2. name \in HardwareRows[8].patterns /\ HardwareRows[8].reason = reason
    BY <2>0, TableRows, Zenon
  <2>3. 8 \in 1..21 /\ NotBefore(8, name)
    BY <2>1, TableWords DEF NotBefore
  <2> QED BY <2>0, <2>2, <2>3, BeginsItself, Lands, Zenon
<1>6. CASE r = <<<<"OVERHEAT">>, <<"OVERTEMP", "RESET">>>>
  <2>0. name = <<"OVERHEAT">> /\ reason = <<"OVERTEMP", "RESET">>
    BY <1>6
  <2>1. Len(name) = 1 /\ name[1] = "OVERHEAT"
    BY <2>0
  <2>2. name \in HardwareRows[11].patterns /\ HardwareRows[11].reason = reason
    BY <2>0, TableRows, Zenon
  <2>3. 11 \in 1..21 /\ NotBefore(11, name)
    BY <2>1, TableWords DEF NotBefore
  <2> QED BY <2>0, <2>2, <2>3, BeginsItself, Lands, Zenon
<1>7. CASE r = <<<<"OVERVOLTAGE", "1", "RESET">>, <<"OVERVOLTAGE", "RESET">>>>
  <2>0. name = <<"OVERVOLTAGE", "1", "RESET">> /\ reason = <<"OVERVOLTAGE", "RESET">>
    BY <1>7
  <2>1. Len(name) = 3 /\ name[1] = "OVERVOLTAGE" /\ name[2] = "1" /\ name[3] = "RESET"
    BY <2>0
  <2>2. <<"OVERVOLTAGE">> \in HardwareRows[12].patterns
        /\ HardwareRows[12].reason = reason
    BY <2>0, TableRows, Zenon
  <2>3. 12 \in 1..21 /\ NotBefore(12, name)
    BY <2>1, TableWords DEF NotBefore
  <2>4. <<"OVERVOLTAGE">> \in Seq(STRING) /\ Begins(name, <<"OVERVOLTAGE">>)
    <3>1. name[1] \in STRING
      <4>1. 1 \in 1 .. Len(name)
        BY <2>1
      <4> QED BY <4>1, ElementOfSeq, Zenon
    <3> QED BY <2>1, <3>1 DEF Begins
  <2> QED BY <2>0, <2>2, <2>3, <2>4, Lands, Zenon
<1>8. CASE r = <<<<"PCIE", "1", "HOT", "BOOT", "RESET">>, <<"PCIE", "HOT", "BOOT",
      "RESET">>>>
  <2>0. name = <<"PCIE", "1", "HOT", "BOOT", "RESET">>
        /\ reason = <<"PCIE", "HOT", "BOOT", "RESET">>
    BY <1>8
  <2>1. Len(name) = 5 /\ name[1] = "PCIE" /\ name[2] = "1" /\ name[3] = "HOT" /\ name[4]
          = "BOOT" /\ name[5] = "RESET"
    BY <2>0
  <2>2. name \in HardwareRows[14].patterns /\ HardwareRows[14].reason = reason
    BY <2>0, TableRows, Zenon
  <2>3. 14 \in 1..21 /\ NotBefore(14, name)
    BY <2>1, TableWords DEF NotBefore
  <2> QED BY <2>0, <2>2, <2>3, BeginsItself, Lands, Zenon
<1>9. CASE r = <<<<"PCIE", "0", "HOT", "BOOT", "RESET">>, <<"PCIE", "HOT", "BOOT",
      "RESET">>>>
  <2>0. name = <<"PCIE", "0", "HOT", "BOOT", "RESET">>
        /\ reason = <<"PCIE", "HOT", "BOOT", "RESET">>
    BY <1>9
  <2>1. Len(name) = 5 /\ name[1] = "PCIE" /\ name[2] = "0" /\ name[3] = "HOT" /\ name[4]
          = "BOOT" /\ name[5] = "RESET"
    BY <2>0
  <2>2. name \in HardwareRows[14].patterns /\ HardwareRows[14].reason = reason
    BY <2>0, TableRows, Zenon
  <2>3. 14 \in 1..21 /\ NotBefore(14, name)
    BY <2>1, TableWords DEF NotBefore
  <2> QED BY <2>0, <2>2, <2>3, BeginsItself, Lands, Zenon
<1>10. CASE r = <<<<"UNDERVOLTAGE", "1", "RESET">>, <<"UNDERVOLTAGE", "RESET">>>>
  <2>0. name = <<"UNDERVOLTAGE", "1", "RESET">>
        /\ reason = <<"UNDERVOLTAGE", "RESET">>
    BY <1>10
  <2>1. Len(name) = 3 /\ name[1] = "UNDERVOLTAGE" /\ name[2] = "1" /\ name[3] = "RESET"
    BY <2>0
  <2>2. name \in HardwareRows[13].patterns /\ HardwareRows[13].reason = reason
    BY <2>0, TableRows, Zenon
  <2>3. 13 \in 1..21 /\ NotBefore(13, name)
    BY <2>1, TableWords DEF NotBefore
  <2> QED BY <2>0, <2>2, <2>3, BeginsItself, Lands, Zenon
<1>11. CASE r = <<<<"UNDERVOLTAGE", "0", "RESET">>, <<"UNDERVOLTAGE", "RESET">>>>
  <2>0. name = <<"UNDERVOLTAGE", "0", "RESET">>
        /\ reason = <<"UNDERVOLTAGE", "RESET">>
    BY <1>11
  <2>1. Len(name) = 3 /\ name[1] = "UNDERVOLTAGE" /\ name[2] = "0" /\ name[3] = "RESET"
    BY <2>0
  <2>2. name \in HardwareRows[13].patterns /\ HardwareRows[13].reason = reason
    BY <2>0, TableRows, Zenon
  <2>3. 13 \in 1..21 /\ NotBefore(13, name)
    BY <2>1, TableWords DEF NotBefore
  <2> QED BY <2>0, <2>2, <2>3, BeginsItself, Lands, Zenon
<1>12. CASE r = <<<<"AUX", "CHIP", "EDGE", "RESET", "0">>, <<"AUX", "CHIP", "EDGE",
      "RESET">>>>
  <2>0. name = <<"AUX", "CHIP", "EDGE", "RESET", "0">>
        /\ reason = <<"AUX", "CHIP", "EDGE", "RESET">>
    BY <1>12
  <2>1. Len(name) = 5 /\ name[1] = "AUX" /\ name[2] = "CHIP" /\ name[3] = "EDGE" /\
          name[4] = "RESET" /\ name[5] = "0"
    BY <2>0
  <2>2. name \in HardwareRows[19].patterns /\ HardwareRows[19].reason = reason
    BY <2>0, TableRows, Zenon
  <2>3. 19 \in 1..21 /\ NotBefore(19, name)
    BY <2>1, TableWords DEF NotBefore
  <2> QED BY <2>0, <2>2, <2>3, BeginsItself, Lands, Zenon
<1>13. CASE r = <<<<"AUX", "CHIP", "EDGE", "RESET", "1">>, <<"AUX", "CHIP", "EDGE",
      "RESET">>>>
  <2>0. name = <<"AUX", "CHIP", "EDGE", "RESET", "1">>
        /\ reason = <<"AUX", "CHIP", "EDGE", "RESET">>
    BY <1>13
  <2>1. Len(name) = 5 /\ name[1] = "AUX" /\ name[2] = "CHIP" /\ name[3] = "EDGE" /\
          name[4] = "RESET" /\ name[5] = "1"
    BY <2>0
  <2>2. name \in HardwareRows[19].patterns /\ HardwareRows[19].reason = reason
    BY <2>0, TableRows, Zenon
  <2>3. 19 \in 1..21 /\ NotBefore(19, name)
    BY <2>1, TableWords DEF NotBefore
  <2> QED BY <2>0, <2>2, <2>3, BeginsItself, Lands, Zenon
<1>14. CASE r = <<<<"AUX", "CHIP", "LEVEL", "RESET", "0">>, <<"AUX", "CHIP", "LEVEL",
      "RESET">>>>
  <2>0. name = <<"AUX", "CHIP", "LEVEL", "RESET", "0">>
        /\ reason = <<"AUX", "CHIP", "LEVEL", "RESET">>
    BY <1>14
  <2>1. Len(name) = 5 /\ name[1] = "AUX" /\ name[2] = "CHIP" /\ name[3] = "LEVEL" /\
          name[4] = "RESET" /\ name[5] = "0"
    BY <2>0
  <2>2. name \in HardwareRows[20].patterns /\ HardwareRows[20].reason = reason
    BY <2>0, TableRows, Zenon
  <2>3. 20 \in 1..21 /\ NotBefore(20, name)
    BY <2>1, TableWords DEF NotBefore
  <2> QED BY <2>0, <2>2, <2>3, BeginsItself, Lands, Zenon
<1>15. CASE r = <<<<"AUX", "CHIP", "LEVEL", "RESET", "1">>, <<"AUX", "CHIP", "LEVEL",
      "RESET">>>>
  <2>0. name = <<"AUX", "CHIP", "LEVEL", "RESET", "1">>
        /\ reason = <<"AUX", "CHIP", "LEVEL", "RESET">>
    BY <1>15
  <2>1. Len(name) = 5 /\ name[1] = "AUX" /\ name[2] = "CHIP" /\ name[3] = "LEVEL" /\
          name[4] = "RESET" /\ name[5] = "1"
    BY <2>0
  <2>2. name \in HardwareRows[20].patterns /\ HardwareRows[20].reason = reason
    BY <2>0, TableRows, Zenon
  <2>3. 20 \in 1..21 /\ NotBefore(20, name)
    BY <2>1, TableWords DEF NotBefore
  <2> QED BY <2>0, <2>2, <2>3, BeginsItself, Lands, Zenon
<1>16. CASE r = <<<<"GEN", "WATCHDOG", "1", "RESET">>, <<"GEN", "WATCHDOG", "RESET">>>>
  <2>1. name = <<"GEN", "WATCHDOG", "1", "RESET">>
    BY <1>16
  <2> QED BY <2>1, Zenon DEF Shadowed
<1> QED BY <1>1, <1>2, <1>3, <1>4, <1>5, <1>6, <1>7, <1>8, <1>9, <1>10, <1>11, <1>12,
     <1>13, <1>14, <1>15, <1>16, Zenon DEF Renamed

\* The two tables agree on every name but the two that are shadowed and the names
\* new to the script of which the program knows a part.
LEMMA ScriptAgrees ==
    ASSUME NEW name \in Seq(STRING), name \notin Shadowed, ~MappedByPart(name)
    PROVE  MappedTo(name) = setRebootReason(name)
<1>1. CASE \E r \in Renamed : r[1] = name
  <2> DEFINE c == CHOOSE r \in Renamed : r[1] = name
  <2>1. c \in Renamed /\ c[1] = name
    BY <1>1, Zenon
  <2>2. setRebootReason(name) = c[2]
    BY <1>1, Zenon DEF setRebootReason
  <2> HIDE DEF c
  <2>3. PICK reason : reason = c[2]
    OBVIOUS
  <2> QED BY <2>1, <2>2, <2>3, RenamedMapped, Zenon
<1>2. CASE ~\E r \in Renamed : r[1] = name
  <2>1. setRebootReason(name) = name
    BY <1>2, Zenon DEF setRebootReason
  <2>2. CASE name \in SelfNamed
    BY <2>1, <2>2, SelfMapped, Zenon
  <2>3. CASE name \notin SelfNamed
    <3>1. name \notin KnownNames
      BY <1>2, <2>3, Zenon DEF KnownNames
    <3>2. DOMAIN HardwareRows = 1..21
      BY DEF HardwareRows
    <3>3. \A k \in 1..21 : Hit(name, k) => HardwareRows[k].reason = name
      BY <3>1, <3>2, Zenon DEF MappedByPart, Hit
    <3> QED BY <2>1, <3>3, FirstHit, Zenon
  <2> QED BY <2>2, <2>3
<1> QED BY <1>1, <1>2

\* How the script's changes begin: none on the word S, and those on GEN keep it.
LEMMA RenamedHead ==
    ASSUME NEW r \in Renamed
    PROVE  /\ Len(r[1]) >= 1 /\ r[1][1] # "S"
           /\ r[1][1] = "GEN" => r[2][1] = "GEN"
BY DEF Renamed, Software, Panic, PowerOn

\* The name has no word of another row.
NotBeside(k, name) ==
    \A i \in 1..21 : i # k => \A j \in 1 .. Len(name) : name[j] \notin RowWords[i]

\* If it has none, no other row has a part of it.
LEMMA OnlyHit ==
    ASSUME NEW S, NEW name \in Seq(S), NEW k \in 1..21, NotBeside(k, name),
           NEW i \in 1..21, Hit(name, i)
    PROVE  i = k
BY NoHit, Zenon DEF NotBeside

\* A name new to the script of which the program knows a part is changed.
LEMMA PartChanges ==
    ASSUME NEW name \in Seq(STRING), MappedByPart(name)
    PROVE  MappedTo(name) # name
<1> SUFFICES ASSUME MappedTo(name) = name PROVE FALSE
  OBVIOUS
<1>0. DOMAIN HardwareRows = 1..21
  BY DEF HardwareRows
<1>1. name \notin KnownNames
  BY DEF MappedByPart
<1>2. PICK i \in 1..21 : HardwareRows[i].reason # name /\ Hit(name, i)
  BY <1>0, Zenon DEF MappedByPart, Hit
<1>3. PICK k \in 1..21 : /\ Hit(name, k) /\ \A j \in 1..21 : Hit(name, j) => k <= j
                         /\ HardwareRows[k].reason = name
  BY <1>2, FirstHit, Zenon
<1>4. ~NotBeside(k, name)
  BY <1>2, <1>3, OnlyHit, Zenon
<1>5. k \in {3, 8, 14, 18, 19, 20}
  <2>1. name \notin SelfNamed
    BY <1>1, Zenon DEF KnownNames
  <2>2. k \in {1, 2, 4, 5, 6, 7, 9, 10, 11, 12, 13, 15, 16, 17, 21} => name \in SelfNamed
    <3>1. HardwareRows[1].reason \in SelfNamed
      BY TableRows, Zenon DEF SelfNamed
    <3>2. HardwareRows[2].reason \in SelfNamed
      BY TableRows, Zenon DEF SelfNamed
    <3>3. HardwareRows[4].reason \in SelfNamed
      BY TableRows, Zenon DEF SelfNamed
    <3>4. HardwareRows[5].reason \in SelfNamed
      BY TableRows, Zenon DEF SelfNamed
    <3>5. HardwareRows[6].reason \in SelfNamed
      BY TableRows, Zenon DEF SelfNamed
    <3>6. HardwareRows[7].reason \in SelfNamed
      BY TableRows, Zenon DEF SelfNamed
    <3>7. HardwareRows[9].reason \in SelfNamed
      BY TableRows, Zenon DEF SelfNamed
    <3>8. HardwareRows[10].reason \in SelfNamed
      BY TableRows, Zenon DEF SelfNamed
    <3>9. HardwareRows[11].reason \in SelfNamed
      BY TableRows, Zenon DEF SelfNamed
    <3>10. HardwareRows[12].reason \in SelfNamed
      BY TableRows, Zenon DEF SelfNamed
    <3>11. HardwareRows[13].reason \in SelfNamed
      BY TableRows, Zenon DEF SelfNamed
    <3>12. HardwareRows[15].reason \in SelfNamed
      BY TableRows, Zenon DEF SelfNamed
    <3>13. HardwareRows[16].reason \in SelfNamed
      BY TableRows, Zenon DEF SelfNamed
    <3>14. HardwareRows[17].reason \in SelfNamed
      BY TableRows, Zenon DEF SelfNamed
    <3>15. HardwareRows[21].reason \in SelfNamed
      BY TableRows, Zenon DEF SelfNamed
    <3> QED BY <1>3, <3>1, <3>2, <3>3, <3>4, <3>5, <3>6, <3>7,
           <3>8, <3>9, <3>10, <3>11, <3>12, <3>13, <3>14, <3>15, Zenon
  <2>3. k \in {1, 2, 4, 5, 6, 7, 9, 10, 11, 12, 13, 15, 16, 17, 21}
        \/ k \in {3, 8, 14, 18, 19, 20}
    OBVIOUS
  <2> QED BY <2>1, <2>2, <2>3, Zenon
<1>6. CASE k = 3
  <2>1. name = Panic
    BY <1>3, <1>6, TableRows, Zenon
  <2>2. Len(name) = 2 /\ name[1] = "KERNEL" /\ name[2] = "PANIC"
    BY <2>1 DEF Panic
  <2> QED BY <1>4, <1>6, <2>2, TableWords DEF NotBeside
<1>7. CASE k = 8
  <2>1. name = <<"FRONT", "PANEL", "RESET">>
    BY <1>3, <1>7, TableRows, Zenon
  <2>2. Len(name) = 3 /\ name[1] = "FRONT" /\ name[2] = "PANEL" /\ name[3] = "RESET"
    BY <2>1
  <2> QED BY <1>4, <1>7, <2>2, TableWords DEF NotBeside
<1>8. CASE k = 14
  <2>1. name = <<"PCIE", "HOT", "BOOT", "RESET">>
    BY <1>3, <1>8, TableRows, Zenon
  <2>2. Len(name) = 4 /\ name[1] = "PCIE" /\ name[2] = "HOT" /\ name[3] = "BOOT" /\
          name[4] = "RESET"
    BY <2>1
  <2> QED BY <1>4, <1>8, <2>2, TableWords DEF NotBeside
<1>9. CASE k = 18
  <2>1. name = <<"GEN", "WATCHDOG", "RESET">>
    BY <1>3, <1>9, TableRows, Zenon
  <2>2. Contains(name, <<"WATCHDOG">>)
    <3> DEFINE S == {"GEN", "WATCHDOG", "RESET"}
    <3>1. <<"GEN", "WATCHDOG", "RESET">> \in Seq(S) /\ <<"WATCHDOG">> \in Seq(S)
      OBVIOUS
    <3>2. /\ 1 \in 0 .. Len(name) - Len(<<"WATCHDOG">>)
          /\ \A j \in 1 .. Len(<<"WATCHDOG">>) : name[1 + j] = <<"WATCHDOG">>[j]
      BY <2>1
    <3> HIDE DEF S
    <3> QED BY <2>1, <3>1, <3>2, InsideAt, Zenon
  <2>3. 2 \in 1..21 /\ ~(18 <= 2)
    OBVIOUS
  <2>4. Hit(name, 2)
    BY <2>2, TableRows, Zenon DEF Hit
  <2> QED BY <1>3, <1>9, <2>3, <2>4, Zenon
<1>10. CASE k = 19
  <2>1. name = <<"AUX", "CHIP", "EDGE", "RESET">>
    BY <1>3, <1>10, TableRows, Zenon
  <2>2. Len(name) = 4 /\ name[1] = "AUX" /\ name[2] = "CHIP" /\ name[3] = "EDGE" /\
          name[4] = "RESET"
    BY <2>1
  <2> QED BY <1>4, <1>10, <2>2, TableWords DEF NotBeside
<1>11. CASE k = 20
  <2>1. name = <<"AUX", "CHIP", "LEVEL", "RESET">>
    BY <1>3, <1>11, TableRows, Zenon
  <2>2. Len(name) = 4 /\ name[1] = "AUX" /\ name[2] = "CHIP" /\ name[3] = "LEVEL" /\
          name[4] = "RESET"
    BY <2>1
  <2> QED BY <1>4, <1>11, <2>2, TableWords DEF NotBeside
<1> QED BY <1>5, <1>6, <1>7, <1>8, <1>9, <1>10, <1>11, Zenon

\* What the script says of a blank name and of the two that are shadowed.
LEMMA ScriptAlone ==
    /\ setRebootReason(NoName) = NoName
    /\ setRebootReason(<<"S", "CPU", "EJTAG", "RESET">>) = <<"S", "CPU", "EJTAG", "RESET">>
    /\ setRebootReason(<<"GEN", "WATCHDOG", "1", "RESET">>)[1] = "GEN"
<1>1. ASSUME NEW name, ~\E r \in Renamed : r[1] = name PROVE setRebootReason(name) = name
  BY <1>1, Zenon DEF setRebootReason
<1>2. ~\E r \in Renamed : r[1] = NoName
  BY RenamedHead DEF NoName
<1>3. ~\E r \in Renamed : r[1] = <<"S", "CPU", "EJTAG", "RESET">>
  BY RenamedHead
<1>4. setRebootReason(<<"GEN", "WATCHDOG", "1", "RESET">>)[1] = "GEN"
  <2> DEFINE name == <<"GEN", "WATCHDOG", "1", "RESET">>
             c == CHOOSE r \in Renamed : r[1] = name
  <2>1. \E r \in Renamed : r[1] = name
    <3>1. <<name, <<"GEN", "WATCHDOG", "RESET">>>>[1] = name
      OBVIOUS
    <3>2. <<name, <<"GEN", "WATCHDOG", "RESET">>>> \in Renamed
      BY Zenon DEF Renamed
    <3> HIDE DEF name
    <3> QED BY <3>1, <3>2, Zenon
  <2>2. name[1] = "GEN"
    OBVIOUS
  <2> HIDE DEF name
  <2>3. c \in Renamed /\ c[1] = name
    BY <2>1, Zenon
  <2>4. setRebootReason(name) = c[2]
    BY <2>1, Zenon DEF setRebootReason
  <2> HIDE DEF c
  <2>5. c[2][1] = "GEN"
    BY <2>2, <2>3, RenamedHead
  <2> QED BY <2>4, <2>5 DEF name
<1> QED BY <1>1, <1>2, <1>3, <1>4, Zenon

\* On these names the two tables differ.
LEMMA ScriptDiffers ==
    ASSUME NEW name \in Seq(STRING), name \in Shadowed \/ MappedByPart(name)
    PROVE  MappedTo(name) # setRebootReason(name)
<1>1. CASE MappedByPart(name)
  <2>1. setRebootReason(name) = name
    BY <1>1, Zenon DEF setRebootReason, MappedByPart, KnownNames
  <2> QED BY <1>1, <2>1, PartChanges, Zenon
<1>2. CASE name = <<"S", "CPU", "EJTAG", "RESET">>
  <2> DEFINE p == <<"CPU", "EJTAG", "RESET">>
             S == {"S", "CPU", "EJTAG", "RESET"}
  <2>1. Len(name) = 4 /\ name[1] = "S" /\ name[2] = "CPU" /\ name[3] = "EJTAG" /\
          name[4] = "RESET"
    BY <1>2
  <2>2. p # <<"S", "CPU", "EJTAG", "RESET">>
    OBVIOUS
  <2>3. p \in HardwareRows[16].patterns /\ HardwareRows[16].reason = p
    BY TableRows, Zenon
  <2>4. /\ 1 \in 0 .. Len(name) - Len(p)
        /\ \A j \in 1 .. Len(p) : name[1 + j] = p[j]
    BY <2>1
  <2>5. <<"S", "CPU", "EJTAG", "RESET">> \in Seq(S) /\ p \in Seq(S)
    OBVIOUS
  <2>6. 16 \in 1..21 /\ NotBefore(16, name)
    BY <2>1, TableWords DEF NotBefore
  <2> HIDE DEF p, S
  <2>7. Contains(name, p)
    BY <1>2, <2>4, <2>5, InsideAt, Zenon
  <2>8. MappedTo(name) = p
    BY <2>3, <2>6, <2>7, LandsIn, Zenon
  <2> QED BY <1>2, <2>2, <2>8, ScriptAlone, Zenon
<1>3. CASE name = <<"GEN", "WATCHDOG", "1", "RESET">>
  <2> DEFINE p == <<"WATCHDOG">>
             S == {"GEN", "WATCHDOG", "1", "RESET"}
             w == <<"WATCHDOG", "TIMER", "RESET">>
  <2>1. Len(name) = 4 /\ name[1] = "GEN" /\ name[2] = "WATCHDOG" /\ name[3] = "1" /\
          name[4] = "RESET"
    BY <1>3
  <2>2. w[1] # "GEN"
    OBVIOUS
  <2>3. p \in HardwareRows[2].patterns /\ HardwareRows[2].reason = w
    BY TableRows, Zenon
  <2>4. /\ 1 \in 0 .. Len(name) - Len(p)
        /\ \A j \in 1 .. Len(p) : name[1 + j] = p[j]
    BY <2>1
  <2>5. <<"GEN", "WATCHDOG", "1", "RESET">> \in Seq(S) /\ p \in Seq(S)
    OBVIOUS
  <2>6. 2 \in 1..21 /\ NotBefore(2, name)
    BY <2>1, TableWords DEF NotBefore
  <2> HIDE DEF p, S, w
  <2>7. Contains(name, p)
    BY <1>3, <2>4, <2>5, InsideAt, Zenon
  <2>8. MappedTo(name) = w
    BY <2>3, <2>6, <2>7, LandsIn, Zenon
  <2> QED BY <1>3, <2>2, <2>8, ScriptAlone, Zenon
<1> QED BY <1>1, <1>2, <1>3, Zenon DEF Shadowed

-----------------------------------------------------------------------------
(***************************************************************************)
(* Reasons that stand for a loss of power.                                 *)
(***************************************************************************)
\* A text with none of the words of a loss of power is not stamped.
LEMMA Unstamped ==
    ASSUME NEW S, "POWER" \notin S, "UNKNOWN" \notin S, NEW text \in Seq(S)
    PROVE  ~Stamped(text)
<1> DEFINE words == {"POWER", "UNKNOWN"}
<1>1. Says(<<"POWER", "ON">>, 1, words)
  BY DEF Says
<1>2. Says(HardPower, 2, words)
  BY DEF Says, HardPower
<1>3. Says(<<"UNKNOWN", "RESET">>, 1, words)
  BY DEF Says
<1> HIDE DEF words
<1>4. ASSUME NEW p, NEW k, Says(p, k, words) PROVE ~Contains(text, p)
  <2>1. \A j \in 1 .. Len(text) : text[j] \notin words
    BY DEF words
  <2> QED BY <1>4, <2>1, WordsInside, Zenon
<1> QED BY <1>1, <1>2, <1>3, <1>4, Zenon DEF Stamped

\* What the script takes for a loss of power is stamped.
LEMMA LossesStamped == \A name \in PowerLosses : Stamped(name)
<1>1. ASSUME NEW S, NEW name \in Seq(S), NEW p \in Seq(S), Begins(name, p)
      PROVE  Contains(name, p)
  BY <1>1, BeginningInside, Zenon DEF Begins
<1>2. Stamped(HardPower)
  <2> DEFINE S == {"HARD", "POWER"}
  <2>1. HardPower \in Seq(S) /\ Begins(HardPower, HardPower)
    BY DEF HardPower, Begins
  <2> QED BY <1>1, <2>1, Zenon DEF Stamped
<1>3. Stamped(<<"UNKNOWN", "RESET">>)
  <2> DEFINE S == {"UNKNOWN", "RESET"}
             p == <<"UNKNOWN", "RESET">>
  <2>1. p \in Seq(S) /\ Begins(p, p)
    BY DEF Begins
  <2> QED BY <1>1, <2>1, Zenon DEF Stamped
<1>4. Stamped(PowerOn)
  <2> DEFINE S == {"POWER", "ON", "RESET"}
             p == <<"POWER", "ON">>
  <2>1. PowerOn \in Seq(S) /\ p \in Seq(S) /\ Begins(PowerOn, p)
    BY DEF PowerOn, Begins
  <2> QED BY <1>1, <2>1, Zenon DEF Stamped
<1> QED BY <1>2, <1>3, <1>4, Zenon DEF PowerLosses

\* The fourth row is the only one whose reason is.
LEMMA UnstampedRows ==
    \A i \in 1..21 : i # 4 => ~Stamped(HardwareRows[i].reason)
<1> DEFINE S == {"SOFTWARE", "MASTER", "RESET", "WATCHDOG", "TIMER", "KERNEL", "PANIC",
                 "MAIN", "CHIP", "INPUT", "TAP", "IN", "SYSTEM", "FRONT", "PANEL", "S3",
                 "WAKEUP", "SMARTCARD", "INSERT", "OVERTEMP", "OVERVOLTAGE",
                 "UNDERVOLTAGE", "PCIE", "HOT", "BOOT", "SECURITY", "CPU", "EJTAG", "S",
                 "GEN", "AUX", "EDGE", "LEVEL", "MPM"}
<1>0. \A text \in Seq(S) : ~Stamped(text)
  <2>1. "POWER" \notin S /\ "UNKNOWN" \notin S
    OBVIOUS
  <2> QED BY <2>1, Unstamped, Zenon
<1>1. ~Stamped(HardwareRows[1].reason)
  <2>1. Software \in Seq(S)
    BY DEF Software
  <2> HIDE DEF S
  <2> QED BY <1>0, <2>1, TableRows, Zenon
<1>2. ~Stamped(HardwareRows[2].reason)
  <2>1. <<"WATCHDOG", "TIMER", "RESET">> \in Seq(S)
    OBVIOUS
  <2> HIDE DEF S
  <2> QED BY <1>0, <2>1, TableRows, Zenon
<1>3. ~Stamped(HardwareRows[3].reason)
  <2>1. Panic \in Seq(S)
    BY DEF Panic
  <2> HIDE DEF S
  <2> QED BY <1>0, <2>1, TableRows, Zenon
<1>5. ~Stamped(HardwareRows[5].reason)
  <2>1. <<"MAIN", "CHIP", "INPUT", "RESET">> \in Seq(S)
    OBVIOUS
  <2> HIDE DEF S
  <2> QED BY <1>0, <2>1, TableRows, Zenon
<1>6. ~Stamped(HardwareRows[6].reason)
  <2>1. <<"MAIN", "CHIP", "RESET", "INPUT">> \in Seq(S)
    OBVIOUS
  <2> HIDE DEF S
  <2> QED BY <1>0, <2>1, TableRows, Zenon
<1>7. ~Stamped(HardwareRows[7].reason)
  <2>1. <<"TAP", "IN", "SYSTEM", "RESET">> \in Seq(S)
    OBVIOUS
  <2> HIDE DEF S
  <2> QED BY <1>0, <2>1, TableRows, Zenon
<1>8. ~Stamped(HardwareRows[8].reason)
  <2>1. <<"FRONT", "PANEL", "RESET">> \in Seq(S)
    OBVIOUS
  <2> HIDE DEF S
  <2> QED BY <1>0, <2>1, TableRows, Zenon
<1>9. ~Stamped(HardwareRows[9].reason)
  <2>1. <<"S3", "WAKEUP", "RESET">> \in Seq(S)
    OBVIOUS
  <2> HIDE DEF S
  <2> QED BY <1>0, <2>1, TableRows, Zenon
<1>10. ~Stamped(HardwareRows[10].reason)
  <2>1. <<"SMARTCARD", "INSERT", "RESET">> \in Seq(S)
    OBVIOUS
  <2> HIDE DEF S
  <2> QED BY <1>0, <2>1, TableRows, Zenon
<1>11. ~Stamped(HardwareRows[11].reason)
  <2>1. <<"OVERTEMP", "RESET">> \in Seq(S)
    OBVIOUS
  <2> HIDE DEF S
  <2> QED BY <1>0, <2>1, TableRows, Zenon
<1>12. ~Stamped(HardwareRows[12].reason)
  <2>1. <<"OVERVOLTAGE", "RESET">> \in Seq(S)
    OBVIOUS
  <2> HIDE DEF S
  <2> QED BY <1>0, <2>1, TableRows, Zenon
<1>13. ~Stamped(HardwareRows[13].reason)
  <2>1. <<"UNDERVOLTAGE", "RESET">> \in Seq(S)
    OBVIOUS
  <2> HIDE DEF S
  <2> QED BY <1>0, <2>1, TableRows, Zenon
<1>14. ~Stamped(HardwareRows[14].reason)
  <2>1. <<"PCIE", "HOT", "BOOT", "RESET">> \in Seq(S)
    OBVIOUS
  <2> HIDE DEF S
  <2> QED BY <1>0, <2>1, TableRows, Zenon
<1>15. ~Stamped(HardwareRows[15].reason)
  <2>1. <<"SECURITY", "MASTER", "RESET">> \in Seq(S)
    OBVIOUS
  <2> HIDE DEF S
  <2> QED BY <1>0, <2>1, TableRows, Zenon
<1>16. ~Stamped(HardwareRows[16].reason)
  <2>1. <<"CPU", "EJTAG", "RESET">> \in Seq(S)
    OBVIOUS
  <2> HIDE DEF S
  <2> QED BY <1>0, <2>1, TableRows, Zenon
<1>17. ~Stamped(HardwareRows[17].reason)
  <2>1. <<"S", "CPU", "EJTAG", "RESET">> \in Seq(S)
    OBVIOUS
  <2> HIDE DEF S
  <2> QED BY <1>0, <2>1, TableRows, Zenon
<1>18. ~Stamped(HardwareRows[18].reason)
  <2>1. <<"GEN", "WATCHDOG", "RESET">> \in Seq(S)
    OBVIOUS
  <2> HIDE DEF S
  <2> QED BY <1>0, <2>1, TableRows, Zenon
<1>19. ~Stamped(HardwareRows[19].reason)
  <2>1. <<"AUX", "CHIP", "EDGE", "RESET">> \in Seq(S)
    OBVIOUS
  <2> HIDE DEF S
  <2> QED BY <1>0, <2>1, TableRows, Zenon
<1>20. ~Stamped(HardwareRows[20].reason)
  <2>1. <<"AUX", "CHIP", "LEVEL", "RESET">> \in Seq(S)
    OBVIOUS
  <2> HIDE DEF S
  <2> QED BY <1>0, <2>1, TableRows, Zenon
<1>21. ~Stamped(HardwareRows[21].reason)
  <2>1. <<"MPM", "RESET">> \in Seq(S)
    OBVIOUS
  <2> HIDE DEF S
  <2> QED BY <1>0, <2>1, TableRows, Zenon
<1>22. TAKE i \in 1..21
<1>23. HAVE i # 4
<1>24. \/ i = 1 \/ i = 2 \/ i = 3 \/ i = 5 \/ i = 6 \/ i = 7 \/ i = 8
       \/ i = 9 \/ i = 10 \/ i = 11 \/ i = 12 \/ i = 13 \/ i = 14 \/ i = 15
       \/ i = 16 \/ i = 17 \/ i = 18 \/ i = 19 \/ i = 20 \/ i = 21
  BY <1>23
<1> QED BY <1>1, <1>2, <1>3, <1>5, <1>6, <1>7, <1>8, <1>9, <1>10, <1>11, <1>12, <1>13,
     <1>14, <1>15, <1>16, <1>17, <1>18, <1>19, <1>20, <1>21, <1>24, Zenon

\* A row gives a reason that is stamped if it gives a loss of power.
LEMMA StampedRow ==
    ASSUME NEW k \in 1..21, NEW reason, reason = HardwareRows[k].reason
    PROVE  Stamped(reason) <=> reason \in PowerLosses
<1>1. HardwareRows[4].reason \in PowerLosses
  BY TableRows, Zenon DEF PowerLosses
<1>2. CASE k = 4
  BY <1>1, <1>2, LossesStamped, Zenon
<1>3. CASE k # 4
  BY <1>3, UnstampedRows, LossesStamped, Zenon
<1> QED BY <1>2, <1>3

\* Of the names that the script changes, one becomes a loss of power.
LEMMA RenamedPower ==
    ASSUME NEW r \in Renamed, r[2] \in PowerLosses
    PROVE  r[1] = <<"HARDWARE">>
<1>1. Stamped(r[2])
  BY LossesStamped, Zenon
<1>2. CASE r = <<<<"SOFTWARE">>, Software>>
  <2>1. r[2] = Software
    BY <1>2
  <2>2. r[2] = HardwareRows[1].reason
    BY <2>1, TableRows, Zenon
  <2>3. 1 \in 1..21 /\ 1 # 4
    OBVIOUS
  <2> QED BY <1>1, <2>2, <2>3, UnstampedRows, Zenon
<1>3. CASE r = <<<<"WATCHDOG">>, <<"WATCHDOG", "TIMER", "RESET">>>>
  <2>1. r[2] = <<"WATCHDOG", "TIMER", "RESET">>
    BY <1>3
  <2>2. r[2] = HardwareRows[2].reason
    BY <2>1, TableRows, Zenon
  <2>3. 2 \in 1..21 /\ 2 # 4
    OBVIOUS
  <2> QED BY <1>1, <2>2, <2>3, UnstampedRows, Zenon
<1>4. CASE r = <<<<"KERNEL", "PANIC", "RESET">>, Panic>>
  <2>1. r[2] = Panic
    BY <1>4
  <2>2. r[2] = HardwareRows[3].reason
    BY <2>1, TableRows, Zenon
  <2>3. 3 \in 1..21 /\ 3 # 4
    OBVIOUS
  <2> QED BY <1>1, <2>2, <2>3, UnstampedRows, Zenon
<1>5. CASE r = <<<<"HARDWARE">>, PowerOn>>
  BY <1>5
<1>6. CASE r = <<<<"FRONT", "PANEL", "4SEC", "RESET">>, <<"FRONT", "PANEL", "RESET">>>>
  <2>1. r[2] = <<"FRONT", "PANEL", "RESET">>
    BY <1>6
  <2>2. r[2] = HardwareRows[8].reason
    BY <2>1, TableRows, Zenon
  <2>3. 8 \in 1..21 /\ 8 # 4
    OBVIOUS
  <2> QED BY <1>1, <2>2, <2>3, UnstampedRows, Zenon
<1>7. CASE r = <<<<"OVERHEAT">>, <<"OVERTEMP", "RESET">>>>
  <2>1. r[2] = <<"OVERTEMP", "RESET">>
    BY <1>7
  <2>2. r[2] = HardwareRows[11].reason
    BY <2>1, TableRows, Zenon
  <2>3. 11 \in 1..21 /\ 11 # 4
    OBVIOUS
  <2> QED BY <1>1, <2>2, <2>3, UnstampedRows, Zenon
<1>8. CASE r = <<<<"OVERVOLTAGE", "1", "RESET">>, <<"OVERVOLTAGE", "RESET">>>>
  <2>1. r[2] = <<"OVERVOLTAGE", "RESET">>
    BY <1>8
  <2>2. r[2] = HardwareRows[12].reason
    BY <2>1, TableRows, Zenon
  <2>3. 12 \in 1..21 /\ 12 # 4
    OBVIOUS
  <2> QED BY <1>1, <2>2, <2>3, UnstampedRows, Zenon
<1>9. CASE r = <<<<"PCIE", "1", "HOT", "BOOT", "RESET">>, <<"PCIE", "HOT", "BOOT",
      "RESET">>>>
  <2>1. r[2] = <<"PCIE", "HOT", "BOOT", "RESET">>
    BY <1>9
  <2>2. r[2] = HardwareRows[14].reason
    BY <2>1, TableRows, Zenon
  <2>3. 14 \in 1..21 /\ 14 # 4
    OBVIOUS
  <2> QED BY <1>1, <2>2, <2>3, UnstampedRows, Zenon
<1>10. CASE r = <<<<"PCIE", "0", "HOT", "BOOT", "RESET">>, <<"PCIE", "HOT", "BOOT",
      "RESET">>>>
  <2>1. r[2] = <<"PCIE", "HOT", "BOOT", "RESET">>
    BY <1>10
  <2>2. r[2] = HardwareRows[14].reason
    BY <2>1, TableRows, Zenon
  <2>3. 14 \in 1..21 /\ 14 # 4
    OBVIOUS
  <2> QED BY <1>1, <2>2, <2>3, UnstampedRows, Zenon
<1>11. CASE r = <<<<"UNDERVOLTAGE", "1", "RESET">>, <<"UNDERVOLTAGE", "RESET">>>>
  <2>1. r[2] = <<"UNDERVOLTAGE", "RESET">>
    BY <1>11
  <2>2. r[2] = HardwareRows[13].reason
    BY <2>1, TableRows, Zenon
  <2>3. 13 \in 1..21 /\ 13 # 4
    OBVIOUS
  <2> QED BY <1>1, <2>2, <2>3, UnstampedRows, Zenon
<1>12. CASE r = <<<<"UNDERVOLTAGE", "0", "RESET">>, <<"UNDERVOLTAGE", "RESET">>>>
  <2>1. r[2] = <<"UNDERVOLTAGE", "RESET">>
    BY <1>12
  <2>2. r[2] = HardwareRows[13].reason
    BY <2>1, TableRows, Zenon
  <2>3. 13 \in 1..21 /\ 13 # 4
    OBVIOUS
  <2> QED BY <1>1, <2>2, <2>3, UnstampedRows, Zenon
<1>13. CASE r = <<<<"GEN", "WATCHDOG", "1", "RESET">>, <<"GEN", "WATCHDOG", "RESET">>>>
  <2>1. r[2] = <<"GEN", "WATCHDOG", "RESET">>
    BY <1>13
  <2>2. r[2] = HardwareRows[18].reason
    BY <2>1, TableRows, Zenon
  <2>3. 18 \in 1..21 /\ 18 # 4
    OBVIOUS
  <2> QED BY <1>1, <2>2, <2>3, UnstampedRows, Zenon
<1>14. CASE r = <<<<"AUX", "CHIP", "EDGE", "RESET", "0">>, <<"AUX", "CHIP", "EDGE",
      "RESET">>>>
  <2>1. r[2] = <<"AUX", "CHIP", "EDGE", "RESET">>
    BY <1>14
  <2>2. r[2] = HardwareRows[19].reason
    BY <2>1, TableRows, Zenon
  <2>3. 19 \in 1..21 /\ 19 # 4
    OBVIOUS
  <2> QED BY <1>1, <2>2, <2>3, UnstampedRows, Zenon
<1>15. CASE r = <<<<"AUX", "CHIP", "EDGE", "RESET", "1">>, <<"AUX", "CHIP", "EDGE",
      "RESET">>>>
  <2>1. r[2] = <<"AUX", "CHIP", "EDGE", "RESET">>
    BY <1>15
  <2>2. r[2] = HardwareRows[19].reason
    BY <2>1, TableRows, Zenon
  <2>3. 19 \in 1..21 /\ 19 # 4
    OBVIOUS
  <2> QED BY <1>1, <2>2, <2>3, UnstampedRows, Zenon
<1>16. CASE r = <<<<"AUX", "CHIP", "LEVEL", "RESET", "0">>, <<"AUX", "CHIP", "LEVEL",
      "RESET">>>>
  <2>1. r[2] = <<"AUX", "CHIP", "LEVEL", "RESET">>
    BY <1>16
  <2>2. r[2] = HardwareRows[20].reason
    BY <2>1, TableRows, Zenon
  <2>3. 20 \in 1..21 /\ 20 # 4
    OBVIOUS
  <2> QED BY <1>1, <2>2, <2>3, UnstampedRows, Zenon
<1>17. CASE r = <<<<"AUX", "CHIP", "LEVEL", "RESET", "1">>, <<"AUX", "CHIP", "LEVEL",
      "RESET">>>>
  <2>1. r[2] = <<"AUX", "CHIP", "LEVEL", "RESET">>
    BY <1>17
  <2>2. r[2] = HardwareRows[20].reason
    BY <2>1, TableRows, Zenon
  <2>3. 20 \in 1..21 /\ 20 # 4
    OBVIOUS
  <2> QED BY <1>1, <2>2, <2>3, UnstampedRows, Zenon
<1> QED BY <1>2, <1>3, <1>4, <1>5, <1>6, <1>7, <1>8, <1>9, <1>10, <1>11, <1>12, <1>13,
     <1>14, <1>15, <1>16, <1>17, Zenon DEF Renamed

\* The two losses of power that the script's table does not have pass unchanged.
LEMMA LossesPass ==
    ASSUME NEW name \in PowerLosses, name # PowerOn
    PROVE  \A i \in 1..21 : ~Hit(name, i)
<1>1. CASE name = HardPower
  <2> DEFINE S == {"HARD", "POWER"}
  <2>1. name \in Seq(S)
    BY <1>1 DEF HardPower
  <2>2. Len(name) = 2 /\ name[1] = "HARD" /\ name[2] = "POWER"
    BY <1>1 DEF HardPower
  <2> HIDE DEF S
  <2>3. \A i \in 1..21 : \A j \in 1 .. Len(name) : name[j] \notin RowWords[i]
    BY <2>2, TableWords
  <2> QED BY <2>1, <2>3, NoHit, Zenon
<1>2. CASE name = <<"UNKNOWN", "RESET">>
  <2> DEFINE S == {"UNKNOWN", "RESET"}
  <2>1. name \in Seq(S)
    BY <1>2
  <2>2. Len(name) = 2 /\ name[1] = "UNKNOWN" /\ name[2] = "RESET"
    BY <1>2
  <2> HIDE DEF S
  <2>3. \A i \in 1..21 : \A j \in 1 .. Len(name) : name[j] \notin RowWords[i]
    BY <2>2, TableWords
  <2> QED BY <2>1, <2>3, NoHit, Zenon
<1> QED BY <1>1, <1>2, Zenon DEF PowerLosses

\* The names that the script takes for a loss of power.
LEMMA ScriptPower ==
    ASSUME NEW name, setRebootReason(name) \in PowerLosses
    PROVE  name = <<"HARDWARE">> \/ name \in PowerLosses
<1>1. CASE \E r \in Renamed : r[1] = name
  <2> DEFINE c == CHOOSE r \in Renamed : r[1] = name
  <2>1. c \in Renamed /\ c[1] = name
    BY <1>1, Zenon
  <2>2. setRebootReason(name) = c[2]
    BY <1>1, Zenon DEF setRebootReason
  <2> HIDE DEF c
  <2> QED BY <2>1, <2>2, RenamedPower, Zenon
<1>2. CASE ~\E r \in Renamed : r[1] = name
  BY <1>2, Zenon DEF setRebootReason
<1> QED BY <1>1, <1>2

\* A shadowed name is no loss of power, neither to the program nor to the script.
LEMMA ShadowedPower ==
    ASSUME NEW name \in Seq(STRING), name \in Shadowed
    PROVE  ~Stamped(MappedTo(name)) /\ setRebootReason(name) \notin PowerLosses
<1> DEFINE S == {"S", "CPU", "EJTAG", "RESET", "GEN", "WATCHDOG", "1"}
<1>1. name \in Seq(S) /\ Len(name) = 4
  <2>1. CASE name = <<"S", "CPU", "EJTAG", "RESET">>
    BY <2>1
  <2>2. CASE name = <<"GEN", "WATCHDOG", "1", "RESET">>
    BY <2>2
  <2> QED BY <2>1, <2>2, Zenon DEF Shadowed
<1>2. "POWER" \notin S /\ "UNKNOWN" \notin S /\ "ON" \notin S /\ "HARDWARE" \notin S
  OBVIOUS
<1> HIDE DEF S
<1>3. ~Stamped(name)
  BY <1>1, <1>2, Unstamped, Zenon
<1>4. ~Hit(name, 4)
  <2>1. RowWords[4] = {"ON", "HARDWARE"} /\ 4 \in 1..21
    BY TableWords
  <2>2. \A j \in 1 .. Len(name) : name[j] \in S
    BY <1>1, ElementOfSeq, Zenon
  <2>3. \A j \in 1 .. Len(name) : name[j] \notin RowWords[4]
    BY <1>2, <2>1, <2>2, Zenon
  <2> QED BY <2>1, <2>3, NoHit, Zenon
<1>5. ~Stamped(MappedTo(name))
  <2>1. CASE MappedTo(name) = name
    BY <1>3, <2>1
  <2>2. CASE MappedTo(name) # name
    <3>1. PICK k \in 1..21 : Hit(name, k) /\ MappedTo(name) = HardwareRows[k].reason
      BY <2>2, FirstHit, Zenon
    <3>2. k # 4
      BY <1>4, <3>1, Zenon
    <3> QED BY <3>1, <3>2, UnstampedRows, Zenon
  <2> QED BY <2>1, <2>2
<1>6. name # <<"HARDWARE">>
  BY <1>1
<1> QED BY <1>3, <1>5, <1>6, ScriptPower, LossesStamped, Zenon

\* The program takes a name for a loss of power if the script does, unless it is
\* new to the script and the program knows a part of it.
LEMMA PowerAgrees ==
    ASSUME NEW name \in Seq(STRING), ~PowerByPart(name)
    PROVE  Stamped(MappedTo(name)) <=> setRebootReason(name) \in PowerLosses
<1>1. Stamped(name) <=> name \in PowerLosses
  BY LossesStamped, Zenon DEF PowerByPart
<1>2. CASE name \in Shadowed
  BY <1>2, ShadowedPower, Zenon
<1>3. CASE name \in KnownNames /\ name \notin Shadowed
  <2>1. MappedTo(name) = setRebootReason(name)
    BY <1>3, ScriptAgrees, Zenon DEF MappedByPart
  <2>2. CASE MappedTo(name) = name
    BY <1>1, <2>1, <2>2, Zenon
  <2>3. CASE MappedTo(name) # name
    <3>1. PICK k \in 1..21 : MappedTo(name) = HardwareRows[k].reason
      BY <2>3, FirstHit, Zenon
    <3> QED BY <2>1, <3>1, StampedRow, Zenon
  <2> QED BY <2>2, <2>3
<1>4. CASE name \notin KnownNames
  <2>1. setRebootReason(name) = name
    BY <1>4, Zenon DEF KnownNames, setRebootReason
  <2>2. ~Hit(name, 4)
    BY <1>4, Zenon DEF PowerByPart, Hit
  <2>3. CASE \A i \in 1..21 : ~Hit(name, i)
    <3>1. MappedTo(name) = name
      BY <2>3, FirstHit, Zenon
    <3> QED BY <1>1, <2>1, <3>1, Zenon
  <2>4. CASE ~\A i \in 1..21 : ~Hit(name, i)
    <3>1. PICK k \in 1..21 : Hit(name, k) /\ MappedTo(name) = HardwareRows[k].reason
      BY <2>4, FirstHit, Zenon
    <3>2. k # 4
      BY <2>2, <3>1, Zenon
    <3>3. ~Stamped(MappedTo(name))
      BY <3>1, <3>2, UnstampedRows, Zenon
    <3>4. name # PowerOn
      BY <1>4, Zenon DEF KnownNames, SelfNamed
    <3>5. name \notin PowerLosses
      BY <3>1, <3>4, LossesPass, Zenon
    <3> QED BY <2>1, <3>3, <3>5, Zenon
  <2> QED BY <2>3, <2>4
<1> QED BY <1>2, <1>3, <1>4

-----------------------------------------------------------------------------
(***************************************************************************)
(* What the stages make of the device, and the verdict.                    *)
(***************************************************************************)
ThisDevice == [soc |-> soc, tv |-> tv, mediaclient |-> TypeIsMediaclient]

Judged ==
    Classified(ThisDevice, FailureIn(ThisDevice, logs), PanicIn(ThisDevice, logs),
               RegisterReason(ThisDevice, register))

\* A context or a struct that is filled in holds what the files say now, and
\* every derivation of the boot has come to the verdict they give now.
StageInv ==
    /\ pc # "properties" => ctx = ThisDevice
    /\ pc \notin {"properties", "panic"} => panicInfo = PanicIn(ThisDevice, logs)
    /\ pc \in {"hardware", "classify", "log", "end"} =>
         fwFailure = FailureIn(ThisDevice, logs)
    /\ pc \in {"classify", "log", "end"} =>
         hwReason = RegisterReason(ThisDevice, register)
    /\ pc \in {"log", "end"} => info = Judged

\* Before its stage a struct is as main has cleared it.
ClearInv ==
    /\ pc = "properties" => ctx = NoContext
    /\ pc \in {"properties", "panic"} => panicInfo = FALSE
    /\ pc \in {"properties", "panic", "firmware"} => fwFailure = NoFailure
    /\ pc \in {"properties", "panic", "firmware", "hardware"} => hwReason = NoReason
    /\ pc \notin {"log", "end"} => info = NoInfo

\* The first derivation came to that verdict.
FirstInv == pc = "end" \/ runs # 1 => first = Judged

ClassifyInv == DeviceTypes /\ StageInv /\ ClearInv /\ FirstInv

USE DEF device

\* The line that a derivation leaves behind is no evidence for the next one.
LEMMA AnnotationKeeps ==
    ASSUME NEW c, NEW marks
    PROVE  /\ PanicIn(c, marks \cup {"annotated"}) = PanicIn(c, marks)
           /\ FailureIn(c, marks \cup {"annotated"}) = FailureIn(c, marks)
<1> DEFINE more == marks \cup {"annotated"}
<1>1. \A m : m # "annotated" => (m \in more <=> m \in marks)
  OBVIOUS
<1>2. PanicIn(c, more) = PanicIn(c, marks)
  <2>1. "oops" \in more <=> "oops" \in marks
    OBVIOUS
  <2>2. "panic" \in more <=> "panic" \in marks
    OBVIOUS
  <2>3. "ramoops" \in more <=> "ramoops" \in marks
    OBVIOUS
  <2> HIDE DEF more
  <2> QED BY <2>1, <2>2, <2>3 DEF PanicIn
<1>3. LimitReached(c, more) = LimitReached(c, marks)
  BY <1>1 DEF LimitReached
<1>4. EcmCrashed(c, more) = EcmCrashed(c, marks)
  BY <1>1 DEF EcmCrashed
<1>5. Initiator(c, more) = Initiator(c, marks)
  BY <1>3, <1>4 DEF Initiator
<1> HIDE DEF more
<1>6. FailureIn(c, more) = FailureIn(c, marks)
  BY <1>3, <1>4, <1>5, Zenon DEF FailureIn
<1> QED BY <1>2, <1>6 DEF more

\* So the verdict is the same as long as nothing else is written to the logs.
LEMMA VerdictKept ==
    ASSUME UNCHANGED device, logs' \in {logs, logs \cup {"annotated"}}
    PROVE  /\ ThisDevice' = ThisDevice
           /\ PanicIn(ThisDevice, logs') = PanicIn(ThisDevice, logs)
           /\ FailureIn(ThisDevice, logs') = FailureIn(ThisDevice, logs)
           /\ RegisterReason(ThisDevice, register)' = RegisterReason(ThisDevice, register)
           /\ Judged' = Judged
<1>1. ThisDevice' = ThisDevice
  BY DEF ThisDevice, TypeIsMediaclient
<1>2. register' = register
  OBVIOUS
<1>3. PanicIn(ThisDevice, logs') = PanicIn(ThisDevice, logs)
      /\ FailureIn(ThisDevice, logs') = FailureIn(ThisDevice, logs)
  BY AnnotationKeeps, Zenon
<1>4. RegisterReason(ThisDevice, register)' = RegisterReason(ThisDevice, register)
  BY <1>1, <1>2, Zenon DEF RegisterReason
<1>5. Judged' = Judged
  BY <1>1, <1>2, <1>3, <1>4, Zenon DEF Judged
<1> QED BY <1>1, <1>3, <1>4, <1>5

(***************************************************************************)
(* The steps.                                                              *)
(***************************************************************************)
LEMMA InitClassify == Init => ClassifyInv
<1> SUFFICES ASSUME Init PROVE ClassifyInv
  OBVIOUS
<1>1. DeviceTypes
  <2>1. 1 \in 1..MaxRuns
    BY BoundsAssumption
  <2> QED BY <2>1 DEF Init, DeviceTypes
<1>2. StageInv /\ ClearInv /\ FirstInv
  BY DEF Init, StageInv, ClearInv, FirstInv
<1> QED BY <1>1, <1>2 DEF ClassifyInv

LEMMA ClassifyStep ==
    ASSUME ClassifyInv, [Next]_vars
    PROVE  ClassifyInv'
<1> USE DEF ClassifyInv
<1>0. DeviceTypes /\ StageInv /\ ClearInv /\ FirstInv
  OBVIOUS
<1>1. CASE parse_device_properties
  <2> USE <1>1 DEF parse_device_properties, Goto
  <2>1. UNCHANGED device /\ logs' = logs
    OBVIOUS
  <2>2. DeviceTypes'
    BY <1>0 DEF DeviceTypes
  <2>3. ThisDevice' = ThisDevice /\ Judged' = Judged
    BY <2>1, VerdictKept
  <2>4. StageInv'
    BY <2>3 DEF StageInv, ThisDevice
  <2>5. ClearInv' /\ FirstInv'
    BY <1>0, <2>3 DEF ClearInv, FirstInv
  <2> QED BY <2>2, <2>4, <2>5
<1>2. CASE detect_kernel_panic
  <2> USE <1>2 DEF detect_kernel_panic, Goto
  <2>1. UNCHANGED device /\ logs' \in {logs, logs \cup {"annotated"}}
    OBVIOUS
  <2>2. DeviceTypes'
    BY <1>0, <2>1 DEF DeviceTypes
  <2>3. ThisDevice' = ThisDevice /\ Judged' = Judged
        /\ PanicIn(ThisDevice, logs') = PanicIn(ThisDevice, logs)
    BY <2>1, VerdictKept
  <2>4. ctx = ThisDevice /\ panicInfo' = PanicIn(ctx, logs)
    BY <1>0 DEF StageInv
  <2>5. ctx' = ThisDevice' /\ panicInfo' = PanicIn(ThisDevice', logs')
    BY <2>3, <2>4
  <2>6. StageInv'
    BY <2>5 DEF StageInv
  <2>7. ClearInv' /\ FirstInv'
    BY <1>0, <2>3 DEF ClearInv, FirstInv
  <2> QED BY <2>2, <2>6, <2>7
<1>3. CASE check_firmware_failure
  <2> USE <1>3 DEF check_firmware_failure, Goto
  <2>1. UNCHANGED device /\ logs' = logs
    OBVIOUS
  <2>2. DeviceTypes'
    BY <1>0 DEF DeviceTypes
  <2>3. ThisDevice' = ThisDevice /\ Judged' = Judged
    BY <2>1, VerdictKept
  <2>4. StageInv'
    BY <1>0, <2>3 DEF StageInv
  <2>5. ClearInv' /\ FirstInv'
    BY <1>0, <2>3 DEF ClearInv, FirstInv
  <2> QED BY <2>2, <2>4, <2>5
<1>4. CASE get_hardware_reason
  <2> USE <1>4 DEF get_hardware_reason, Goto
  <2>1. UNCHANGED device /\ logs' = logs
    OBVIOUS
  <2>2. DeviceTypes'
    BY <1>0 DEF DeviceTypes
  <2>3. ThisDevice' = ThisDevice /\ Judged' = Judged
    BY <2>1, VerdictKept
  <2>4. StageInv'
    BY <1>0, <2>3 DEF StageInv
  <2>5. ClearInv' /\ FirstInv'
    BY <1>0, <2>3 DEF ClearInv, FirstInv
  <2> QED BY <2>2, <2>4, <2>5
<1>5. CASE classify_reboot_reason
  <2> USE <1>5 DEF classify_reboot_reason, Goto
  <2>1. UNCHANGED device /\ logs' = logs
    OBVIOUS
  <2>2. DeviceTypes'
    BY <1>0 DEF DeviceTypes
  <2>3. ThisDevice' = ThisDevice /\ Judged' = Judged
    BY <2>1, VerdictKept
  <2>4. info' = Judged
    BY <1>0 DEF StageInv, Judged
  <2>5. StageInv'
    BY <1>0, <2>3, <2>4 DEF StageInv
  <2>6. ClearInv' /\ FirstInv'
    BY <1>0, <2>3 DEF ClearInv, FirstInv
  <2> QED BY <2>2, <2>5, <2>6
<1>6. CASE update_kernel_log
  <2> USE <1>6 DEF update_kernel_log, Goto
  <2>1. UNCHANGED device /\ logs' \in {logs, logs \cup {"annotated"}}
    OBVIOUS
  <2>2. DeviceTypes'
    BY <1>0, <2>1 DEF DeviceTypes
  <2>3. ThisDevice' = ThisDevice /\ Judged' = Judged
        /\ PanicIn(ThisDevice, logs') = PanicIn(ThisDevice, logs)
        /\ FailureIn(ThisDevice, logs') = FailureIn(ThisDevice, logs)
    BY <2>1, VerdictKept
  <2>4. info = Judged /\ ctx = ThisDevice /\ panicInfo = PanicIn(ThisDevice, logs)
        /\ fwFailure = FailureIn(ThisDevice, logs)
        /\ hwReason = RegisterReason(ThisDevice, register)
    BY <1>0 DEF StageInv
  <2>5. StageInv'
    BY <2>3, <2>4 DEF StageInv
  <2>6. ClearInv'
    BY <1>0 DEF ClearInv
  <2>7. FirstInv'
    BY <1>0, <2>3, <2>4 DEF FirstInv
  <2> QED BY <2>2, <2>5, <2>6, <2>7
<1>7. CASE Rederive
  <2> USE <1>7 DEF Rederive, Goto
  <2>1. UNCHANGED device /\ logs' = logs
    OBVIOUS
  <2>2. DeviceTypes'
    <3>1. runs' \in 1..MaxRuns
      BY <1>0, BoundsAssumption DEF DeviceTypes
    <3> QED BY <1>0, <3>1 DEF DeviceTypes
  <2>3. Judged' = Judged
    BY <2>1, VerdictKept
  <2>4. StageInv' /\ ClearInv'
    BY DEF StageInv, ClearInv
  <2>5. FirstInv'
    BY <1>0, <2>3 DEF FirstInv
  <2> QED BY <2>2, <2>4, <2>5
<1>8. CASE UNCHANGED vars
  <2> USE <1>8 DEF vars
  <2>1. UNCHANGED device /\ logs' = logs
    OBVIOUS
  <2>2. DeviceTypes'
    BY <1>0 DEF DeviceTypes
  <2>3. ThisDevice' = ThisDevice /\ Judged' = Judged
    BY <2>1, VerdictKept
  <2>4. StageInv'
    BY <1>0, <2>3 DEF StageInv
  <2>5. ClearInv' /\ FirstInv'
    BY <1>0, <2>3 DEF ClearInv, FirstInv
  <2> QED BY <2>2, <2>4, <2>5
<1> QED
  BY <1>1, <1>2, <1>3, <1>4, <1>5, <1>6, <1>7, <1>8 DEF Next, Terminated

\* Every derivation comes to the verdict that the files give now.
THEOREM StagesHold == Spec => []ClassifyInv
<1>1. ClassifyInv /\ [Next]_vars => ClassifyInv'
  BY ClassifyStep
<1> QED BY InitClassify, <1>1, PTL DEF Spec

-----------------------------------------------------------------------------
(***************************************************************************)
(* The properties.                                                         *)
(***************************************************************************)
\* What a first derivation writes to messages.txt does not change what a second
\* one of the same boot finds (detect_kernel_panic, update_reboot_info).
THEOREM VerdictStable == Spec => []Rederived
<1>1. ClassifyInv => Rederived
  BY DEF ClassifyInv, StageInv, FirstInv, Rederived
<1> QED BY <1>1, StagesHold, PTL

LEMMA VerdictParts ==
    ASSUME NEW src, NEW reason, NEW custom, NEW v, v = Verdict(src, reason, custom)
    PROVE  v.source = src /\ v.reason = reason
BY DEF Verdict

\* Where the register decides, the record is complete, and tells a failure or a
\* panic only if the register does.
LEMMA ByRegisterSoundly ==
    ASSUME NEW c, NEW line \in Registers,
           NEW hw, hw = RegisterReason(c, line), hw.mapped # NoName,
           NEW v, v = ByRegister(c, hw)
    PROVE  /\ v.source # "" /\ v.reason # NoName
           /\ v.reason = FwFailure =>
                c.soc = "BRCM" /\ line # NoRegister /\ line[1] = FwFailure
           /\ v.reason = Panic =>
                c.soc = "BRCM" /\ line # NoRegister /\ Contains(line[1], Panic)
<1> DEFINE brcm    == c.soc \in {"BRCM", "BROADCOM"}
           mapped  == map_hardware_reason(hw.mapped)
           power   == Verdict("Hard Power Reset", HardPower, <<<<"NULL">>>>)
<1>1. ASSUME NEW src, NEW reason, NEW custom, v = Verdict(src, reason, custom)
      PROVE  v.source = src /\ v.reason = reason
  BY <1>1, VerdictParts
<1>2. v = power => v.source = "Hard Power Reset" /\ v.reason = HardPower
  BY <1>1
<1>3. HardPower \notin {NoName, FwFailure, Panic} /\ "Hard Power Reset" # ""
  BY DEF HardPower, NoName, FwFailure, Panic
<1>4. CASE c.soc = "BRCM" /\ line # NoRegister
  <2>1. hw = [raw |-> line, mapped |-> line[1]]
    BY <1>4 DEF RegisterReason
  <2>2. hw.mapped = line[1]
    BY <2>1
  <2>3. line[1] \in Seq(STRING) /\ line[1] # NoName
    <3>1. line \in Seq(Seq(STRING)) /\ line # <<>>
      BY <1>4, BoundsAssumption DEF NoRegister
    <3>2. line[1] \in Seq(STRING)
      BY <3>1
    <3> QED BY <2>2, <3>2
  <2>4. /\ mapped.source # "" /\ mapped.reason # NoName
        /\ mapped.reason = FwFailure => line[1] = FwFailure
        /\ mapped.reason = Panic => Contains(line[1], Panic)
    BY <2>2, <2>3, MappedSoundly, Zenon
  <2>5. v = power \/ (v.source = mapped.source /\ v.reason = mapped.reason)
    <3> HIDE DEF mapped
    <3> DEFINE named == <<IF brcm THEN hw.mapped ELSE mapped.reason>>
    <3>1. \/ v = power
          \/ v = Verdict(mapped.source, mapped.reason, hw.raw)
          \/ v = Verdict(mapped.source, mapped.reason, named)
      BY Zenon DEF ByRegister, mapped
    <3>2. CASE v = Verdict(mapped.source, mapped.reason, hw.raw)
      BY <1>1, <3>2
    <3> HIDE DEF named
    <3>3. CASE v = Verdict(mapped.source, mapped.reason, named)
      BY <1>1, <3>3
    <3> QED BY <3>1, <3>2, <3>3
  <2> HIDE DEF mapped, power
  <2> QED BY <1>2, <1>3, <1>4, <2>4, <2>5, Zenon
<1>5. CASE ~(c.soc = "BRCM" /\ line # NoRegister)
  <2>1. hw = [raw |-> <<NoName>>, mapped |-> Unknown]
    BY <1>5 DEF RegisterReason
  <2>2. hw.raw = <<NoName>> /\ hw.mapped = Unknown
    BY <2>1
  <2>3. v = power
    BY <2>2, Zenon DEF ByRegister
  <2> HIDE DEF power
  <2> QED BY <1>2, <1>3, <2>3, Zenon
<1> QED BY <1>4, <1>5, Zenon

\* The verdict: the record is complete, and its reason is that of the strongest
\* evidence.
LEMMA JudgedSoundly ==
    ASSUME DeviceTypes, NEW v, v = Judged
    PROVE  /\ v.source # "" /\ v.reason # NoName
           /\ FailureIn(ThisDevice, logs).detected => v.reason = FwFailure
           /\ ~FailureIn(ThisDevice, logs).detected /\ PanicIn(ThisDevice, logs) =>
                v.reason = Panic
           /\ v.reason = FwFailure =>
                FailureIn(ThisDevice, logs).detected
                  \/ (RegisterRead /\ register[1] = FwFailure)
           /\ v.reason = Panic =>
                PanicIn(ThisDevice, logs)
                  \/ (RegisterRead /\ Contains(register[1], Panic))
<1> DEFINE fw    == FailureIn(ThisDevice, logs)
           panic == PanicIn(ThisDevice, logs)
           hw    == RegisterReason(ThisDevice, register)
<1>0. v = IF fw.detected THEN ByFirmware(fw)
          ELSE IF panic THEN ByPanic
          ELSE IF hw.mapped # NoName THEN ByRegister(ThisDevice, hw) ELSE ByDefault
  BY Zenon DEF Judged, Classified
<1>1. FwFailure # NoName /\ Panic # NoName /\ FwFailure # Panic
      /\ Software # NoName /\ Software # FwFailure /\ Software # Panic
  BY DEF FwFailure, Panic, Software, NoName
<1>2. ThisDevice.soc = soc
  BY DEF ThisDevice
<1>3. CASE fw.detected
  <2>1. v = ByFirmware(fw)
    BY <1>0, <1>3, Zenon
  <2>2. v.source # "" /\ v.reason = FwFailure
    <3> DEFINE src == IF fw.initiator = "" THEN "FirmwareFailure" ELSE fw.initiator
    <3>1. src # ""
      OBVIOUS
    <3>2. v = Verdict(src, FwFailure, <<>>)
      BY <2>1 DEF ByFirmware
    <3> HIDE DEF src
    <3>3. v.source = src /\ v.reason = FwFailure
      BY <3>2, VerdictParts
    <3> QED BY <3>1, <3>3
  <2> QED BY <1>1, <1>3, <2>2, Zenon
<1>4. CASE ~fw.detected /\ panic
  <2>1. v = ByPanic
    BY <1>0, <1>4, Zenon
  <2>2. v.source # "" /\ v.reason = Panic
    BY <2>1 DEF ByPanic, Verdict
  <2> QED BY <1>1, <1>4, <2>2, Zenon
<1>5. CASE ~fw.detected /\ ~panic /\ hw.mapped # NoName
  <2>1. v = ByRegister(ThisDevice, hw)
    BY <1>0, <1>5, Zenon
  <2>2. register \in Registers
    BY DEF DeviceTypes
  <2>3. /\ v.source # "" /\ v.reason # NoName
        /\ v.reason = FwFailure =>
             ThisDevice.soc = "BRCM" /\ register # NoRegister /\ register[1] = FwFailure
        /\ v.reason = Panic =>
             ThisDevice.soc = "BRCM" /\ register # NoRegister
             /\ Contains(register[1], Panic)
    BY <1>5, <2>1, <2>2, ByRegisterSoundly, Zenon
  <2> QED BY <1>1, <1>2, <1>5, <2>3, Zenon DEF RegisterRead
<1>6. CASE ~fw.detected /\ ~panic /\ hw.mapped = NoName
  <2>1. v = ByDefault
    BY <1>0, <1>6, Zenon
  <2>2. v.source # "" /\ v.reason = Software
    BY <2>1 DEF ByDefault, Verdict
  <2> QED BY <1>1, <1>6, <2>2, Zenon
<1> QED BY <1>3, <1>4, <1>5, <1>6, Zenon

\* Where no log decides: the register does, if it has a name; without one, the
\* program reports a software reboot, and without a register a loss of power.
LEMMA RegisterDecides ==
    ASSUME DeviceTypes, NEW v, v = Judged,
           ~FailureIn(ThisDevice, logs).detected, ~PanicIn(ThisDevice, logs)
    PROVE  /\ RegisterRead => register[1] \in Seq(STRING)
           /\ RegisterRead /\ register[1] # NoName => v.reason = MappedTo(register[1])
           /\ RegisterRead /\ register[1] = NoName => v.reason = Software
           /\ ~RegisterRead => v.reason = HardPower
<1> DEFINE hw == RegisterReason(ThisDevice, register)
<1>0. v = IF hw.mapped # NoName THEN ByRegister(ThisDevice, hw) ELSE ByDefault
  BY Zenon DEF Judged, Classified
<1>1. ThisDevice.soc = soc
  BY DEF ThisDevice
<1>2. CASE RegisterRead
  <2>1. hw = [raw |-> register, mapped |-> register[1]]
    BY <1>1, <1>2 DEF RegisterReason, RegisterRead
  <2>2. hw.raw = register /\ hw.mapped = register[1]
    BY <2>1
  <2>3. register[1] \in Seq(STRING)
    <3>1. register \in Seq(Seq(STRING)) /\ register # <<>>
      BY <1>2, BoundsAssumption DEF DeviceTypes, RegisterRead, NoRegister
    <3> QED BY <3>1
  <2> HIDE DEF hw
  <2>4. ASSUME register[1] # NoName PROVE v.reason = MappedTo(register[1])
    <3> DEFINE mapped == map_hardware_reason(register[1])
    <3>1. <<NoName>>[1] = NoName
      OBVIOUS
    <3>2. hw.raw # <<NoName>>
      BY <2>2, <2>4, <3>1
    <3>3. ThisDevice.soc \in {"BRCM", "BROADCOM"}
      BY <1>1, <1>2 DEF RegisterRead
    <3>4. v = ByRegister(ThisDevice, hw)
      BY <1>0, <2>2, <2>4, Zenon DEF hw
    <3>5. v = Verdict(mapped.source, mapped.reason, hw.raw)
      BY <2>2, <3>2, <3>3, <3>4, Zenon DEF ByRegister
    <3> HIDE DEF mapped
    <3>6. v.reason = mapped.reason
      BY <3>5, VerdictParts
    <3> QED BY <3>6, Zenon DEF mapped, MappedTo
  <2>5. ASSUME register[1] = NoName PROVE v.reason = Software
    <3>1. v = ByDefault
      BY <1>0, <2>2, <2>5, Zenon DEF hw
    <3> QED BY <3>1 DEF ByDefault, Verdict
  <2> QED BY <1>2, <2>3, <2>4, <2>5, Zenon
<1>3. CASE ~RegisterRead
  <2>1. hw = [raw |-> <<NoName>>, mapped |-> Unknown]
    BY <1>1, <1>3 DEF RegisterReason, RegisterRead
  <2>2. hw.raw = <<NoName>> /\ hw.mapped = Unknown
    BY <2>1
  <2>3. Unknown # NoName
    BY DEF Unknown, NoName
  <2>4. v = ByRegister(ThisDevice, hw)
    BY <1>0, <2>2, <2>3, Zenon
  <2> HIDE DEF hw
  <2>5. v = Verdict("Hard Power Reset", HardPower, <<<<"NULL">>>>)
    BY <2>2, <2>4, Zenon DEF ByRegister
  <2>6. v.reason = HardPower
    <3>1. ASSUME NEW src, NEW reason, NEW custom, v = Verdict(src, reason, custom)
          PROVE  v.reason = reason
      BY <3>1, VerdictParts
    <3> QED BY <2>5, <3>1
  <2> QED BY <1>3, <2>6, Zenon
<1> QED BY <1>2, <1>3, Zenon

\* Unless its name hides its type, the program sees the evidence of the device.
LEMMA EvidenceSeen ==
    ASSUME ~Misnamed
    PROVE  /\ FailureIn(ThisDevice, logs).detected <=> FirmwareEvidence
           /\ PanicIn(ThisDevice, logs) <=> PanicEvidence
<1> DEFINE fw == FailureIn(ThisDevice, logs)
<1>1. ThisDevice.soc = soc /\ ThisDevice.tv = tv
      /\ ThisDevice.mediaclient = TypeIsMediaclient
  BY DEF ThisDevice
<1>2. TypeIsMediaclient <=> mediaclient
  BY DEF Misnamed, TypeIsMediaclient
<1>3. fw.detected <=> LimitReached(ThisDevice, logs) \/ EcmCrashed(ThisDevice, logs)
  BY DEF FailureIn
<1>4. fw.detected <=> FirmwareEvidence
  BY <1>1, <1>2, <1>3 DEF LimitReached, EcmCrashed, FirmwareEvidence
<1>5. PanicIn(ThisDevice, logs) <=> PanicEvidence
  BY <1>1 DEF PanicIn, PanicEvidence
<1> QED BY <1>4, <1>5

\* Whatever the logs and the register hold, the derived record has a source and a
\* reason (classify_reboot_reason).
THEOREM RecordComplete == Spec => []NeverBlank
<1>1. ClassifyInv => NeverBlank
  <2> SUFFICES ASSUME ClassifyInv, pc \in {"log", "end"}
               PROVE  info.source # "" /\ info.reason # NoName
    BY DEF NeverBlank
  <2>1. DeviceTypes /\ info = Judged
    BY DEF ClassifyInv, StageInv
  <2> QED BY <2>1, JudgedSoundly, Zenon
<1> QED BY <1>1, StagesHold, PTL

\* A firmware failure goes before a kernel panic and a panic before the register,
\* and none of the two is made up (classify_reboot_reason).
THEOREM StrongestDecides == Spec => []StrongestEvidence
<1>1. ClassifyInv => StrongestEvidence
  <2> SUFFICES ASSUME ClassifyInv, pc = "end", ~Misnamed
               PROVE  /\ FirmwareEvidence => info.reason = FwFailure
                      /\ info.reason = FwFailure =>
                           FirmwareEvidence \/ (RegisterRead /\ register[1] = FwFailure)
                      /\ ~FirmwareEvidence /\ PanicEvidence => info.reason = Panic
                      /\ info.reason = Panic =>
                           PanicEvidence \/ (RegisterRead /\ Contains(register[1], Panic))
    BY Zenon DEF StrongestEvidence
  <2>1. DeviceTypes /\ info = Judged
    BY DEF ClassifyInv, StageInv
  <2> DEFINE fw    == FailureIn(ThisDevice, logs)
             panic == PanicIn(ThisDevice, logs)
  <2>2. (fw.detected <=> FirmwareEvidence) /\ (panic <=> PanicEvidence)
    BY EvidenceSeen, Zenon
  <2>3. /\ fw.detected => info.reason = FwFailure
        /\ ~fw.detected /\ panic => info.reason = Panic
        /\ info.reason = FwFailure =>
             fw.detected \/ (RegisterRead /\ register[1] = FwFailure)
        /\ info.reason = Panic =>
             panic \/ (RegisterRead /\ Contains(register[1], Panic))
    BY <2>1, JudgedSoundly, Zenon
  <2> HIDE DEF fw, panic
  <2> QED BY <2>2, <2>3, Zenon
<1> QED BY <1>1, StagesHold, PTL

\* Where the register decides, the program and the script it replaces come to the
\* same reason exactly for the texts that are not blank, not shadowed and not known
\* by part alone, whatever else a register may hold (map_hardware_reason against
\* setRebootReason).
THEOREM ScriptReplaced == Spec => []AgreesWithScript
<1>1. ClassifyInv => AgreesWithScript
  <2> SUFFICES ASSUME ClassifyInv, pc = "end", ~Misnamed, RegisterRead,
                      ~FirmwareEvidence, ~PanicEvidence
               PROVE  info.reason = setRebootReason(register[1]) <=>
                        /\ register[1] \notin Shadowed \cup {NoName}
                        /\ ~MappedByPart(register[1])
    BY Zenon DEF AgreesWithScript
  <2>1. DeviceTypes /\ info = Judged
    BY DEF ClassifyInv, StageInv
  <2>2. ~FailureIn(ThisDevice, logs).detected /\ ~PanicIn(ThisDevice, logs)
    BY EvidenceSeen, Zenon
  <2>3. /\ register[1] \in Seq(STRING)
        /\ register[1] # NoName => info.reason = MappedTo(register[1])
        /\ register[1] = NoName => info.reason = Software
    BY <2>1, <2>2, RegisterDecides, Zenon
  <2>4. CASE register[1] = NoName
    <3>1. Software # NoName
      BY DEF Software, NoName
    <3>2. info.reason # setRebootReason(register[1])
      BY <2>3, <2>4, <3>1, ScriptAlone, Zenon
    <3> QED BY <2>4, <3>2, Zenon
  <2>5. CASE register[1] # NoName
    BY <2>3, <2>5, ScriptAgrees, ScriptDiffers, Zenon
  <2> QED BY <2>4, <2>5
<1> QED BY <1>1, StagesHold, PTL

\* hardpower.info is stamped exactly when no log and no register gives another
\* reason than a loss of power, for every text that a register may hold (main,
\* write_hardpower).
THEOREM PowerLossStamped == Spec => []StampsPowerLoss
<1>1. ClassifyInv => StampsPowerLoss
  <2> SUFFICES ASSUME ClassifyInv, pc = "end", ~Misnamed,
                      RegisterRead => ~PowerByPart(register[1])
               PROVE  Stamped(info.reason) <=>
                        /\ ~FirmwareEvidence /\ ~PanicEvidence
                        /\ RegisterRead => setRebootReason(register[1]) \in PowerLosses
    BY Zenon DEF StampsPowerLoss
  <2>1. DeviceTypes /\ info = Judged
    BY DEF ClassifyInv, StageInv
  <2>2. /\ FailureIn(ThisDevice, logs).detected <=> FirmwareEvidence
        /\ PanicIn(ThisDevice, logs) <=> PanicEvidence
    BY EvidenceSeen, Zenon
  <2>3. ~Stamped(FwFailure) /\ ~Stamped(Panic) /\ ~Stamped(Software)
    <3> DEFINE S == {"FIRMWARE", "FAILURE", "KERNEL", "PANIC", "SOFTWARE", "MASTER",
                     "RESET"}
    <3>1. FwFailure \in Seq(S) /\ Panic \in Seq(S) /\ Software \in Seq(S)
          /\ "POWER" \notin S /\ "UNKNOWN" \notin S
      BY DEF FwFailure, Panic, Software
    <3> HIDE DEF S
    <3> QED BY <3>1, Unstamped, Zenon
  <2>4. CASE FirmwareEvidence \/ PanicEvidence
    <3>1. info.reason = FwFailure \/ info.reason = Panic
      BY <2>1, <2>2, <2>4, JudgedSoundly, Zenon
    <3> QED BY <2>3, <2>4, <3>1, Zenon
  <2>5. CASE ~FirmwareEvidence /\ ~PanicEvidence
    <3>1. /\ RegisterRead => register[1] \in Seq(STRING)
          /\ RegisterRead /\ register[1] # NoName => info.reason = MappedTo(register[1])
          /\ RegisterRead /\ register[1] = NoName => info.reason = Software
          /\ ~RegisterRead => info.reason = HardPower
      BY <2>1, <2>2, <2>5, RegisterDecides, Zenon
    <3>2. CASE ~RegisterRead
      <4>1. Stamped(HardPower)
        BY LossesStamped, Zenon DEF PowerLosses
      <4> QED BY <2>5, <3>1, <3>2, <4>1, Zenon
    <3>3. CASE RegisterRead /\ register[1] # NoName
      BY <2>5, <3>1, <3>3, PowerAgrees, Zenon
    <3>4. CASE RegisterRead /\ register[1] = NoName
      <4>1. NoName # <<"HARDWARE">> /\ NoName # HardPower /\ NoName # PowerOn
            /\ NoName # <<"UNKNOWN", "RESET">>
        BY DEF NoName, HardPower, PowerOn
      <4>2. setRebootReason(NoName) \notin PowerLosses
        <5>1. PICK none : none = NoName
          OBVIOUS
        <5>2. none # <<"HARDWARE">> /\ none \notin PowerLosses
          BY <4>1, <5>1, Zenon DEF PowerLosses
        <5> QED BY <5>1, <5>2, ScriptPower, Zenon
      <4> QED BY <2>3, <2>5, <3>1, <3>4, <4>2, Zenon
    <3> QED BY <3>2, <3>3, <3>4
  <2> QED BY <2>4, <2>5
<1> QED BY <1>1, StagesHold, PTL

\* The type invariant, with what it says of the structs of main: a failure that is
\* detected has an initiator and details (check_firmware_failure).
THEOREM TypeCorrect == Spec => []TypeOK
<1>1. Init => FlagTypes
  BY DEF Init, FlagTypes
<1>2. FlagTypes /\ ClassifyInv /\ [Next]_vars => FlagTypes'
  <2> SUFFICES ASSUME FlagTypes, ClassifyInv, [Next]_vars PROVE FlagTypes'
    OBVIOUS
  <2>1. UNCHANGED <<tv, mediaclient>>
    BY DEF Next, vars, parse_device_properties, detect_kernel_panic,
       check_firmware_failure, get_hardware_reason, classify_reboot_reason,
       update_kernel_log, Rederive, Terminated
  <2>2. panicInfo' \in BOOLEAN
    <3>1. CASE detect_kernel_panic
      <4>1. panicInfo' = PanicIn(ctx, logs) /\ ctx = ThisDevice
        BY <3>1 DEF detect_kernel_panic, Goto, ClassifyInv, StageInv
      <4>2. ThisDevice.tv = tv /\ tv \in BOOLEAN
        BY DEF ThisDevice, FlagTypes
      <4> QED BY <4>1, <4>2 DEF PanicIn
    <3>2. CASE panicInfo' \in {FALSE, panicInfo}
      BY <3>2 DEF FlagTypes
    <3> QED
      BY <3>1, <3>2 DEF Next, vars, parse_device_properties, check_firmware_failure,
         get_hardware_reason, classify_reboot_reason, update_kernel_log, Rederive,
         Terminated
  <2> QED BY <2>1, <2>2 DEF FlagTypes
<1>3. ClassifyInv => DeviceTypes /\ StructTypes
  <2> SUFFICES ASSUME ClassifyInv PROVE DeviceTypes /\ StructTypes
    OBVIOUS
  <2>0. DeviceTypes /\ StageInv /\ ClearInv
    BY DEF ClassifyInv
  <2>1. ctx = NoContext \/ ctx.soc = soc
    BY <2>0 DEF StageInv, ClearInv, ThisDevice
  <2>2. fwFailure.detected <=> fwFailure.initiator # "" /\ fwFailure.details # ""
    <3>1. fwFailure = NoFailure \/ fwFailure = FailureIn(ThisDevice, logs)
      BY <2>0 DEF DeviceTypes, StageInv, ClearInv
    <3>2. CASE fwFailure = NoFailure
      BY <3>2 DEF NoFailure
    <3>3. CASE fwFailure = FailureIn(ThisDevice, logs)
      BY <3>3 DEF FailureIn, Initiator
    <3> QED BY <3>1, <3>2, <3>3
  <2>3. \/ hwReason \in {NoReason, [raw |-> <<NoName>>, mapped |-> Unknown]}
        \/ hwReason = [raw |-> register, mapped |-> register[1]]
    <3>1. hwReason = NoReason \/ hwReason = RegisterReason(ThisDevice, register)
      BY <2>0 DEF DeviceTypes, StageInv, ClearInv
    <3> QED BY <3>1, Zenon DEF RegisterReason
  <2>4. info = NoInfo \/ info.source # ""
    <3>1. info = NoInfo \/ info = Judged
      BY <2>0 DEF StageInv, ClearInv
    <3> QED BY <2>0, <3>1, JudgedSoundly, Zenon
  <2> QED BY <2>0, <2>1, <2>2, <2>3, <2>4 DEF StructTypes
<1>4. TypeOK <=> DeviceTypes /\ FlagTypes /\ StructTypes
  BY DEF TypeOK
<1> QED BY <1>1, <1>2, <1>3, <1>4, StagesHold, PTL DEF Spec
=============================================================================
