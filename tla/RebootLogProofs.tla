-------------------------- MODULE RebootLogProofs --------------------------
(***************************************************************************)
(* Proofs about RebootLog, for any number of requests, boots and mishaps.  *)
(***************************************************************************)
EXTENDS RebootLog, FiniteSetTheorems, SequenceTheorems, WellFoundedInduction, TLAPS

\* Every line of a text is a raw one about one of these requests.
By(text, R) == \A i \in 1 .. Len(text) : ~text[i].prev /\ text[i].of \in R

HasField(text, f) == \E i \in 1 .. Len(text) : text[i].field = f

\* It is what one request writes: it has all five lines.
Whole(text, r) == By(text, {r}) /\ \A f \in Fields : HasField(text, f)

Unseen  == Requests \ seen
HasLog  == "log" \in DOMAIN files
Quiet   == "raced" \notin windows
Before  == fpc \in {"start", "load", "reason"}

\* The log that the fetcher will read, wherever it is now, and the request that
\* the record is about.
Kept    == IF HasLog THEN files["log"] ELSE IF Found = "none" THEN <<>> ELSE files[Found]
Awaited == IF fpc = "start" THEN info ELSE record

\* Where logs can be: backup_logs keeps directories, or numbered files that begin
\* with the flat one.
SlotInv ==
    /\ hdd => DOMAIN files \subseteq {"log", "marked"}
    /\ ~hdd => DOMAIN files \subseteq {"log", "flat", "bak1", "bak2", "bak3"} /\ ~marker
    /\ hdd /\ backed => marker
    /\ DOMAIN files \cap {"bak1", "bak2", "bak3"} # {} => "flat" \in DOMAIN files
    /\ fpc = "write" /\ ~backed => out = "log"
    /\ Quiet /\ backed /\ fpc \in {"start", "load", "reason", "open"} => ~HasLog

\* Requests are numbered as they come: none is spoken of before it is made.
Sofar == 0 .. made
AllOf(text, V) == \A i \in 1 .. Len(text) : text[i].of \in V

MadeInv ==
    /\ Live \subseteq Sofar /\ seen \subseteq Sofar
    /\ info \in Sofar /\ record \in Sofar /\ \A f \in Fields : got[f] \in Sofar
    /\ \A n \in DOMAIN files : AllOf(files[n], Sofar)

\* Requests come one at a time unless the script joins in, and
\* none before the boot is through unless it races.
LiveInv ==
    /\ "concurrent" \notin windows => \A r, q \in Live : r = q
    /\ Quiet /\ ~Booted => Live = {}
    /\ windows \cap {"halfway", "unfetched"} = {}

\* What is recorded.
InfoInv ==
    /\ Quiet /\ fpc # "start" /\ ~Booted => info = 0
    /\ Quiet /\ Booted /\ windows \cap {"concurrent", "pending", "infoLost"} = {} =>
         info = 0 \/ \E r \in Live : step[r] = Deciding
    /\ Quiet /\ Booted /\ windows \cap {"concurrent", "infoLost"} = {} =>
         \A r \in Live : step[r] = Deciding => info = r

\* What has been told: nothing that waits or is about to be written.
SeenInv ==
    /\ Quiet => Live \cap seen = {}
    /\ Quiet /\ (fpc = "start" => "raced" \notin carried) => info \notin seen
    /\ Quiet /\ "raced" \notin carried /\ fpc \in {"load", "reason", "open", "write"} =>
         record \notin seen

\* The log, while a request works on it.
Calm == windows \cap {"raced", "concurrent", "badLog"} = {}

WorkedOn ==
    \A r \in Live : step[r] # Truncating =>
        /\ HasLog /\ By(files["log"], {r})
        /\ \A k \in 1 .. Len(Order) : k < step[r] => HasField(files["log"], Order[k])

Idle == \A r \in Live : step[r] \in {Truncating, Deciding}

LogInv ==
    Booted /\ Calm =>
        /\ WorkedOn
        /\ info # 0 => HasLog /\ By(files["log"], Unseen)
        /\ info # 0 /\ "infoLost" \notin windows /\ Idle => Whole(files["log"], info)

\* The log that belongs to the record, until the fetcher has read it.
NewLog   == carried \cap {"raced", "concurrent", "badLog", "fast"} = {}
WholeLog == carried \cap {"raced", "concurrent", "badLog", "halfway", "infoLost",
                          "unfetched"} = {}

KeptInv ==
    Before /\ Awaited # 0 /\ windows \cap {"raced", "fast"} = {} =>
        /\ NewLog => By(Kept, Unseen)
        /\ WholeLog => Whole(Kept, Awaited) /\ (~backed => HasLog)

\* What the boot is about.
OneCause == carried \cap {"raced", "concurrent", "pending", "infoLost", "unfetched"} = {}

CauseInv ==
    Quiet /\ OneCause =>
        /\ Before => Awaited = cause
        /\ "halfway" \in carried => cause = 0

\* What the fetcher has found.
InOrder == windows \cap {"early", "fast"} = {}

GotInv ==
    /\ fpc \in {"start", "load"} => got = Blank /\ ~unread
    /\ fpc \in {"load", "reason"} => record # 0
    /\ Quiet /\ fpc \notin {"start", "load"} =>
         /\ OneCause
              /\ (unread => carried \cap {"badLog", "fast"} = {} /\ InOrder) =>
                \A f \in Record : got[f] = cause
         /\ WholeLog /\ InOrder =>
              IF fpc = "reason" THEN \A f \in Record : got[f] = record
              ELSE \A f, g \in Fields : got[f] = got[g]
         /\ "raced" \notin carried /\ (unread => NewLog /\ InOrder) =>
              /\ fpc \in {"reason", "open", "write"} => got["RebootInitiatedBy"] \notin seen
              /\ fpc = "done" => ~again

(***************************************************************************)
(* The operators.                                                          *)
(***************************************************************************)
LEMMA FieldFacts ==
    /\ Len(Order) = 5
    /\ Fields = {"RebootReason", "RebootInitiatedBy", "RebootTime", "CustomReason",
                 "OtherReason"}
    /\ Record = {"RebootInitiatedBy", "RebootTime", "CustomReason", "OtherReason"}
    /\ \A j \in 1..5 : Order[j] \in Fields
    /\ \A f \in Fields : \E j \in 1..5 : Order[j] = f
<1>1. Len(Order) = 5
  BY DEF Order
<1>2. /\ Order[1] = "RebootReason" /\ Order[2] = "RebootInitiatedBy"
      /\ Order[3] = "RebootTime" /\ Order[4] = "CustomReason" /\ Order[5] = "OtherReason"
  BY DEF Order
<1>3. \A j \in 1..5 : j = 1 \/ j = 2 \/ j = 3 \/ j = 4 \/ j = 5
  OBVIOUS
<1>4. 1 \in 1..5 /\ 2 \in 1..5 /\ 3 \in 1..5 /\ 4 \in 1..5 /\ 5 \in 1..5
  OBVIOUS
<1>5. Fields = {Order[j] : j \in 1..5}
  BY <1>1 DEF Fields
<1>6. Fields = {"RebootReason", "RebootInitiatedBy", "RebootTime", "CustomReason",
                "OtherReason"}
  BY <1>2, <1>3, <1>4, <1>5
<1>7. Record = {"RebootInitiatedBy", "RebootTime", "CustomReason", "OtherReason"}
  BY <1>6 DEF Record
<1> QED BY <1>1, <1>5, <1>6, <1>7

LEMMA StepFacts ==
    Truncating = 0 /\ Recording = 6 /\ Deciding = 7 /\ Over = 8
BY FieldFacts DEF Truncating, Recording, Deciding, Over

\* The smallest and the largest of the places in a text are among them.
LEMMA SmallestPlace ==
    ASSUME NEW S \in SUBSET Nat, S # {}
    PROVE  Min(S) \in S /\ \A y \in S : Min(S) <= y
<1>1. PICK x \in S : \A y \in S : ~(<<y, x>> \in OpToRel(<, Nat))
  BY NatLessThanWellFounded, WFMin, Zenon
<1>2. \A y \in S : <<y, x>> \notin OpToRel(<, Nat) => ~(y < x)
  BY DEF OpToRel
<1>3. ASSUME NEW y \in S PROVE x <= y
  <2>1. ~(y < x)
    BY <1>1, <1>2, Zenon
  <2>2. x \in Nat /\ y \in Nat
    OBVIOUS
  <2> QED BY <2>1, <2>2
<1> QED BY <1>3 DEF Min

LEMMA LargestPlace ==
    ASSUME NEW n \in Nat, NEW S \in SUBSET (1..n), S # {}
    PROVE  Max(S) \in S
<1> DEFINE T == {n - x : x \in S}
<1>1. T \in SUBSET Nat /\ T # {}
  <2>1. \A x \in S : x \in 1..n
    OBVIOUS
  <2>2. \A x \in 1..n : n - x \in Nat
    OBVIOUS
  <2>3. \A t \in T : t \in Nat
    BY <2>1, <2>2
  <2>4. PICK x : x \in S
    OBVIOUS
  <2>5. n - x \in T
    BY <2>4
  <2> QED BY <2>3, <2>5
<1>2. PICK x \in S : Min(T) = n - x
  <2>1. Min(T) \in T
    <3> HIDE DEF T
    <3> QED BY <1>1, SmallestPlace
  <2> QED BY <2>1
<1>3. ASSUME NEW y \in S PROVE x >= y
  <2>1. n - y \in T
    OBVIOUS
  <2>2. Min(T) <= n - y
    <3> HIDE DEF T
    <3> QED BY <1>1, <2>1, SmallestPlace
  <2> QED BY <1>2, <2>2
<1> QED BY <1>3 DEF Max

\* The value of a line is that of some line.
LEMMA LastValueIn ==
    ASSUME NEW text \in Seq(Line), NEW S \in SUBSET (1 .. Len(text)),
           NEW R, \A i \in S : text[i].of \in R
    PROVE  /\ S # {} => LastValue(text, S) \in R
           /\ S = {} => LastValue(text, S) = 0
<1>1. CASE S = {}
  BY <1>1 DEF LastValue
<1>2. CASE S # {}
  <2>1. Max(S) \in S
    <3>1. Len(text) \in Nat
      OBVIOUS
    <3> QED BY <1>2, <3>1, LargestPlace
  <2>2. text[Max(S)].of \in R
    BY <2>1
  <2> QED BY <1>2, <2>2 DEF LastValue
<1> QED BY <1>1, <1>2

\* What parse_legacy_log makes of a text without Previous* lines: raw lines only.
RawPlaces(text, f) == {i \in 1 .. Len(text) : text[i].field = f}

LEMMA ParseRaw ==
    ASSUME NEW text \in Seq(Line), NEW R, By(text, R),
           NEW parsed, parsed = ParseLegacyLog(text)
    PROVE  LET reasons == {i \in RawPlaces(text, "RebootReason") :
                             text[i].of \notin HalRequests}
               plain   == [f \in Fields |-> IF f \in Record
                                              THEN LastValue(text, RawPlaces(text, f)) ELSE 0]
           IN  parsed = IF plain["RebootInitiatedBy"] \in HalRequests
                          THEN ResolveHal(plain, text, reasons) ELSE plain
<1> DEFINE found   == {i \in 1 .. Len(text) : text[i].prev /\ text[i].field \in Record}
           scanned == {i \in 1 .. Len(text) : Cardinality({j \in found : j < i}) < 4}
           prevs   == [f \in Fields |-> {i \in scanned : Has(text[i], TRUE, f)}]
           raws    == [f \in Fields |-> {i \in scanned : ~text[i].prev /\ text[i].field = f}]
           reasons == {i \in scanned : /\ Has(text[i], FALSE, "RebootReason")
                                       /\ text[i].of \notin HalRequests}
           plain   == [f \in Fields |-> IF f \in Record THEN LastValue(text, raws[f]) ELSE 0]
           raws2   == [f \in Fields |-> RawPlaces(text, f)]
           reasons2 == {i \in RawPlaces(text, "RebootReason") : text[i].of \notin HalRequests}
           plain2  == [f \in Fields |-> IF f \in Record
                                          THEN LastValue(text, RawPlaces(text, f)) ELSE 0]
<1>1. \A i \in 1 .. Len(text) : ~text[i].prev
  BY DEF By
<1>2. found = {}
  BY <1>1
<1>3. scanned = 1 .. Len(text)
  <2>1. \A i : {j \in found : j < i} = {}
    BY <1>2
  <2>2. Cardinality({}) < 4
    BY FS_EmptySet
  <2> HIDE DEF found
  <2>3. \A i : Cardinality({j \in found : j < i}) < 4
    BY <2>1, <2>2, Zenon
  <2> QED BY <2>3, Zenon
<1>4. \A f \in Fields : raws[f] = RawPlaces(text, f)
  <2> HIDE DEF scanned
  <2> QED BY <1>1, <1>3 DEF RawPlaces
<1>5. reasons = reasons2
  <2> HIDE DEF scanned
  <2> QED BY <1>1, <1>3 DEF RawPlaces, Has
<1>6. plain = plain2
  <2> HIDE DEF raws
  <2> QED BY <1>4
<1>7. found \cap scanned = {}
  <2> HIDE DEF found, scanned
  <2> QED BY <1>2
<1>8. parsed = IF found \cap scanned # {}
                 THEN [f \in Fields |-> IF f \in Record THEN LastValue(text, prevs[f]) ELSE 0]
               ELSE IF plain["RebootInitiatedBy"] \in HalRequests
                 THEN ResolveHal(plain, text, reasons)
               ELSE plain
  BY Zenon DEF ParseLegacyLog
<1> HIDE DEF found, scanned, prevs, raws, reasons, plain, reasons2, plain2
<1>9. parsed = IF plain2["RebootInitiatedBy"] \in HalRequests
                 THEN ResolveHal(plain2, text, reasons2) ELSE plain2
  BY <1>5, <1>6, <1>7, <1>8, Zenon
<1> QED BY <1>9 DEF plain2, reasons2

\* The fields of such a text come from its requests.
LEMMA ParseBy ==
    ASSUME NEW text \in Seq(Line), NEW R, By(text, R),
           NEW parsed, parsed = ParseLegacyLog(text)
    PROVE  /\ \A f \in Fields : parsed[f] \in R \cup {0}
           /\ DOMAIN parsed = Fields
<1> DEFINE reasons == {i \in RawPlaces(text, "RebootReason") : text[i].of \notin HalRequests}
           plain   == [f \in Fields |-> IF f \in Record
                                          THEN LastValue(text, RawPlaces(text, f)) ELSE 0]
<1>1. \A i \in 1 .. Len(text) : text[i].of \in R
  BY DEF By
<1>2. ASSUME NEW f \in Fields
      PROVE  LastValue(text, RawPlaces(text, f)) \in R \cup {0}
  <2>1. RawPlaces(text, f) \in SUBSET (1 .. Len(text))
    BY DEF RawPlaces
  <2>2. \A i \in RawPlaces(text, f) : text[i].of \in R
    BY <1>1 DEF RawPlaces
  <2> QED BY <2>1, <2>2, LastValueIn
<1>3. reasons # {} => LastValue(text, reasons) \in R
  <2>1. reasons \in SUBSET (1 .. Len(text))
    BY DEF RawPlaces
  <2>2. \A i \in reasons : text[i].of \in R
    BY <1>1 DEF RawPlaces
  <2> HIDE DEF reasons
  <2> QED BY <2>1, <2>2, LastValueIn
<1>4. DOMAIN plain = Fields /\ \A f \in Fields : plain[f] \in R \cup {0}
  BY <1>2
<1>5. parsed = IF plain["RebootInitiatedBy"] \in HalRequests
                 THEN ResolveHal(plain, text, reasons) ELSE plain
  BY ParseRaw
<1> HIDE DEF reasons, plain
<1>6. /\ DOMAIN ResolveHal(plain, text, reasons) = Fields
      /\ \A f \in Fields : ResolveHal(plain, text, reasons)[f] \in R \cup {0}
  BY <1>3, <1>4 DEF ResolveHal
<1> QED BY <1>4, <1>5, <1>6

\* A text that one request has written is read back as that request.
LEMMA ParseWhole ==
    ASSUME NEW text \in Seq(Line), NEW r \in Requests, Whole(text, r),
           NEW parsed, parsed = ParseLegacyLog(text)
    PROVE  \A f \in Record : parsed[f] = r
<1> DEFINE reasons == {i \in RawPlaces(text, "RebootReason") : text[i].of \notin HalRequests}
           plain   == [f \in Fields |-> IF f \in Record
                                          THEN LastValue(text, RawPlaces(text, f)) ELSE 0]
<1>1. By(text, {r}) /\ \A f \in Fields : HasField(text, f)
  BY DEF Whole
<1>2. \A i \in 1 .. Len(text) : text[i].of = r
  BY <1>1 DEF By
<1>3. ASSUME NEW f \in Fields
      PROVE  LastValue(text, RawPlaces(text, f)) = r
  <2>1. RawPlaces(text, f) \in SUBSET (1 .. Len(text)) /\ RawPlaces(text, f) # {}
    BY <1>1 DEF RawPlaces, HasField
  <2>2. \A i \in RawPlaces(text, f) : text[i].of \in {r}
    BY <1>2 DEF RawPlaces
  <2>3. LastValue(text, RawPlaces(text, f)) \in {r}
    BY <2>1, <2>2, LastValueIn
  <2> QED BY <2>3
<1>4. \A f \in Record : f \in Fields
  BY DEF Record
<1>5. DOMAIN plain = Fields /\ \A f \in Record : plain[f] = r
  BY <1>3, <1>4
<1>6. parsed = IF plain["RebootInitiatedBy"] \in HalRequests
                 THEN ResolveHal(plain, text, reasons) ELSE plain
  BY <1>1, ParseRaw
<1>7. "RebootInitiatedBy" \in Record
  BY FieldFacts
<1>8. r \in HalRequests => reasons = {}
  BY <1>2 DEF RawPlaces
<1> HIDE DEF reasons, plain
<1>9. parsed = plain
  <2>1. plain["RebootInitiatedBy"] = r
    BY <1>5, <1>7
  <2> QED BY <1>6, <1>8, <2>1 DEF ResolveHal
<1> QED BY <1>5, <1>9

\* So is its reason line.
LEMMA ReasonWhole ==
    ASSUME NEW text \in Seq(Line), NEW r, Whole(text, r)
    PROVE  ReasonLine(text) = r
<1> DEFINE lines == {i \in 1 .. Len(text) : /\ Has(text[i], FALSE, "RebootReason")
                                            /\ ~Has(text[i], TRUE, "RebootReason")}
<1>1. \A i \in 1 .. Len(text) : ~text[i].prev /\ text[i].of = r
  BY DEF Whole, By
<1>2. HasField(text, "RebootReason")
  BY FieldFacts DEF Whole
<1>3. lines # {} /\ lines \in SUBSET Nat /\ lines \subseteq 1 .. Len(text)
  BY <1>1, <1>2 DEF HasField, Has
<1>4. Min(lines) \in lines
  <2> HIDE DEF lines
  <2> QED BY <1>3, SmallestPlace
<1>5. ReasonLine(text) = text[Min(lines)].of
  BY <1>3, Zenon DEF ReasonLine
<1> HIDE DEF lines
<1> QED BY <1>1, <1>3, <1>4, <1>5

LEMMA LineValue ==
    ASSUME NEW text \in Seq(Line)
    PROVE  AllOf(text, Values)
<1> SUFFICES \A i \in 1 .. Len(text) : text[i].of \in Values
  BY DEF AllOf
<1>1. TAKE i \in 1 .. Len(text)
<1>2. text[i] \in Line
  OBVIOUS
<1>3. \A l \in Line : l.of \in Values
  BY DEF Line
<1> QED BY <1>2, <1>3

\* What a text gives is among its values, or empty.
LEMMA ParseTyped ==
    ASSUME NEW text \in Seq(Line), NEW V, 0 \in V, AllOf(text, V)
    PROVE  ParseLegacyLog(text) \in [Fields -> V]
<1> DEFINE found   == {i \in 1 .. Len(text) : text[i].prev /\ text[i].field \in Record}
           scanned == {i \in 1 .. Len(text) : Cardinality({j \in found : j < i}) < 4}
           prevs   == [f \in Fields |-> {i \in scanned : Has(text[i], TRUE, f)}]
           raws    == [f \in Fields |-> {i \in scanned : ~text[i].prev /\ text[i].field = f}]
           reasons == {i \in scanned : /\ Has(text[i], FALSE, "RebootReason")
                                       /\ text[i].of \notin HalRequests}
           plain   == [f \in Fields |-> IF f \in Record THEN LastValue(text, raws[f]) ELSE 0]
           told    == [f \in Fields |-> IF f \in Record THEN LastValue(text, prevs[f]) ELSE 0]
<1>1. \A i \in 1 .. Len(text) : text[i].of \in V
  BY DEF AllOf
<1>2. 0 \in V
  OBVIOUS
<1>3. ASSUME NEW S \in SUBSET (1 .. Len(text)) PROVE LastValue(text, S) \in V
  <2>1. \A i \in S : text[i].of \in V
    BY <1>1
  <2> QED BY <1>2, <2>1, LastValueIn
<1>4. \A f \in Fields : raws[f] \in SUBSET (1 .. Len(text))
                        /\ prevs[f] \in SUBSET (1 .. Len(text))
  OBVIOUS
<1>5. reasons \in SUBSET (1 .. Len(text))
  OBVIOUS
<1>6. ParseLegacyLog(text) = IF found \cap scanned # {} THEN told
                             ELSE IF plain["RebootInitiatedBy"] \in HalRequests
                               THEN ResolveHal(plain, text, reasons)
                             ELSE plain
  BY Zenon DEF ParseLegacyLog
<1> HIDE DEF found, scanned, prevs, raws, reasons
<1>7. plain \in [Fields -> V] /\ told \in [Fields -> V]
  BY <1>2, <1>3, <1>4
<1> HIDE DEF plain, told
<1>8. ResolveHal(plain, text, reasons) \in [Fields -> V]
  BY <1>3, <1>5, <1>7 DEF ResolveHal
<1> QED BY <1>6, <1>7, <1>8

LEMMA ReasonTyped ==
    ASSUME NEW text \in Seq(Line), NEW V, 0 \in V, AllOf(text, V)
    PROVE  ReasonLine(text) \in V
<1> DEFINE lines == {i \in 1 .. Len(text) : /\ Has(text[i], FALSE, "RebootReason")
                                            /\ ~Has(text[i], TRUE, "RebootReason")}
<1>1. 0 \in V
  OBVIOUS
<1>2. lines # {} => Min(lines) \in lines
  <2>1. \A i \in lines : i \in 1 .. Len(text)
    OBVIOUS
  <2>2. \A i \in 1 .. Len(text) : i \in Nat
    OBVIOUS
  <2> HIDE DEF lines
  <2>3. lines \in SUBSET Nat
    BY <2>1, <2>2
  <2> QED BY <2>3, SmallestPlace
<1>3. lines # {} => text[Min(lines)].of \in V
  <2>1. \A i \in lines : i \in 1 .. Len(text)
    OBVIOUS
  <2>2. \A i \in 1 .. Len(text) : text[i].of \in V
    BY DEF AllOf
  <2> HIDE DEF lines
  <2> QED BY <1>2, <2>1, <2>2
<1>4. ReasonLine(text) = IF lines = {} THEN 0 ELSE text[Min(lines)].of
  BY Zenon DEF ReasonLine
<1> HIDE DEF lines
<1> QED BY <1>1, <1>3, <1>4

(***************************************************************************)
(* The steps.                                                              *)
(***************************************************************************)
\* The types, apart from each other.
Counters == boots \in 1 .. MaxBoots /\ mishaps \in 0 .. MaxMishaps
WindowSets == windows \subseteq Windows /\ carried \subseteq Windows
Causes == cause \in Values /\ seen \subseteq Requests
Fetched == record \in Values /\ got \in [Fields -> Values]
Stage == fpc \in {"start", "load", "reason", "open", "write", "done", "failed"}
StreamInv == fpc = "write" => out \in DOMAIN files

\* The inductive invariant.
IndInv ==
    /\ FlagTypes /\ FileTypes /\ RequestTypes /\ Counters /\ WindowSets /\ Causes
    /\ Fetched /\ Stage /\ StreamInv
    /\ MadeInv /\ SlotInv /\ LiveInv /\ InfoInv /\ SeenInv
    /\ LogInv /\ KeptInv /\ CauseInv /\ GotInv

LEMMA TypesFollow ==
    IndInv => FlagTypes /\ FileTypes /\ FetchTypes /\ RequestTypes /\ HistoryTypes
BY DEF IndInv, FetchTypes, HistoryTypes, Counters, WindowSets, Causes, Fetched, Stage,
       StreamInv

LEMMA ValueFacts ==
    /\ 0 \in Values
    /\ \A r \in Requests : r \in Values /\ r \in Nat /\ r # 0 /\ r <= MaxRequests
    /\ \A v \in Values : v \in Nat /\ v <= MaxRequests /\ (v # 0 => v \in Requests)
    /\ \A v \in Nat : v <= MaxRequests => v \in Values
BY BoundsAssumption DEF Requests, Values

LEMMA MeetsFacts ==
    ASSUME NEW cond, NEW w, Meets(cond, w)
    PROVE  /\ windows' \in {windows, windows \cup {w}}
           /\ cond => w \in windows'
           /\ ~cond => windows' = windows
BY DEF Meets, Note

LEMMA MishapFacts ==
    ASSUME Counters, Mishap
    PROVE  mishaps' \in 0 .. MaxMishaps
BY BoundsAssumption DEF Counters, Mishap

LEMMA MeetsMishaps ==
    ASSUME Counters, NEW cond, NEW w, Meets(cond, w)
    PROVE  mishaps' \in 0 .. MaxMishaps
<1>1. Mishap => mishaps' \in 0 .. MaxMishaps
  BY MishapFacts
<1>2. Mishap \/ mishaps' = mishaps
  BY DEF Meets
<1> QED BY <1>1, <1>2 DEF Counters

LEMMA PutFacts ==
    ASSUME NEW name, NEW text, files' = Put(name, text)
    PROVE  /\ DOMAIN files' = DOMAIN files \cup {name}
           /\ files'[name] = text
           /\ \A f \in DOMAIN files : f # name => files'[f] = files[f]
BY DEF Put

LEMMA PutTyped ==
    ASSUME FileTypes, info' \in Values, NEW name \in Slots \cup {"log"},
           NEW text \in Seq(Line), files' = Put(name, text)
    PROVE  FileTypes'
<1>1. /\ DOMAIN files' = DOMAIN files \cup {name}
      /\ files'[name] = text
      /\ \A f \in DOMAIN files : f # name => files'[f] = files[f]
  BY PutFacts
<1>2. ASSUME NEW f \in DOMAIN files' PROVE files'[f] \in Seq(Line)
  <2>1. CASE f = name
    BY <1>1, <2>1
  <2>2. CASE f # name
    BY <1>1, <2>2 DEF FileTypes
  <2> QED BY <2>1, <2>2
<1>3. DOMAIN files' \subseteq Slots \cup {"log"}
  BY <1>1 DEF FileTypes
<1> QED BY <1>2, <1>3 DEF FileTypes

\* What backup_logs does to the logs.
LEMMA MoveFacts ==
    ASSUME NEW slot, MoveTo(slot)
    PROVE  /\ DOMAIN files' = (DOMAIN files \ {"log"}) \cup {slot}
           /\ files'[slot] = files["log"]
           /\ \A f \in DOMAIN files \ {"log"} : f # slot => files'[f] = files[f]
BY DEF MoveTo

\* The slot that backup_logs takes: one that find_previous_reboot_log will find,
\* or the boot is marked as a fast one.
LEMMA FreeSlotFacts ==
    /\ FreeSlot \in {"flat", "bak1", "bak2", "bak3"}
    /\ FreeSlot = "flat" <=> "flat" \notin DOMAIN files
<1> DEFINE free == {i \in 1 .. Len(Baks) : Baks[i] \notin DOMAIN files}
<1>1. Len(Baks) = 3 /\ Baks[1] = "bak1" /\ Baks[2] = "bak2" /\ Baks[3] = "bak3"
  BY DEF Baks
<1>2. \A i \in free : i \in 1..3
  BY <1>1
<1>3. \A i \in 1..3 : i \in Nat /\ (i = 1 \/ i = 2 \/ i = 3)
  OBVIOUS
<1>4. FreeSlot = IF "flat" \notin DOMAIN files THEN "flat"
                 ELSE IF free = {} THEN "bak3" ELSE Baks[Min(free)]
  BY Zenon DEF FreeSlot
<1> HIDE DEF free
<1>5. free \in SUBSET Nat
  BY <1>2, <1>3
<1>6. free # {} => Min(free) \in free
  BY <1>5, SmallestPlace
<1>7. free # {} => Baks[Min(free)] \in {"bak1", "bak2", "bak3"}
  BY <1>1, <1>2, <1>3, <1>6
<1> QED BY <1>4, <1>7

LEMMA BackupCases ==
    ASSUME BackupLogs
    PROVE  \/ /\ ~HasLog /\ UNCHANGED <<out, windows>>
              /\ DOMAIN files' = DOMAIN files \ {"marked"}
              /\ \A f \in DOMAIN files' : files'[f] = files[f]
           \/ HasLog /\ hdd /\ MoveTo("marked") /\ UNCHANGED windows
           \/ /\ HasLog /\ ~hdd /\ MoveTo(FreeSlot)
              /\ windows' \in {windows, windows \cup {"fast"}}
              /\ FreeSlot \in {"bak2", "bak3"} => "fast" \in windows'
<1>1. CASE ~HasLog
  BY <1>1 DEF BackupLogs, HasLog
<1>2. CASE HasLog /\ hdd
  BY <1>2 DEF BackupLogs, HasLog
<1>3. CASE HasLog /\ ~hdd
  BY <1>3 DEF BackupLogs, HasLog
<1> QED BY <1>1, <1>2, <1>3

\* find_previous_reboot_log returns a log that exists.
LEMMA FoundExists == Found # "none" => Found \in DOMAIN files
<1> DEFINE baks == {i \in 1 .. Len(Baks) : Baks[i] \in DOMAIN files}
<1>1. baks # {} => Min(baks) \in baks
  <2>1. \A i \in baks : i \in 1..3
    BY DEF Baks
  <2>2. \A i \in 1..3 : i \in Nat
    OBVIOUS
  <2> HIDE DEF baks
  <2>3. baks \in SUBSET Nat
    BY <2>1, <2>2
  <2> QED BY <2>3, SmallestPlace
<1>2. \A i \in baks : Baks[i] \in DOMAIN files
  OBVIOUS
<1>3. Found = IF marker /\ "marked" \in DOMAIN files THEN "marked"
              ELSE IF "flat" \notin DOMAIN files THEN "none"
              ELSE IF baks = {} THEN "flat" ELSE Baks[Min(baks)]
  BY Zenon DEF Found, FindPreviousLog
<1> HIDE DEF baks
<1> QED BY <1>1, <1>2, <1>3

LEMMA FlagStep ==
    ASSUME IndInv, [Next]_vars
    PROVE  FlagTypes'
<1> USE DEF IndInv
<1>1. CASE Request
  BY <1>1
     DEF Request, Meets, Mishap, Note, fetcher, past, FlagTypes
<1>2. ASSUME NEW r \in Requests, Truncate(r) PROVE FlagTypes'
  BY <1>2
     DEF Truncate, Mishap, Note, fetcher, past, FlagTypes
<1>3. ASSUME NEW r \in Requests, AppendLine(r) PROVE FlagTypes'
  BY <1>3
     DEF AppendLine, Mishap, Note, fetcher, past, FlagTypes
<1>4. ASSUME NEW r \in Requests, WriteInfo(r) PROVE FlagTypes'
  BY <1>4
     DEF WriteInfo, Mishap, Note, fetcher, past, FlagTypes
<1>5. ASSUME NEW r \in Requests, NoReboot(r) PROVE FlagTypes'
  BY <1>5
     DEF NoReboot, Note, fetcher, past, FlagTypes
<1>6. ASSUME NEW r \in Requests, FallBack(r) PROVE FlagTypes'
  BY <1>6
     DEF FallBack, Mishap, fetcher, past, FlagTypes
<1>7. ASSUME NEW r \in Requests, Reboot(r) PROVE FlagTypes'
  BY <1>7
     DEF Reboot, Boot, FlagTypes
<1>8. CASE PowerCut
  BY <1>8
     DEF PowerCut, Boot, Mishap, FlagTypes
<1>9. CASE BackupLogs
  BY <1>9
     DEF BackupLogs, MoveTo, runs, past, FlagTypes
<1>10. CASE RotateLogs
  BY <1>10
     DEF RotateLogs, fetcher, runs, past, FlagTypes
<1>11. CASE FetchRecord
  BY <1>11
     DEF FetchRecord, runs, past, FlagTypes
<1>12. CASE LoadFields
  BY <1>12
     DEF LoadFields, Meets, Mishap, Note, runs, past, FlagTypes
<1>13. CASE LoadReason
  BY <1>13
     DEF LoadReason, Meets, Mishap, Note, runs, past, FlagTypes
<1>14. CASE OpenFields
  BY <1>14
     DEF OpenFields, Meets, Mishap, Note, runs, past, FlagTypes
<1>15. ASSUME fpc = "write", NEW j \in 1 .. Len(files[out]) + 1, WriteFields(j)
       PROVE  FlagTypes'
  BY <1>15
     DEF WriteFields, runs, FlagTypes
<1>16. CASE UNCHANGED vars
  BY <1>16
     DEF vars, fetcher, runs, past, FlagTypes
<1> QED
  BY <1>1, <1>2, <1>3, <1>4, <1>5, <1>6, <1>7, <1>8, <1>9, <1>10, <1>11, <1>12,
     <1>13, <1>14, <1>15, <1>16 DEF Next

LEMMA CounterStep ==
    ASSUME IndInv, [Next]_vars
    PROVE  Counters'
<1> USE DEF IndInv
<1>1. CASE Request
  <2>1. boots' = boots /\ (Mishap \/ mishaps' = mishaps)
    BY <1>1 DEF Request, Meets
  <2> QED BY <2>1, MishapFacts DEF Counters
<1>2. ASSUME NEW r \in Requests, Truncate(r) PROVE Counters'
  <2>1. boots' = boots /\ (Mishap \/ mishaps' = mishaps)
    BY <1>2 DEF Truncate
  <2> QED BY <2>1, MishapFacts DEF Counters
<1>3. ASSUME NEW r \in Requests, AppendLine(r) PROVE Counters'
  <2>1. boots' = boots /\ (Mishap \/ mishaps' = mishaps)
    BY <1>3 DEF AppendLine
  <2> QED BY <2>1, MishapFacts DEF Counters
<1>4. ASSUME NEW r \in Requests, WriteInfo(r) PROVE Counters'
  <2>1. boots' = boots /\ (Mishap \/ mishaps' = mishaps)
    BY <1>4 DEF WriteInfo
  <2> QED BY <2>1, MishapFacts DEF Counters
<1>5. ASSUME NEW r \in Requests, NoReboot(r) PROVE Counters'
  BY <1>5
     DEF NoReboot, Note, fetcher, past, Counters
<1>6. ASSUME NEW r \in Requests, FallBack(r) PROVE Counters'
  <2>1. boots' = boots /\ (Mishap \/ mishaps' = mishaps)
    BY <1>6 DEF FallBack
  <2> QED BY <2>1, MishapFacts DEF Counters
<1>7. ASSUME NEW r \in Requests, Reboot(r) PROVE Counters'
  <2>1. boots < MaxBoots /\ boots' = boots + 1 /\ (Mishap \/ mishaps' = mishaps)
    BY <1>7 DEF Reboot, Boot
  <2>2. boots' \in 1 .. MaxBoots
    BY <2>1, BoundsAssumption DEF Counters
  <2> QED BY <2>1, <2>2, MishapFacts DEF Counters
<1>8. CASE PowerCut
  <2>1. boots < MaxBoots /\ boots' = boots + 1 /\ (Mishap \/ mishaps' = mishaps)
    BY <1>8 DEF PowerCut, Boot
  <2>2. boots' \in 1 .. MaxBoots
    BY <2>1, BoundsAssumption DEF Counters
  <2> QED BY <2>1, <2>2, MishapFacts DEF Counters
<1>9. CASE BackupLogs
  BY <1>9
     DEF BackupLogs, MoveTo, runs, past, Counters
<1>10. CASE RotateLogs
  BY <1>10
     DEF RotateLogs, fetcher, runs, past, Counters
<1>11. CASE FetchRecord
  BY <1>11
     DEF FetchRecord, runs, past, Counters
<1>12. CASE LoadFields
  <2>1. boots' = boots /\ (Mishap \/ mishaps' = mishaps)
    BY <1>12 DEF LoadFields, Meets
  <2> QED BY <2>1, MishapFacts DEF Counters
<1>13. CASE LoadReason
  <2>1. boots' = boots /\ (Mishap \/ mishaps' = mishaps)
    BY <1>13 DEF LoadReason, Meets
  <2> QED BY <2>1, MishapFacts DEF Counters
<1>14. CASE OpenFields
  <2>1. boots' = boots /\ (Mishap \/ mishaps' = mishaps)
    BY <1>14 DEF OpenFields, Meets
  <2> QED BY <2>1, MishapFacts DEF Counters
<1>15. ASSUME fpc = "write", NEW j \in 1 .. Len(files[out]) + 1, WriteFields(j)
       PROVE  Counters'
  BY <1>15
     DEF WriteFields, runs, Counters
<1>16. CASE UNCHANGED vars
  BY <1>16
     DEF vars, fetcher, runs, past, Counters
<1> QED
  BY <1>1, <1>2, <1>3, <1>4, <1>5, <1>6, <1>7, <1>8, <1>9, <1>10, <1>11, <1>12,
     <1>13, <1>14, <1>15, <1>16 DEF Next

LEMMA WindowStep ==
    ASSUME IndInv, [Next]_vars
    PROVE  WindowSets'
<1> USE DEF IndInv
<1>1. CASE Request
  <2>1. windows' \subseteq windows \cup Windows /\ carried' = carried
    BY <1>1
       DEF Request, Meets, Note, fetcher, past, Windows
  <2> QED BY <2>1 DEF WindowSets, Windows
<1>2. ASSUME NEW r \in Requests, Truncate(r) PROVE WindowSets'
  <2>1. windows' \subseteq windows \cup Windows /\ carried' = carried
    BY <1>2
       DEF Truncate, Note, fetcher, past, Windows
  <2> QED BY <2>1 DEF WindowSets, Windows
<1>3. ASSUME NEW r \in Requests, AppendLine(r) PROVE WindowSets'
  <2>1. windows' \subseteq windows \cup Windows /\ carried' = carried
    BY <1>3
       DEF AppendLine, Note, fetcher, past, Windows
  <2> QED BY <2>1 DEF WindowSets, Windows
<1>4. ASSUME NEW r \in Requests, WriteInfo(r) PROVE WindowSets'
  <2>1. windows' \subseteq windows \cup Windows /\ carried' = carried
    BY <1>4
       DEF WriteInfo, Note, fetcher, past, Windows
  <2> QED BY <2>1 DEF WindowSets, Windows
<1>5. ASSUME NEW r \in Requests, NoReboot(r) PROVE WindowSets'
  <2>1. windows' \subseteq windows \cup Windows /\ carried' = carried
    BY <1>5
       DEF NoReboot, Note, fetcher, past, Windows
  <2> QED BY <2>1 DEF WindowSets, Windows
<1>6. ASSUME NEW r \in Requests, FallBack(r) PROVE WindowSets'
  <2>1. windows' \subseteq windows \cup Windows /\ carried' = carried
    BY <1>6
       DEF FallBack, fetcher, past, Windows
  <2> QED BY <2>1 DEF WindowSets, Windows
<1>7. ASSUME NEW r \in Requests, Reboot(r) PROVE WindowSets'
  <2>1. windows' = {} /\ carried' \subseteq windows \cup carried \cup Windows
    BY <1>7 DEF Reboot, Boot, Windows
  <2> QED BY <2>1 DEF WindowSets
<1>8. CASE PowerCut
  <2>1. windows' = {} /\ carried' \subseteq windows \cup carried \cup Windows
    BY <1>8 DEF PowerCut, Boot, Windows
  <2> QED BY <2>1 DEF WindowSets
<1>9. CASE BackupLogs
  <2>1. windows' \subseteq windows \cup Windows /\ carried' = carried
    BY <1>9
       DEF BackupLogs, MoveTo, runs, past, Windows
  <2> QED BY <2>1 DEF WindowSets, Windows
<1>10. CASE RotateLogs
  BY <1>10
     DEF RotateLogs, fetcher, runs, past, WindowSets
<1>11. CASE FetchRecord
  BY <1>11
     DEF FetchRecord, runs, past, WindowSets
<1>12. CASE LoadFields
  <2>1. windows' \subseteq windows \cup Windows /\ carried' = carried
    BY <1>12
       DEF LoadFields, Meets, Note, runs, past, Windows
  <2> QED BY <2>1 DEF WindowSets, Windows
<1>13. CASE LoadReason
  <2>1. windows' \subseteq windows \cup Windows /\ carried' = carried
    BY <1>13
       DEF LoadReason, Meets, Note, runs, past, Windows
  <2> QED BY <2>1 DEF WindowSets, Windows
<1>14. CASE OpenFields
  <2>1. windows' \subseteq windows \cup Windows /\ carried' = carried
    BY <1>14
       DEF OpenFields, Meets, Note, runs, past, Windows
  <2> QED BY <2>1 DEF WindowSets, Windows
<1>15. ASSUME fpc = "write", NEW j \in 1 .. Len(files[out]) + 1, WriteFields(j)
       PROVE  WindowSets'
  BY <1>15
     DEF WriteFields, runs, WindowSets
<1>16. CASE UNCHANGED vars
  BY <1>16
     DEF vars, fetcher, runs, past, WindowSets
<1> QED
  BY <1>1, <1>2, <1>3, <1>4, <1>5, <1>6, <1>7, <1>8, <1>9, <1>10, <1>11, <1>12,
     <1>13, <1>14, <1>15, <1>16 DEF Next

LEMMA CausesStep ==
    ASSUME IndInv, [Next]_vars
    PROVE  Causes'
<1> USE DEF IndInv
<1>1. CASE Request
  BY <1>1, ValueFacts
     DEF Request, Meets, Mishap, Note, fetcher, past, Causes
<1>2. ASSUME NEW r \in Requests, Truncate(r) PROVE Causes'
  BY <1>2, ValueFacts
     DEF Truncate, Mishap, Note, fetcher, past, Causes
<1>3. ASSUME NEW r \in Requests, AppendLine(r) PROVE Causes'
  BY <1>3, ValueFacts
     DEF AppendLine, Mishap, Note, fetcher, past, Causes
<1>4. ASSUME NEW r \in Requests, WriteInfo(r) PROVE Causes'
  BY <1>4, ValueFacts
     DEF WriteInfo, Mishap, Note, fetcher, past, Causes
<1>5. ASSUME NEW r \in Requests, NoReboot(r) PROVE Causes'
  BY <1>5, ValueFacts
     DEF NoReboot, Note, fetcher, past, Causes
<1>6. ASSUME NEW r \in Requests, FallBack(r) PROVE Causes'
  BY <1>6, ValueFacts
     DEF FallBack, Mishap, fetcher, past, Causes
<1>7. ASSUME NEW r \in Requests, Reboot(r) PROVE Causes'
  BY <1>7, ValueFacts
     DEF Reboot, Boot, Causes
<1>8. CASE PowerCut
  BY <1>8, ValueFacts
     DEF PowerCut, Boot, Mishap, Causes
<1>9. CASE BackupLogs
  BY <1>9, ValueFacts
     DEF BackupLogs, MoveTo, runs, past, Causes
<1>10. CASE RotateLogs
  BY <1>10, ValueFacts
     DEF RotateLogs, fetcher, runs, past, Causes
<1>11. CASE FetchRecord
  BY <1>11, ValueFacts
     DEF FetchRecord, runs, past, Causes
<1>12. CASE LoadFields
  BY <1>12, ValueFacts
     DEF LoadFields, Meets, Mishap, Note, runs, past, Causes
<1>13. CASE LoadReason
  BY <1>13, ValueFacts
     DEF LoadReason, Meets, Mishap, Note, runs, past, Causes
<1>14. CASE OpenFields
  BY <1>14, ValueFacts
     DEF OpenFields, Meets, Mishap, Note, runs, past, Causes
<1>15. ASSUME fpc = "write", NEW j \in 1 .. Len(files[out]) + 1, WriteFields(j)
       PROVE  Causes'
  <2>1. cause' = cause /\ seen' = seen \cup ({got["RebootInitiatedBy"]} \ {0})
    BY <1>15 DEF WriteFields
  <2>2. got["RebootInitiatedBy"] \in Values
    BY FieldFacts DEF Fetched
  <2> QED BY <2>1, <2>2, ValueFacts DEF Causes
<1>16. CASE UNCHANGED vars
  BY <1>16, ValueFacts
     DEF vars, fetcher, runs, past, Causes
<1> QED
  BY <1>1, <1>2, <1>3, <1>4, <1>5, <1>6, <1>7, <1>8, <1>9, <1>10, <1>11, <1>12,
     <1>13, <1>14, <1>15, <1>16 DEF Next

LEMMA FetchedStep ==
    ASSUME IndInv, [Next]_vars
    PROVE  Fetched'
<1> USE DEF IndInv
<1>1. CASE Request
  BY <1>1
     DEF Request, Meets, Mishap, Note, fetcher, past, Fetched
<1>2. ASSUME NEW r \in Requests, Truncate(r) PROVE Fetched'
  BY <1>2
     DEF Truncate, Mishap, Note, fetcher, past, Fetched
<1>3. ASSUME NEW r \in Requests, AppendLine(r) PROVE Fetched'
  BY <1>3
     DEF AppendLine, Mishap, Note, fetcher, past, Fetched
<1>4. ASSUME NEW r \in Requests, WriteInfo(r) PROVE Fetched'
  BY <1>4
     DEF WriteInfo, Mishap, Note, fetcher, past, Fetched
<1>5. ASSUME NEW r \in Requests, NoReboot(r) PROVE Fetched'
  BY <1>5
     DEF NoReboot, Note, fetcher, past, Fetched
<1>6. ASSUME NEW r \in Requests, FallBack(r) PROVE Fetched'
  BY <1>6
     DEF FallBack, Mishap, fetcher, past, Fetched
<1>7. ASSUME NEW r \in Requests, Reboot(r) PROVE Fetched'
  <2>1. record' = 0 /\ got' = Blank
    BY <1>7 DEF Reboot, Boot
  <2> QED BY <2>1, ValueFacts DEF Fetched, Blank
<1>8. CASE PowerCut
  <2>1. record' = 0 /\ got' = Blank
    BY <1>8 DEF PowerCut, Boot
  <2> QED BY <2>1, ValueFacts DEF Fetched, Blank
<1>9. CASE BackupLogs
  BY <1>9
     DEF BackupLogs, MoveTo, runs, past, Fetched
<1>10. CASE RotateLogs
  BY <1>10
     DEF RotateLogs, fetcher, runs, past, Fetched
<1>11. CASE FetchRecord
  <2>1. record' = info /\ got' = got
    BY <1>11 DEF FetchRecord
  <2> QED BY <2>1 DEF Fetched, FileTypes
<1>12. CASE LoadFields
  <2>1. record' = record /\ (got' = FromRecord(record) \/ got' = FromLog(Found, files))
    BY <1>12 DEF LoadFields
  <2>2. FromRecord(record) \in [Fields -> Values]
    BY ValueFacts DEF FromRecord, Fetched
  <2>3. FromLog(Found, files) \in [Fields -> Values]
    <3>1. CASE Found = "none"
      BY <3>1, ValueFacts DEF FromLog, Blank
    <3>2. CASE Found # "none"
      <4>1. files[Found] \in Seq(Line)
        BY <3>2, FoundExists DEF FileTypes
      <4> QED BY <3>2, <4>1, LineValue, ParseTyped, ValueFacts DEF FromLog
    <3> QED BY <3>1, <3>2
  <2> QED BY <2>1, <2>2, <2>3 DEF Fetched
<1>13. CASE LoadReason
  <2>1. record' = record /\ got' = WithReason(got, Found, files)
    BY <1>13 DEF LoadReason
  <2> DEFINE line == IF Found = "none" THEN 0 ELSE ReasonLine(files[Found])
  <2>2. line \in Values
    <3>1. CASE Found = "none"
      BY <3>1, ValueFacts
    <3>2. CASE Found # "none"
      <4>1. files[Found] \in Seq(Line)
        BY <3>2, FoundExists DEF FileTypes
      <4> QED BY <3>2, <4>1, LineValue, ReasonTyped, ValueFacts
    <3> QED BY <3>1, <3>2
  <2>3. got' = [got EXCEPT !["RebootReason"] = line]
    BY <2>1, Zenon DEF WithReason
  <2> HIDE DEF line
  <2> QED BY <2>1, <2>2, <2>3 DEF Fetched
<1>14. CASE OpenFields
  BY <1>14
     DEF OpenFields, Meets, Mishap, Note, runs, past, Fetched
<1>15. ASSUME fpc = "write", NEW j \in 1 .. Len(files[out]) + 1, WriteFields(j)
       PROVE  Fetched'
  BY <1>15
     DEF WriteFields, runs, Fetched
<1>16. CASE UNCHANGED vars
  BY <1>16
     DEF vars, fetcher, runs, past, Fetched
<1> QED
  BY <1>1, <1>2, <1>3, <1>4, <1>5, <1>6, <1>7, <1>8, <1>9, <1>10, <1>11, <1>12,
     <1>13, <1>14, <1>15, <1>16 DEF Next

LEMMA StageStep ==
    ASSUME IndInv, [Next]_vars
    PROVE  Stage'
<1> USE DEF IndInv
<1>1. CASE Request
  BY <1>1
     DEF Request, Meets, Mishap, Note, fetcher, past, Stage
<1>2. ASSUME NEW r \in Requests, Truncate(r) PROVE Stage'
  BY <1>2
     DEF Truncate, Mishap, Note, fetcher, past, Stage
<1>3. ASSUME NEW r \in Requests, AppendLine(r) PROVE Stage'
  BY <1>3
     DEF AppendLine, Mishap, Note, fetcher, past, Stage
<1>4. ASSUME NEW r \in Requests, WriteInfo(r) PROVE Stage'
  BY <1>4
     DEF WriteInfo, Mishap, Note, fetcher, past, Stage
<1>5. ASSUME NEW r \in Requests, NoReboot(r) PROVE Stage'
  BY <1>5
     DEF NoReboot, Note, fetcher, past, Stage
<1>6. ASSUME NEW r \in Requests, FallBack(r) PROVE Stage'
  BY <1>6
     DEF FallBack, Mishap, fetcher, past, Stage
<1>7. ASSUME NEW r \in Requests, Reboot(r) PROVE Stage'
  BY <1>7
     DEF Reboot, Boot, Stage
<1>8. CASE PowerCut
  BY <1>8
     DEF PowerCut, Boot, Mishap, Stage
<1>9. CASE BackupLogs
  BY <1>9
     DEF BackupLogs, MoveTo, runs, past, Stage
<1>10. CASE RotateLogs
  BY <1>10
     DEF RotateLogs, fetcher, runs, past, Stage
<1>11. CASE FetchRecord
  BY <1>11
     DEF FetchRecord, runs, past, Stage
<1>12. CASE LoadFields
  BY <1>12
     DEF LoadFields, Meets, Mishap, Note, runs, past, Stage
<1>13. CASE LoadReason
  BY <1>13
     DEF LoadReason, Meets, Mishap, Note, runs, past, Stage
<1>14. CASE OpenFields
  BY <1>14
     DEF OpenFields, Meets, Mishap, Note, runs, past, Stage
<1>15. ASSUME fpc = "write", NEW j \in 1 .. Len(files[out]) + 1, WriteFields(j)
       PROVE  Stage'
  BY <1>15
     DEF WriteFields, runs, Stage
<1>16. CASE UNCHANGED vars
  BY <1>16
     DEF vars, fetcher, runs, past, Stage
<1> QED
  BY <1>1, <1>2, <1>3, <1>4, <1>5, <1>6, <1>7, <1>8, <1>9, <1>10, <1>11, <1>12,
     <1>13, <1>14, <1>15, <1>16 DEF Next

LEMMA RequestStep ==
    ASSUME IndInv, [Next]_vars
    PROVE  RequestTypes'
<1> USE DEF IndInv
<1>1. CASE Request
  <2>1. made < MaxRequests /\ made' = made + 1
    BY <1>1 DEF Request
  <2>2. made' \in Requests /\ made' \in Values
    BY <2>1, BoundsAssumption DEF RequestTypes, Requests, Values
  <2>3. script' \in {script, script \cup {made'}}
    BY <1>1 DEF Request
  <2>4. PICK k \in {Truncating, 1} : step' = [step EXCEPT ![made'] = k]
    BY <1>1 DEF Request
  <2>5. k \in Truncating .. Over
    BY <2>4, StepFacts
  <2> QED BY <2>2, <2>3, <2>4, <2>5 DEF RequestTypes
<1>2. ASSUME NEW r \in Requests, Truncate(r) PROVE RequestTypes'
  BY <1>2, StepFacts, ValueFacts
     DEF Truncate, Mishap, Note, fetcher, past, RequestTypes
<1>3. ASSUME NEW r \in Requests, AppendLine(r) PROVE RequestTypes'
  <2>1. step' = [step EXCEPT ![r] = step[r] + 1] /\ script' = script /\ made' = made
    BY <1>3 DEF AppendLine
  <2>2. step[r] \in Nat /\ step[r] <= 5
    BY <1>3, StepFacts, FieldFacts DEF AppendLine, RequestTypes
  <2> QED BY <2>1, <2>2, StepFacts DEF RequestTypes
<1>4. ASSUME NEW r \in Requests, WriteInfo(r) PROVE RequestTypes'
  BY <1>4, StepFacts, ValueFacts
     DEF WriteInfo, Mishap, Note, fetcher, past, RequestTypes
<1>5. ASSUME NEW r \in Requests, NoReboot(r) PROVE RequestTypes'
  BY <1>5, StepFacts, ValueFacts
     DEF NoReboot, Note, fetcher, past, RequestTypes
<1>6. ASSUME NEW r \in Requests, FallBack(r) PROVE RequestTypes'
  BY <1>6, StepFacts, ValueFacts
     DEF FallBack, Mishap, fetcher, past, RequestTypes
<1>7. ASSUME NEW r \in Requests, Reboot(r) PROVE RequestTypes'
  BY <1>7, StepFacts, ValueFacts
     DEF Reboot, Boot, RequestTypes
<1>8. CASE PowerCut
  BY <1>8, StepFacts, ValueFacts
     DEF PowerCut, Boot, Mishap, RequestTypes
<1>9. CASE BackupLogs
  BY <1>9, StepFacts, ValueFacts
     DEF BackupLogs, MoveTo, runs, past, RequestTypes
<1>10. CASE RotateLogs
  BY <1>10, StepFacts, ValueFacts
     DEF RotateLogs, fetcher, runs, past, RequestTypes
<1>11. CASE FetchRecord
  BY <1>11, StepFacts, ValueFacts
     DEF FetchRecord, runs, past, RequestTypes
<1>12. CASE LoadFields
  BY <1>12, StepFacts, ValueFacts
     DEF LoadFields, Meets, Mishap, Note, runs, past, RequestTypes
<1>13. CASE LoadReason
  BY <1>13, StepFacts, ValueFacts
     DEF LoadReason, Meets, Mishap, Note, runs, past, RequestTypes
<1>14. CASE OpenFields
  BY <1>14, StepFacts, ValueFacts
     DEF OpenFields, Meets, Mishap, Note, runs, past, RequestTypes
<1>15. ASSUME fpc = "write", NEW j \in 1 .. Len(files[out]) + 1, WriteFields(j)
       PROVE  RequestTypes'
  BY <1>15, StepFacts, ValueFacts
     DEF WriteFields, runs, RequestTypes
<1>16. CASE UNCHANGED vars
  BY <1>16, StepFacts, ValueFacts
     DEF vars, fetcher, runs, past, RequestTypes
<1> QED
  BY <1>1, <1>2, <1>3, <1>4, <1>5, <1>6, <1>7, <1>8, <1>9, <1>10, <1>11, <1>12,
     <1>13, <1>14, <1>15, <1>16 DEF Next

LEMMA StreamStep ==
    ASSUME IndInv, [Next]_vars
    PROVE  StreamInv'
<1> USE DEF IndInv
<1>1. CASE Request
  BY <1>1
     DEF Request, Meets, Mishap, Note, fetcher, past, StreamInv, Stage
<1>2. ASSUME NEW r \in Requests, Truncate(r) PROVE StreamInv'
  <2>1. UNCHANGED <<fpc, out>> /\ (files' = files \/ files' = Put("log", <<>>))
    BY <1>2 DEF Truncate, fetcher
  <2>2. DOMAIN files \subseteq DOMAIN files'
    BY <2>1, PutFacts
  <2> QED BY <2>1, <2>2 DEF StreamInv
<1>3. ASSUME NEW r \in Requests, AppendLine(r) PROVE StreamInv'
  <2>1. UNCHANGED <<fpc, out>> /\ (files' = files \/ \E text : files' = Put("log", text))
    BY <1>3 DEF AppendLine, fetcher
  <2>2. DOMAIN files \subseteq DOMAIN files'
    BY <2>1, PutFacts
  <2> QED BY <2>1, <2>2 DEF StreamInv
<1>4. ASSUME NEW r \in Requests, WriteInfo(r) PROVE StreamInv'
  BY <1>4
     DEF WriteInfo, Mishap, Note, fetcher, past, StreamInv, Stage
<1>5. ASSUME NEW r \in Requests, NoReboot(r) PROVE StreamInv'
  BY <1>5
     DEF NoReboot, Note, fetcher, past, StreamInv, Stage
<1>6. ASSUME NEW r \in Requests, FallBack(r) PROVE StreamInv'
  BY <1>6
     DEF FallBack, Mishap, fetcher, past, StreamInv, Stage
<1>7. ASSUME NEW r \in Requests, Reboot(r) PROVE StreamInv'
  BY <1>7
     DEF Reboot, Boot, StreamInv, Stage
<1>8. CASE PowerCut
  BY <1>8
     DEF PowerCut, Boot, Mishap, StreamInv, Stage
<1>9. CASE BackupLogs
  <2> SUFFICES ASSUME fpc' = "write" PROVE out' \in DOMAIN files'
    BY DEF StreamInv
  <2>1. fpc = "write" /\ out = "log" /\ out \in DOMAIN files
    BY <1>9 DEF BackupLogs, SlotInv, StreamInv
  <2>2. PICK slot : MoveTo(slot)
    BY <1>9, <2>1 DEF BackupLogs
  <2>3. out' = slot /\ DOMAIN files' = (DOMAIN files \ {"log"}) \cup {slot}
    BY <2>1, <2>2 DEF MoveTo
  <2> QED BY <2>3
<1>10. CASE RotateLogs
  <2>1. fpc' = fpc /\ fpc # "write"
    BY <1>10 DEF RotateLogs, fetcher, Booted
  <2> QED BY <2>1 DEF StreamInv
<1>11. CASE FetchRecord
  BY <1>11
     DEF FetchRecord, runs, past, StreamInv, Stage
<1>12. CASE LoadFields
  BY <1>12
     DEF LoadFields, Meets, Mishap, Note, runs, past, StreamInv, Stage
<1>13. CASE LoadReason
  BY <1>13
     DEF LoadReason, Meets, Mishap, Note, runs, past, StreamInv, Stage
<1>14. CASE OpenFields
  <2>1. fpc' = "write" => out' = "log" /\ files' = Put("log", <<>>)
    BY <1>14 DEF OpenFields
  <2> QED BY <2>1, PutFacts DEF StreamInv
<1>15. ASSUME fpc = "write", NEW j \in 1 .. Len(files[out]) + 1, WriteFields(j)
       PROVE  StreamInv'
  BY <1>15
     DEF WriteFields, runs, StreamInv, Stage
<1>16. CASE UNCHANGED vars
  BY <1>16
     DEF vars, fetcher, runs, past, StreamInv, Stage
<1> QED
  BY <1>1, <1>2, <1>3, <1>4, <1>5, <1>6, <1>7, <1>8, <1>9, <1>10, <1>11, <1>12,
     <1>13, <1>14, <1>15, <1>16 DEF Next

LEMMA FileStep ==
    ASSUME IndInv, [Next]_vars
    PROVE  FileTypes'
<1> USE DEF IndInv
<1>1. CASE Request
  BY <1>1, ValueFacts
     DEF Request, Meets, Mishap, Note, fetcher, past, FileTypes
<1>2. ASSUME NEW r \in Requests, Truncate(r) PROVE FileTypes'
  <2>1. info' = info /\ (files' = files \/ files' = Put("log", <<>>))
    BY <1>2 DEF Truncate
  <2>2. <<>> \in Seq(Line) /\ info' \in Values
    BY <2>1 DEF FileTypes
  <2>3. CASE files' = Put("log", <<>>)
    BY <2>2, <2>3, PutTyped
  <2>4. CASE files' = files
    BY <2>1, <2>4 DEF FileTypes
  <2> QED BY <2>1, <2>3, <2>4
<1>3. ASSUME NEW r \in Requests, AppendLine(r) PROVE FileTypes'
  <2> DEFINE old == IF "log" \in DOMAIN files THEN files["log"] ELSE <<>>
             text == old \o <<Raw(Order[step[r]], r)>>
  <2>1. info' = info /\ (files' = files \/ files' = Put("log", text))
    BY <1>3 DEF AppendLine
  <2>2. text \in Seq(Line)
    <3>1. old \in Seq(Line)
      BY DEF FileTypes
    <3>2. Raw(Order[step[r]], r) \in Line
      BY <1>3, FieldFacts, ValueFacts DEF AppendLine, Raw, Line
    <3> HIDE DEF old
    <3> QED BY <3>1, <3>2
  <2> HIDE DEF text
  <2>3. info' \in Values
    BY <2>1 DEF FileTypes
  <2>4. CASE files' = Put("log", text)
    BY <2>2, <2>3, <2>4, PutTyped
  <2>5. CASE files' = files
    BY <2>1, <2>5 DEF FileTypes
  <2> QED BY <2>1, <2>4, <2>5
<1>4. ASSUME NEW r \in Requests, WriteInfo(r) PROVE FileTypes'
  BY <1>4, ValueFacts
     DEF WriteInfo, Mishap, Note, fetcher, past, FileTypes
<1>5. ASSUME NEW r \in Requests, NoReboot(r) PROVE FileTypes'
  BY <1>5, ValueFacts
     DEF NoReboot, Note, fetcher, past, FileTypes
<1>6. ASSUME NEW r \in Requests, FallBack(r) PROVE FileTypes'
  BY <1>6, ValueFacts
     DEF FallBack, Mishap, fetcher, past, FileTypes
<1>7. ASSUME NEW r \in Requests, Reboot(r) PROVE FileTypes'
  BY <1>7, ValueFacts
     DEF Reboot, Boot, FileTypes
<1>8. CASE PowerCut
  BY <1>8, ValueFacts
     DEF PowerCut, Boot, Mishap, FileTypes
<1>9. CASE BackupLogs
  <2>1. info' = info
    BY <1>9 DEF BackupLogs
  <2>2. CASE /\ DOMAIN files' = DOMAIN files \ {"marked"}
             /\ \A f \in DOMAIN files' : files'[f] = files[f]
    BY <2>1, <2>2 DEF FileTypes
  <2>3. ASSUME HasLog, NEW slot \in Slots, MoveTo(slot) PROVE FileTypes'
    BY <2>1, <2>3, MoveFacts DEF FileTypes, HasLog
  <2>4. "marked" \in Slots /\ FreeSlot \in Slots
    BY FreeSlotFacts DEF Slots
  <2> QED BY <1>9, <2>2, <2>3, <2>4, BackupCases
<1>10. CASE RotateLogs
  BY <1>10, ValueFacts
     DEF RotateLogs, fetcher, runs, past, FileTypes
<1>11. CASE FetchRecord
  BY <1>11, ValueFacts
     DEF FetchRecord, runs, past, FileTypes
<1>12. CASE LoadFields
  BY <1>12, ValueFacts
     DEF LoadFields, Meets, Mishap, Note, runs, past, FileTypes
<1>13. CASE LoadReason
  BY <1>13, ValueFacts
     DEF LoadReason, Meets, Mishap, Note, runs, past, FileTypes
<1>14. CASE OpenFields
  <2>1. info' = info /\ (files' = files \/ files' = Put("log", <<>>))
    BY <1>14 DEF OpenFields
  <2>2. <<>> \in Seq(Line) /\ info' \in Values
    BY <2>1 DEF FileTypes
  <2>3. CASE files' = Put("log", <<>>)
    BY <2>2, <2>3, PutTyped
  <2>4. CASE files' = files
    BY <2>1, <2>4 DEF FileTypes
  <2> QED BY <2>1, <2>3, <2>4
<1>15. ASSUME fpc = "write", NEW j \in 1 .. Len(files[out]) + 1, WriteFields(j)
       PROVE  FileTypes'
  <2> DEFINE lines == [i \in 1 .. Len(Order) |-> Previous(Order[i], got[Order[i]])]
             rest  == SubSeq(files[out], j, Len(files[out]))
  <2>1. info' = info /\ files' = Put(out, lines \o rest)
    BY <1>15 DEF WriteFields
  <2>2. lines \in Seq(Line)
    <3>1. \A i \in 1 .. 5 : Previous(Order[i], got[Order[i]]) \in Line
      BY FieldFacts DEF Fetched, Previous, Line
    <3> QED BY <3>1, FieldFacts
  <2>3. rest \in Seq(Line)
    <3>1. files[out] \in Seq(Line)
      BY <1>15 DEF StreamInv, FileTypes
    <3> QED BY <3>1
  <2> HIDE DEF lines, rest
  <2>4. lines \o rest \in Seq(Line)
    BY <2>2, <2>3
  <2>5. out \in Slots \cup {"log"} /\ info' \in Values
    BY <1>15, <2>1 DEF StreamInv, FileTypes
  <2> QED BY <2>1, <2>4, <2>5, PutTyped
<1>16. CASE UNCHANGED vars
  BY <1>16, ValueFacts
     DEF vars, fetcher, runs, past, FileTypes
<1> QED
  BY <1>1, <1>2, <1>3, <1>4, <1>5, <1>6, <1>7, <1>8, <1>9, <1>10, <1>11, <1>12,
     <1>13, <1>14, <1>15, <1>16 DEF Next

(***************************************************************************)
(* The steps, seen from the protocol.                                      *)
(***************************************************************************)
Working(r) == Truncate(r) \/ AppendLine(r) \/ WriteInfo(r) \/ NoReboot(r) \/ FallBack(r)

\* A boot, because a request is through or the power is cut.
Shutdown(c, news) ==
    /\ Boot(c, news)
    /\ \/ c \in Live /\ step[c] = Deciding /\ news = {}
       \/ /\ c = 0
          /\ (\E r \in Live : step[r] = Deciding) => "pending" \in news
          /\ (\E r \in Live : step[r] < Deciding) => "halfway" \in news

LEMMA NextCases ==
    ASSUME [Next]_vars
    PROVE  \/ Request \/ (\E r \in Requests : Working(r))
           \/ (\E c, news : Shutdown(c, news))
           \/ BackupLogs \/ RotateLogs
           \/ FetchRecord \/ LoadFields \/ LoadReason \/ OpenFields
           \/ fpc = "write" /\ \E j \in 1 .. Len(files[out]) + 1 : WriteFields(j)
           \/ UNCHANGED vars
<1>1. ASSUME NEW r \in Requests, Reboot(r) PROVE Shutdown(r, {})
  BY <1>1, StepFacts DEF Reboot, Shutdown, Live
<1>2. ASSUME PowerCut PROVE \E news : Shutdown(0, news)
  <2> DEFINE news == (IF \E r \in Live : step[r] = Deciding THEN {"pending"} ELSE {})
                       \cup (IF \E r \in Live : step[r] < Deciding THEN {"halfway"} ELSE {})
  <2>1. Boot(0, news)
    BY <1>2 DEF PowerCut
  <2>2. (\E r \in Live : step[r] = Deciding) => "pending" \in news
    OBVIOUS
  <2>3. (\E r \in Live : step[r] < Deciding) => "halfway" \in news
    OBVIOUS
  <2> HIDE DEF news
  <2> QED BY <2>1, <2>2, <2>3 DEF Shutdown
<1> QED BY <1>1, <1>2 DEF Next, Working

LEMMA RequestFacts ==
    ASSUME IndInv, Request
    PROVE  /\ made' \in Requests /\ made' = made + 1 /\ made' \notin Live
           /\ Live' = Live \cup {made'}
           /\ \A q \in Live : step'[q] = step[q]
           /\ step'[made'] \in {Truncating, 1}
           /\ Live = {} => step'[made'] = Truncating
           /\ UNCHANGED <<hdd, files, marker, info, backed, fpc, record, got, out, unread,
                          cause, carried, seen, again>>
           /\ windows' \in {windows, windows \cup {"raced"}, windows \cup {"concurrent"}}
           /\ "raced" \notin windows' => Booted \/ Live # {}
           /\ "concurrent" \notin windows' => Live = {}
<1>1. made < MaxRequests /\ made' = made + 1 /\ made \in Nat
  BY ValueFacts DEF Request, IndInv, RequestTypes
<1>2. made' \in Requests
  BY <1>1, BoundsAssumption DEF Requests
<1>3. made' \notin Live
  BY <1>1 DEF IndInv, MadeInv, Sofar
<1>4. step \in [Requests -> Truncating .. Over]
  BY DEF IndInv, RequestTypes
<1>5. PICK k : /\ k \in {Truncating, 1} /\ step' = [step EXCEPT ![made'] = k]
               /\ Live = {} => k = Truncating
  BY DEF Request
<1>6. k # Over
  BY <1>5, StepFacts
<1>7. step'[made'] = k /\ \A q \in Requests : q # made' => step'[q] = step[q]
  BY <1>2, <1>4, <1>5
<1>8. Live' = Live \cup {made'}
  BY <1>2, <1>6, <1>7 DEF Live
<1>9. \A q \in Live : step'[q] = step[q]
  BY <1>3, <1>7 DEF Live
<1>10. /\ windows' \in {windows, windows \cup {"raced"}, windows \cup {"concurrent"}}
       /\ "raced" \notin windows' => Booted \/ Live # {}
       /\ "concurrent" \notin windows' => Live = {}
  <2>1. CASE Live = {} /\ Meets(~Booted, "raced")
    BY <2>1, MeetsFacts
  <2>2. CASE Live # {} /\ Meets(TRUE, "concurrent")
    BY <2>2, MeetsFacts
  <2> QED BY <2>1, <2>2 DEF Request
<1>11. UNCHANGED <<hdd, files, marker, info, backed, fpc, record, got, out, unread,
                   cause, carried, seen, again>>
  BY DEF Request, fetcher, past
<1> QED BY <1>1, <1>2, <1>3, <1>5, <1>7, <1>8, <1>9, <1>10, <1>11

LEMMA WorkFacts ==
    ASSUME IndInv, NEW r \in Requests, Working(r)
    PROVE  /\ r \in Live /\ Live' \subseteq Live /\ (Quiet => Booted)
           /\ UNCHANGED <<hdd, marker, backed, fpc, record, got, out, unread, made, cause,
                          carried, seen, again>>
           /\ windows \subseteq windows' \cup {"pending"}
           /\ windows' \subseteq windows \cup {"badLog", "infoLost", "pending"}
           /\ \A q \in Live : q # r => step'[q] = step[q]
<1>1. step[r] # Over
  BY StepFacts, FieldFacts DEF Working, Truncate, AppendLine, WriteInfo, NoReboot, FallBack, Live
<1>2. step \in [Requests -> Truncating .. Over]
  BY DEF IndInv, RequestTypes
<1>3. PICK k : step' = [step EXCEPT ![r] = k]
  BY DEF Working, Truncate, AppendLine, WriteInfo, NoReboot, FallBack
<1>4. \A q \in Requests : q # r => step'[q] = step[q]
  BY <1>2, <1>3
<1>5. r \in Live /\ Live' \subseteq Live
  BY <1>1, <1>4 DEF Live
<1>6. \A q \in Live : q # r => step'[q] = step[q]
  BY <1>4 DEF Live
<1>7. Quiet => Booted
  BY <1>5 DEF IndInv, LiveInv
<1>8. UNCHANGED <<hdd, marker, backed, fpc, record, got, out, unread, made, cause,
                  carried, seen, again>>
  BY DEF Working, Truncate, AppendLine, WriteInfo, NoReboot, FallBack, fetcher, past
<1>9. /\ windows \subseteq windows' \cup {"pending"}
      /\ windows' \subseteq windows \cup {"badLog", "infoLost", "pending"}
  BY DEF Working, Truncate, AppendLine, WriteInfo, NoReboot, FallBack, Note
<1> QED BY <1>5, <1>6, <1>7, <1>8, <1>9

LEMMA BootFacts ==
    ASSUME NEW c, NEW news, Shutdown(c, news)
    PROVE  /\ cause' = c /\ Live' = {} /\ windows' = {}
           /\ carried' = windows \cup news
                           \cup (IF Booted THEN {} ELSE carried \cup {"unfetched"})
           /\ ~backed' /\ fpc' = "start" /\ got' = Blank /\ ~unread' /\ record' = 0
           /\ out' = "log" /\ ~again'
           /\ UNCHANGED <<hdd, files, marker, info, made, seen>>
<1>1. Live' = {}
  BY DEF Shutdown, Boot, Live
<1> QED BY <1>1 DEF Shutdown, Boot

LEMMA LoadFacts ==
    ASSUME LoadFields
    PROVE  /\ fpc = "load" /\ fpc' = "reason"
           /\ \/ got' = FromRecord(record) /\ unread' = unread
              \/ got' = FromLog(Found, files) /\ unread'
           /\ windows' \in {windows, windows \cup {"early"}}
           /\ ~backed => "early" \in windows'
           /\ UNCHANGED <<hdd, files, marker, info, backed, record, out, step, made, cause,
                          carried, seen, again>>
<1>1. /\ fpc = "load" /\ fpc' = "reason"
      /\ \/ got' = FromRecord(record) /\ unread' = unread
         \/ got' = FromLog(Found, files) /\ unread'
      /\ UNCHANGED <<hdd, files, marker, info, backed, record, out, step, made, cause,
                     carried, seen, again>>
  BY DEF LoadFields, runs, past
<1>2. windows' \in {windows, windows \cup {"early"}} /\ (~backed => "early" \in windows')
  <2>1. CASE Meets(~backed, "early")
    BY <2>1, MeetsFacts
  <2>2. CASE windows' = IF backed THEN windows ELSE windows \cup {"early"}
    BY <2>2
  <2> QED BY <2>1, <2>2 DEF LoadFields
<1> QED BY <1>1, <1>2

LEMMA ReasonFacts ==
    ASSUME LoadReason
    PROVE  /\ fpc = "reason" /\ fpc' = "open"
           /\ got' = WithReason(got, Found, files)
           /\ windows' \in {windows, windows \cup {"early"}}
           /\ ~backed => "early" \in windows'
           /\ UNCHANGED <<hdd, files, marker, info, backed, record, out, unread, step, made,
                          cause, carried, seen, again>>
BY MeetsFacts DEF LoadReason, runs, past

LEMMA OpenFacts ==
    ASSUME OpenFields
    PROVE  /\ fpc = "open" /\ fpc' \in {"write", "failed"}
           /\ fpc' = "write" => files' = Put("log", <<>>) /\ out' = "log"
           /\ fpc' = "failed" => files' = files
           /\ windows' \in {windows, windows \cup {"early"}}
           /\ UNCHANGED <<hdd, marker, info, backed, record, got, unread, step, made, cause,
                          carried, seen, again>>
<1>1. /\ fpc = "open" /\ fpc' \in {"write", "failed"}
      /\ fpc' = "write" => files' = Put("log", <<>>) /\ out' = "log"
      /\ fpc' = "failed" => files' = files
      /\ UNCHANGED <<hdd, marker, info, backed, record, got, unread, step, made, cause,
                     carried, seen, again>>
  BY DEF OpenFields, runs, past
<1>2. windows' \in {windows, windows \cup {"early"}}
  BY MeetsFacts DEF OpenFields
<1> QED BY <1>1, <1>2

LEMMA BackupFacts ==
    ASSUME BackupLogs
    PROVE  /\ ~backed /\ backed' /\ (marker' <=> hdd)
           /\ windows' \in {windows, windows \cup {"fast"}}
           /\ UNCHANGED <<hdd, info, fpc, record, got, unread, step, made, cause, carried,
                          seen, again>>
<1>1. windows' \in {windows, windows \cup {"fast"}}
  BY BackupCases
<1>2. backed' = TRUE /\ marker' = hdd
  BY DEF BackupLogs
<1> QED BY <1>1, <1>2 DEF BackupLogs, runs, past

LEMMA SofarFacts ==
    ASSUME IndInv
    PROVE  0 \in Sofar /\ made \in Nat /\ \A v \in Sofar : v \in 0 .. made + 1
<1>1. made \in Nat
  BY ValueFacts DEF IndInv, RequestTypes
<1> QED BY <1>1 DEF Sofar

LEMMA JoinedOf ==
    ASSUME NEW s \in Seq(Line), NEW t \in Seq(Line), NEW V, AllOf(s, V), AllOf(t, V)
    PROVE  AllOf(s \o t, V)
<1> SUFFICES ASSUME NEW i \in 1 .. Len(s \o t) PROVE (s \o t)[i].of \in V
  BY DEF AllOf
<1>1. i \in 1 .. Len(s) + Len(t)
  OBVIOUS
<1>2. CASE i \in 1 .. Len(s)
  <2>1. (s \o t)[i] = s[i]
    BY <1>2
  <2> QED BY <1>2, <2>1 DEF AllOf
<1>3. CASE i \notin 1 .. Len(s)
  <2>1. (s \o t)[i] = t[i - Len(s)] /\ i - Len(s) \in 1 .. Len(t)
    BY <1>1, <1>3
  <2> QED BY <2>1 DEF AllOf
<1> QED BY <1>2, <1>3

LEMMA AppendedOf ==
    ASSUME NEW s \in Seq(Line), NEW l \in Line, NEW V, AllOf(s, V), l.of \in V
    PROVE  AllOf(s \o <<l>>, V)
<1>1. <<l>> \in Seq(Line) /\ AllOf(<<l>>, V)
  <2>1. Len(<<l>>) = 1 /\ <<l>>[1] = l
    OBVIOUS
  <2>2. \A i \in 1..1 : i = 1
    OBVIOUS
  <2> QED BY <2>1, <2>2 DEF AllOf
<1> QED BY <1>1, JoinedOf

LEMMA CutOf ==
    ASSUME NEW s \in Seq(Line), NEW V, AllOf(s, V), NEW j \in 1 .. Len(s) + 1
    PROVE  SubSeq(s, j, Len(s)) \in Seq(Line) /\ AllOf(SubSeq(s, j, Len(s)), V)
<1> DEFINE cut == SubSeq(s, j, Len(s))
<1>1. cut \in Seq(Line) /\ Len(cut) = Len(s) - j + 1
  OBVIOUS
<1>2. \A i \in 1 .. Len(s) - j + 1 : cut[i] = s[j + i - 1] /\ j + i - 1 \in 1 .. Len(s)
  OBVIOUS
<1> HIDE DEF cut
<1>3. AllOf(cut, V)
  BY <1>1, <1>2 DEF AllOf
<1> QED BY <1>1, <1>3 DEF cut

LEMMA PutMade ==
    ASSUME IndInv, made' = made, NEW text, NEW name, files' = Put(name, text),
           AllOf(text, Sofar)
    PROVE  \A n \in DOMAIN files' : AllOf(files'[n], Sofar)
<1> USE DEF IndInv, MadeInv
<1>1. /\ DOMAIN files' = DOMAIN files \cup {name} /\ files'[name] = text
      /\ \A f \in DOMAIN files : f # name => files'[f] = files[f]
  BY PutFacts
<1>2. TAKE n \in DOMAIN files'
<1>3. CASE n = name
  BY <1>1, <1>3
<1>4. CASE n # name
  <2>1. n \in DOMAIN files /\ files'[n] = files[n]
    BY <1>1, <1>4
  <2> QED BY <2>1
<1> QED BY <1>3, <1>4

\* Every step keeps the numbering of requests.
LEMMA MadeStep ==
    ASSUME IndInv, [Next]_vars
    PROVE  MadeInv'
<1> USE DEF IndInv
<1>1. CASE Request
  <2>1. Sofar \subseteq Sofar' /\ made' \in Sofar'
    BY <1>1, RequestFacts, SofarFacts DEF Sofar
  <2>2. \A text : AllOf(text, Sofar) => AllOf(text, Sofar')
    BY <2>1 DEF AllOf
  <2>3. Live' = Live \cup {made'} /\ UNCHANGED <<seen, info, record, got, files>>
    BY <1>1, RequestFacts
  <2> HIDE DEF Sofar
  <2> QED BY <2>1, <2>2, <2>3 DEF MadeInv
<1>2. ASSUME NEW r \in Requests, Working(r) PROVE MadeInv'
  <2>1. UNCHANGED <<made, seen, record, got>> /\ Live' \subseteq Live /\ r \in Live
    BY <1>2, WorkFacts
  <2>2. info' \in Sofar
    BY <1>2, <2>1 DEF Working, Truncate, AppendLine, WriteInfo, NoReboot, FallBack, MadeInv
  <2>3. \A n \in DOMAIN files' : AllOf(files'[n], Sofar)
    <3>1. CASE Truncate(r)
      <4>1. files' = files \/ files' = Put("log", <<>>)
        BY <3>1 DEF Truncate
      <4>2. AllOf(<<>>, Sofar)
        BY DEF AllOf
      <4>3. CASE files' = files
        BY <4>3 DEF MadeInv
      <4> QED BY <2>1, <4>1, <4>2, <4>3, PutMade
    <3>2. CASE AppendLine(r)
      <4> DEFINE old  == IF "log" \in DOMAIN files THEN files["log"] ELSE <<>>
                 line == Raw(Order[step[r]], r)
      <4>1. files' = files \/ files' = Put("log", old \o <<line>>)
        BY <3>2 DEF AppendLine
      <4>2. old \in Seq(Line) /\ AllOf(old, Sofar)
        BY DEF FileTypes, MadeInv, AllOf
      <4>3. line \in Line /\ line.of \in Sofar
        BY <2>1, <3>2, FieldFacts, ValueFacts DEF AppendLine, Raw, Line, MadeInv
      <4> HIDE DEF old, line
      <4>4. AllOf(old \o <<line>>, Sofar)
        BY <4>2, <4>3, AppendedOf
      <4>5. CASE files' = files
        BY <4>5 DEF MadeInv
      <4> QED BY <2>1, <4>1, <4>4, <4>5, PutMade
    <3>3. CASE WriteInfo(r) \/ NoReboot(r) \/ FallBack(r)
      BY <3>3 DEF WriteInfo, NoReboot, FallBack, MadeInv
    <3> QED BY <1>2, <3>1, <3>2, <3>3 DEF Working
  <2>4. Sofar' = Sofar
    BY <2>1 DEF Sofar
  <2> HIDE DEF Sofar
  <2> QED BY <2>1, <2>2, <2>3, <2>4 DEF MadeInv
<1>3. ASSUME NEW c, NEW news, Shutdown(c, news) PROVE MadeInv'
  <2>1. UNCHANGED <<made, seen, info, files>> /\ Live' = {} /\ record' = 0 /\ got' = Blank
    BY <1>3, BootFacts
  <2>2. Sofar' = Sofar
    BY <2>1 DEF Sofar
  <2> HIDE DEF Sofar
  <2> QED BY <2>1, <2>2, SofarFacts DEF MadeInv, Blank
<1>4. CASE BackupLogs
  <2>1. UNCHANGED <<made, seen, info, record, got, step>>
    BY <1>4, BackupFacts
  <2>2. Sofar' = Sofar /\ Live' = Live
    BY <2>1 DEF Sofar, Live
  <2>3. \A n \in DOMAIN files' : AllOf(files'[n], Sofar)
    <3>1. ASSUME HasLog, NEW slot, MoveTo(slot)
          PROVE  \A n \in DOMAIN files' : AllOf(files'[n], Sofar)
      <4>1. /\ DOMAIN files' = (DOMAIN files \ {"log"}) \cup {slot}
            /\ files'[slot] = files["log"]
            /\ \A f \in DOMAIN files \ {"log"} : f # slot => files'[f] = files[f]
        BY <3>1, MoveFacts
      <4>2. TAKE n \in DOMAIN files'
      <4>3. n = slot \/ (n \in DOMAIN files \ {"log"} /\ n # slot)
        BY <4>1
      <4> QED BY <3>1, <4>1, <4>3 DEF MadeInv, HasLog
    <3>2. CASE /\ DOMAIN files' = DOMAIN files \ {"marked"}
               /\ \A f \in DOMAIN files' : files'[f] = files[f]
      BY <3>2 DEF MadeInv
    <3> QED BY <1>4, <3>1, <3>2, BackupCases
  <2> HIDE DEF Sofar
  <2> QED BY <2>1, <2>2, <2>3 DEF MadeInv
<1>5. CASE RotateLogs
  BY <1>5
     DEF RotateLogs, fetcher, runs, past, MadeInv, Sofar, Live
<1>6. CASE FetchRecord
  <2>1. UNCHANGED <<made, seen, got, files, step>> /\ record' = info /\ info' = 0
    BY <1>6 DEF FetchRecord, runs, past
  <2>2. Sofar' = Sofar /\ Live' = Live
    BY <2>1 DEF Sofar, Live
  <2> HIDE DEF Sofar
  <2> QED BY <2>1, <2>2, SofarFacts DEF MadeInv
<1>7. CASE LoadFields
  <2>1. UNCHANGED <<made, seen, info, record, files, step>>
        /\ (got' = FromRecord(record) \/ got' = FromLog(Found, files))
    BY <1>7, LoadFacts
  <2>2. Sofar' = Sofar /\ Live' = Live
    BY <2>1 DEF Sofar, Live
  <2>3. \A f \in Fields : FromRecord(record)[f] \in Sofar
    BY SofarFacts DEF FromRecord, MadeInv
  <2>4. \A f \in Fields : FromLog(Found, files)[f] \in Sofar
    <3>1. CASE Found = "none"
      BY <3>1, SofarFacts DEF FromLog, Blank
    <3>2. CASE Found # "none"
      <4>1. files[Found] \in Seq(Line) /\ AllOf(files[Found], Sofar)
        BY <3>2, FoundExists DEF FileTypes, MadeInv
      <4>2. ParseLegacyLog(files[Found]) \in [Fields -> Sofar]
        BY <4>1, ParseTyped, SofarFacts
      <4> QED BY <3>2, <4>2 DEF FromLog
    <3> QED BY <3>1, <3>2
  <2> HIDE DEF Sofar
  <2> QED BY <2>1, <2>2, <2>3, <2>4 DEF MadeInv
<1>8. CASE LoadReason
  <2>1. UNCHANGED <<made, seen, info, record, files, step>>
        /\ got' = WithReason(got, Found, files)
    BY <1>8, ReasonFacts
  <2>2. Sofar' = Sofar /\ Live' = Live
    BY <2>1 DEF Sofar, Live
  <2> DEFINE line == IF Found = "none" THEN 0 ELSE ReasonLine(files[Found])
  <2>3. line \in Sofar
    <3>1. CASE Found = "none"
      BY <3>1, SofarFacts
    <3>2. CASE Found # "none"
      <4>1. files[Found] \in Seq(Line) /\ AllOf(files[Found], Sofar)
        BY <3>2, FoundExists DEF FileTypes, MadeInv
      <4> QED BY <3>2, <4>1, ReasonTyped, SofarFacts
    <3> QED BY <3>1, <3>2
  <2>4. got' = [got EXCEPT !["RebootReason"] = line]
    BY <2>1, Zenon DEF WithReason
  <2> HIDE DEF Sofar, line
  <2>5. \A f \in Fields : got'[f] \in Sofar
    BY <2>3, <2>4 DEF MadeInv, Fetched
  <2> QED BY <2>1, <2>2, <2>5 DEF MadeInv
<1>9. CASE OpenFields
  <2>1. UNCHANGED <<made, seen, info, record, got, step>>
        /\ (files' = files \/ files' = Put("log", <<>>))
    BY <1>9, OpenFacts
  <2>2. Sofar' = Sofar /\ Live' = Live
    BY <2>1 DEF Sofar, Live
  <2>3. AllOf(<<>>, Sofar)
    BY DEF AllOf
  <2>4. \A n \in DOMAIN files' : AllOf(files'[n], Sofar)
    <3>1. CASE files' = files
      BY <3>1 DEF MadeInv
    <3> QED BY <2>1, <2>3, <3>1, PutMade
  <2> HIDE DEF Sofar
  <2> QED BY <2>1, <2>2, <2>4 DEF MadeInv
<1>10. ASSUME fpc = "write", NEW j \in 1 .. Len(files[out]) + 1, WriteFields(j)
       PROVE  MadeInv'
  <2> DEFINE lines == [i \in 1 .. Len(Order) |-> Previous(Order[i], got[Order[i]])]
             rest  == SubSeq(files[out], j, Len(files[out]))
  <2>1. UNCHANGED <<made, info, record, got, step>> /\ files' = Put(out, lines \o rest)
        /\ seen' = seen \cup ({got["RebootInitiatedBy"]} \ {0})
    BY <1>10 DEF WriteFields, runs
  <2>2. Sofar' = Sofar /\ Live' = Live
    BY <2>1 DEF Sofar, Live
  <2>3. seen' \subseteq Sofar
    BY <2>1, FieldFacts DEF MadeInv
  <2>4. lines \in Seq(Line) /\ AllOf(lines, Sofar)
    <3>1. \A i \in 1 .. 5 : Previous(Order[i], got[Order[i]]) \in Line
      BY FieldFacts DEF Fetched, Previous, Line
    <3>2. \A i \in 1 .. 5 : Previous(Order[i], got[Order[i]]).of \in Sofar
      BY FieldFacts DEF MadeInv, Previous
    <3>3. lines \in Seq(Line) /\ Len(lines) = 5
      BY <3>1, FieldFacts
    <3>4. \A i \in 1 .. 5 : lines[i] = Previous(Order[i], got[Order[i]])
      BY FieldFacts
    <3> HIDE DEF lines
    <3> QED BY <3>2, <3>3, <3>4 DEF AllOf
  <2>5. rest \in Seq(Line) /\ AllOf(rest, Sofar)
    <3>1. files[out] \in Seq(Line) /\ AllOf(files[out], Sofar)
      BY <1>10 DEF StreamInv, FileTypes, MadeInv
    <3> QED BY <3>1, CutOf
  <2> HIDE DEF lines, rest
  <2>6. AllOf(lines \o rest, Sofar)
    BY <2>4, <2>5, JoinedOf
  <2>7. \A n \in DOMAIN files' : AllOf(files'[n], Sofar)
    BY <2>1, <2>6, PutMade
  <2> HIDE DEF Sofar
  <2> QED BY <2>1, <2>2, <2>3, <2>7 DEF MadeInv
<1>11. CASE UNCHANGED vars
  BY <1>11
     DEF vars, fetcher, runs, past, MadeInv, Sofar, Live
<1> QED
  BY <1>1, <1>2, <1>3, <1>4, <1>5, <1>6, <1>7, <1>8, <1>9, <1>10, <1>11, NextCases

\* Every step keeps the invariant on who is at work.
LEMMA LiveStep ==
    ASSUME IndInv, [Next]_vars
    PROVE  LiveInv'
<1> USE DEF IndInv
<1>1. CASE Request
  <2> USE RequestFacts
  <2>1. "concurrent" \notin windows' => \A r, q \in Live' : r = q
    BY <1>1
  <2>2. Quiet' /\ ~Booted' => Live' = {}
    BY <1>1 DEF LiveInv, Quiet, Booted
  <2>3. windows' \cap {"halfway", "unfetched"} = {}
    BY <1>1 DEF LiveInv
  <2> QED BY <2>1, <2>2, <2>3 DEF LiveInv
<1>2. ASSUME NEW r \in Requests, Working(r) PROVE LiveInv'
  BY <1>2, WorkFacts, ValueFacts
     DEF LiveInv, Live, Booted, Quiet
<1>3. ASSUME NEW c, NEW news, Shutdown(c, news) PROVE LiveInv'
  BY <1>3, BootFacts, ValueFacts
     DEF LiveInv, Live, Booted, Quiet
<1>4. CASE BackupLogs
  BY <1>4, BackupFacts, ValueFacts
     DEF BackupLogs, runs, past, LiveInv, Live, Booted, Quiet
<1>5. CASE RotateLogs
  BY <1>5, ValueFacts
     DEF RotateLogs, fetcher, runs, past, LiveInv, Live, Booted, Quiet
<1>6. CASE FetchRecord
  BY <1>6, ValueFacts
     DEF FetchRecord, runs, past, LiveInv, Live, Booted, Quiet
<1>7. CASE LoadFields
  BY <1>7, LoadFacts, ValueFacts
     DEF LiveInv, Live, Booted, Quiet
<1>8. CASE LoadReason
  BY <1>8, ReasonFacts, ValueFacts
     DEF LiveInv, Live, Booted, Quiet
<1>9. CASE OpenFields
  BY <1>9, OpenFacts, ValueFacts
     DEF LiveInv, Live, Booted, Quiet
<1>10. ASSUME fpc = "write", NEW j \in 1 .. Len(files[out]) + 1, WriteFields(j)
       PROVE  LiveInv'
  BY <1>10, ValueFacts
     DEF WriteFields, runs, LiveInv, Live, Booted, Quiet
<1>11. CASE UNCHANGED vars
  BY <1>11, ValueFacts
     DEF vars, fetcher, runs, past, LiveInv, Live, Booted, Quiet
<1> QED
  BY <1>1, <1>2, <1>3, <1>4, <1>5, <1>6, <1>7, <1>8, <1>9, <1>10, <1>11, NextCases

\* Every step keeps the invariant on where logs are.
LEMMA SlotStep ==
    ASSUME IndInv, [Next]_vars
    PROVE  SlotInv'
<1> USE DEF IndInv
<1>1. CASE Request
  BY <1>1, RequestFacts
     DEF SlotInv, HasLog, Quiet
<1>2. ASSUME NEW r \in Requests, Working(r) PROVE SlotInv'
  <2>1. UNCHANGED <<hdd, marker, backed, fpc, out>> /\ (Quiet' => Booted)
    BY <1>2, WorkFacts DEF Quiet
  <2>2. DOMAIN files' \in {DOMAIN files, DOMAIN files \cup {"log"}}
    <3>1. files' = files \/ \E text : files' = Put("log", text)
      BY <1>2 DEF Working, Truncate, AppendLine, WriteInfo, NoReboot, FallBack
    <3> QED BY <3>1, PutFacts
  <2>3. Booted => fpc \notin {"start", "load", "reason", "open"}
    BY DEF Booted
  <2> QED BY <2>1, <2>2, <2>3 DEF SlotInv
<1>3. ASSUME NEW c, NEW news, Shutdown(c, news) PROVE SlotInv'
  BY <1>3, BootFacts
     DEF SlotInv, HasLog, Quiet
<1>4. CASE BackupLogs
  <2>1. backed' /\ UNCHANGED <<hdd, fpc>> /\ (marker' <=> hdd) /\ ~backed
    BY <1>4, BackupFacts
  <2>2. CASE ~HasLog /\ DOMAIN files' = DOMAIN files \ {"marked"}
    BY <2>1, <2>2 DEF SlotInv, HasLog
  <2>3. CASE hdd /\ DOMAIN files' = (DOMAIN files \ {"log"}) \cup {"marked"}
    BY <2>1, <2>3 DEF SlotInv, HasLog
  <2>4. CASE ~hdd /\ DOMAIN files' = (DOMAIN files \ {"log"}) \cup {FreeSlot}
    BY <2>1, <2>4, FreeSlotFacts DEF SlotInv, HasLog
  <2>5. \/ ~HasLog /\ DOMAIN files' = DOMAIN files \ {"marked"}
        \/ hdd /\ DOMAIN files' = (DOMAIN files \ {"log"}) \cup {"marked"}
        \/ ~hdd /\ DOMAIN files' = (DOMAIN files \ {"log"}) \cup {FreeSlot}
    BY <1>4, BackupCases, MoveFacts
  <2> QED BY <2>2, <2>3, <2>4, <2>5
<1>5. CASE RotateLogs
  <2>1. UNCHANGED <<hdd, marker, backed, fpc, out>> /\ fpc \in {"done", "failed"}
        /\ DOMAIN files' = DOMAIN files \cap {"log"}
    BY <1>5 DEF RotateLogs, fetcher, Booted
  <2> QED BY <2>1 DEF SlotInv
<1>6. CASE FetchRecord
  BY <1>6
     DEF FetchRecord, runs, past, SlotInv, HasLog, Quiet
<1>7. CASE LoadFields
  BY <1>7, LoadFacts
     DEF SlotInv, HasLog, Quiet
<1>8. CASE LoadReason
  BY <1>8, ReasonFacts
     DEF SlotInv, HasLog, Quiet
<1>9. CASE OpenFields
  <2>1. UNCHANGED <<hdd, marker, backed>> /\ fpc' \in {"write", "failed"}
        /\ (fpc' = "write" => out' = "log")
    BY <1>9, OpenFacts
  <2>2. DOMAIN files' \in {DOMAIN files, DOMAIN files \cup {"log"}}
    BY <1>9, OpenFacts, PutFacts
  <2> QED BY <2>1, <2>2 DEF SlotInv
<1>10. ASSUME fpc = "write", NEW j \in 1 .. Len(files[out]) + 1, WriteFields(j)
       PROVE  SlotInv'
  <2>1. UNCHANGED <<hdd, marker, backed>> /\ fpc' = "done"
    BY <1>10 DEF WriteFields
  <2>2. PICK text : files' = Put(out, text)
    BY <1>10 DEF WriteFields
  <2>3. DOMAIN files' = DOMAIN files
    BY <1>10, <2>2, PutFacts DEF StreamInv
  <2> QED BY <2>1, <2>3 DEF SlotInv
<1>11. CASE UNCHANGED vars
  BY <1>11
     DEF vars, fetcher, runs, past, SlotInv, HasLog, Quiet
<1> QED
  BY <1>1, <1>2, <1>3, <1>4, <1>5, <1>6, <1>7, <1>8, <1>9, <1>10, <1>11, NextCases

\* Every step keeps the invariant on what is recorded.
LEMMA InfoStep ==
    ASSUME IndInv, [Next]_vars
    PROVE  InfoInv'
<1> USE DEF IndInv
<1>1. CASE Request
  <2>1. Live' = Live \cup {made'} /\ made' \notin Live /\ UNCHANGED <<info, fpc, backed>>
        /\ (\A q \in Live : step'[q] = step[q]) /\ windows \subseteq windows'
    BY <1>1, RequestFacts
  <2>2. step'[made'] # Deciding
    BY <1>1, RequestFacts, StepFacts
  <2>3. (Quiet' => Quiet) /\ (Booted' <=> Booted)
    BY <2>1 DEF Quiet, Booted
  <2> QED BY <2>1, <2>2, <2>3 DEF InfoInv
<1>2. ASSUME NEW r \in Requests, Working(r) PROVE InfoInv'
  <2>1. /\ r \in Live /\ Live' \subseteq Live /\ (Quiet => Booted)
        /\ UNCHANGED <<fpc, backed>>
        /\ windows \subseteq windows' \cup {"pending"}
        /\ \A q \in Live : q # r => step'[q] = step[q]
    BY <1>2, WorkFacts
  <2>2. (Quiet' => Quiet) /\ (Booted' <=> Booted)
    BY <2>1 DEF Quiet, Booted
  <2>3. step \in [Requests -> Truncating .. Over]
    BY DEF RequestTypes
  <2>4. \A q \in Live : q # r => q \in Live'
    BY <2>1 DEF Live
  <2>5. CASE Truncate(r) \/ AppendLine(r)
    <3>1. step[r] # Deciding /\ step'[r] # Deciding /\ info' = info /\ windows \subseteq windows'
      BY <2>3, <2>5, StepFacts, FieldFacts DEF Truncate, AppendLine, Note
    <3> QED BY <2>1, <2>2, <2>4, <3>1 DEF InfoInv
  <2>6. CASE WriteInfo(r)
    <3>1. step'[r] = Deciding /\ (info' = r \/ "infoLost" \in windows')
      BY <2>3, <2>6, StepFacts DEF WriteInfo, Note
    <3>2. r \in Live'
      BY <3>1, StepFacts DEF Live
    <3>3. "concurrent" \notin windows' => \A q \in Live' : q = r
      BY <2>1 DEF LiveInv
    <3> QED BY <2>1, <2>2, <3>1, <3>2, <3>3 DEF InfoInv
  <2>7. CASE NoReboot(r)
    <3>1. step'[r] = Over /\ info' = info /\ windows' = windows \cup {"pending"}
      BY <2>3, <2>7 DEF NoReboot, Note
    <3>2. r \notin Live'
      BY <3>1 DEF Live
    <3> QED BY <2>1, <2>2, <3>1, <3>2 DEF InfoInv
  <2>8. CASE FallBack(r)
    <3>1. step'[r] # Deciding /\ info' = info /\ windows \subseteq windows'
          /\ (step[r] = Deciding => "pending" \in windows')
      BY <2>3, <2>8, StepFacts DEF FallBack
    <3> QED BY <2>1, <2>2, <2>4, <3>1 DEF InfoInv
  <2> QED BY <1>2, <2>5, <2>6, <2>7, <2>8 DEF Working
<1>3. ASSUME NEW c, NEW news, Shutdown(c, news) PROVE InfoInv'
  BY <1>3, BootFacts
     DEF InfoInv, Quiet, Booted, Live
<1>4. CASE BackupLogs
  <2>1. UNCHANGED <<fpc, info, step>> /\ windows \subseteq windows' /\ (backed => backed')
    BY <1>4, BackupFacts
  <2>2. Live' = Live /\ (Quiet' => Quiet)
    BY <2>1 DEF Live, Quiet
  <2>3. CASE Booted
    BY <2>1, <2>2, <2>3 DEF InfoInv, Booted
  <2>4. CASE ~Booted
    <3>1. Quiet' /\ fpc # "start" => info' = 0 /\ Live' = {}
      BY <2>1, <2>2, <2>4 DEF InfoInv, LiveInv
    <3>2. fpc = "start" => fpc' = "start"
      BY <2>1
    <3> QED BY <3>1, <3>2 DEF InfoInv, Booted
  <2> QED BY <2>3, <2>4
<1>5. CASE RotateLogs
  BY <1>5
     DEF RotateLogs, fetcher, runs, past, InfoInv, Quiet, Booted, Live
<1>6. CASE FetchRecord
  BY <1>6
     DEF FetchRecord, runs, past, InfoInv, Quiet, Booted, Live
<1>7. CASE LoadFields
  BY <1>7, LoadFacts
     DEF InfoInv, Quiet, Booted, Live
<1>8. CASE LoadReason
  BY <1>8, ReasonFacts
     DEF InfoInv, Quiet, Booted, Live
<1>9. CASE OpenFields
  <2>1. UNCHANGED <<backed, info, step>> /\ windows \subseteq windows' /\ fpc = "open"
        /\ fpc' # "start"
    BY <1>9, OpenFacts
  <2>2. Live' = Live /\ (Quiet' => Quiet)
    BY <2>1 DEF Live, Quiet
  <2>3. CASE Booted
    BY <2>1, <2>2, <2>3 DEF InfoInv, Booted
  <2>4. CASE ~Booted
    <3>1. Quiet' /\ fpc # "start" => info' = 0 /\ Live' = {}
      BY <2>1, <2>2, <2>4 DEF InfoInv, LiveInv
    <3>2. fpc = "start" => fpc' = "start"
      BY <2>1
    <3> QED BY <3>1, <3>2 DEF InfoInv, Booted
  <2> QED BY <2>3, <2>4
<1>10. ASSUME fpc = "write", NEW j \in 1 .. Len(files[out]) + 1, WriteFields(j)
       PROVE  InfoInv'
  <2>1. UNCHANGED <<backed, info, step, windows>> /\ fpc = "write" /\ fpc' # "start"
    BY <1>10 DEF WriteFields, runs
  <2>2. Live' = Live /\ (Quiet' => Quiet)
    BY <2>1 DEF Live, Quiet
  <2>3. CASE Booted
    BY <2>1, <2>2, <2>3 DEF InfoInv, Booted
  <2>4. CASE ~Booted
    <3>1. Quiet' /\ fpc # "start" => info' = 0 /\ Live' = {}
      BY <2>1, <2>2, <2>4 DEF InfoInv, LiveInv
    <3>2. fpc = "start" => fpc' = "start"
      BY <2>1
    <3> QED BY <3>1, <3>2 DEF InfoInv, Booted
  <2> QED BY <2>3, <2>4
<1>11. CASE UNCHANGED vars
  BY <1>11
     DEF vars, fetcher, runs, past, InfoInv, Quiet, Booted, Live
<1> QED
  BY <1>1, <1>2, <1>3, <1>4, <1>5, <1>6, <1>7, <1>8, <1>9, <1>10, <1>11, NextCases

\* Every step keeps the invariant on what has been told.
LEMMA SeenStep ==
    ASSUME IndInv, [Next]_vars
    PROVE  SeenInv'
<1> USE DEF IndInv
<1>1. CASE Request
  <2>1. Live' = Live \cup {made'} /\ made' = made + 1 /\ windows \subseteq windows'
        /\ UNCHANGED <<info, fpc, record, carried, seen>>
    BY <1>1, RequestFacts
  <2>2. made' \notin seen
    BY <2>1, SofarFacts DEF MadeInv, Sofar
  <2> QED BY <2>1, <2>2 DEF SeenInv, Quiet
<1>2. ASSUME NEW r \in Requests, Working(r) PROVE SeenInv'
  <2>1. /\ r \in Live /\ Live' \subseteq Live /\ (Quiet' => Quiet)
        /\ UNCHANGED <<fpc, record, carried, seen>>
    BY <1>2, WorkFacts DEF Quiet
  <2>2. info' \in {info, r}
    BY <1>2 DEF Working, Truncate, AppendLine, WriteInfo, NoReboot, FallBack
  <2> QED BY <2>1, <2>2 DEF SeenInv
<1>3. ASSUME NEW c, NEW news, Shutdown(c, news) PROVE SeenInv'
  BY <1>3, BootFacts
     DEF SeenInv, Quiet, Booted, Live
<1>4. CASE BackupLogs
  BY <1>4, BackupFacts
     DEF BackupLogs, runs, past, SeenInv, Quiet, Booted, Live
<1>5. CASE RotateLogs
  BY <1>5
     DEF RotateLogs, fetcher, runs, past, SeenInv, Quiet, Booted, Live
<1>6. CASE FetchRecord
  <2>1. /\ record' = info /\ info' = 0 /\ fpc = "start" /\ fpc' # "start"
        /\ UNCHANGED <<windows, step, carried, seen>>
    BY <1>6 DEF FetchRecord, runs, past
  <2>2. 0 \notin seen
    BY ValueFacts DEF Causes
  <2>3. Live' = Live /\ Quiet' = Quiet
    BY <2>1 DEF Live, Quiet
  <2> QED BY <2>1, <2>2, <2>3 DEF SeenInv
<1>7. CASE LoadFields
  BY <1>7, LoadFacts
     DEF SeenInv, Quiet, Booted, Live
<1>8. CASE LoadReason
  BY <1>8, ReasonFacts
     DEF SeenInv, Quiet, Booted, Live
<1>9. CASE OpenFields
  BY <1>9, OpenFacts
     DEF SeenInv, Quiet, Booted, Live
<1>10. ASSUME fpc = "write", NEW j \in 1 .. Len(files[out]) + 1, WriteFields(j)
       PROVE  SeenInv'
  <2>1. /\ seen' = seen \cup ({got["RebootInitiatedBy"]} \ {0}) /\ fpc' = "done"
        /\ UNCHANGED <<info, windows, step, carried>>
    BY <1>10 DEF WriteFields, runs
  <2>2. 0 \notin seen'
    BY <2>1, ValueFacts DEF Causes
  <2>3. Live' = Live /\ Quiet' = Quiet /\ ~Booted
    BY <1>10, <2>1 DEF Live, Quiet, Booted
  <2>4. Quiet => Live = {} /\ info = 0
    BY <1>10, <2>3 DEF LiveInv, InfoInv
  <2> QED BY <2>1, <2>2, <2>3, <2>4 DEF SeenInv
<1>11. CASE UNCHANGED vars
  BY <1>11
     DEF vars, fetcher, runs, past, SeenInv, Quiet, Booted, Live
<1> QED
  BY <1>1, <1>2, <1>3, <1>4, <1>5, <1>6, <1>7, <1>8, <1>9, <1>10, <1>11, NextCases

(***************************************************************************)
(* The log of a request.                                                   *)
(***************************************************************************)
LEMMA AppendedBy ==
    ASSUME NEW s \in Seq(Line), NEW l \in Line, NEW R, By(s, R), ~l.prev, l.of \in R
    PROVE  By(s \o <<l>>, R)
<1> SUFFICES ASSUME NEW i \in 1 .. Len(s \o <<l>>)
             PROVE  ~(s \o <<l>>)[i].prev /\ (s \o <<l>>)[i].of \in R
  BY DEF By
<1>1. i \in 1 .. Len(s) + 1
  OBVIOUS
<1>2. CASE i \in 1 .. Len(s)
  <2>1. (s \o <<l>>)[i] = s[i]
    BY <1>2
  <2> QED BY <1>2, <2>1 DEF By
<1>3. CASE i = Len(s) + 1
  <2>1. (s \o <<l>>)[i] = l
    BY <1>3
  <2> QED BY <2>1
<1> QED BY <1>1, <1>2, <1>3

LEMMA AppendedField ==
    ASSUME NEW s \in Seq(Line), NEW l \in Line, NEW f, HasField(s, f) \/ l.field = f
    PROVE  HasField(s \o <<l>>, f)
<1>1. Len(s \o <<l>>) = Len(s) + 1 /\ Len(s) \in Nat
  OBVIOUS
<1>2. CASE HasField(s, f)
  <2>1. PICK i \in 1 .. Len(s) : s[i].field = f
    BY <1>2 DEF HasField
  <2>2. (s \o <<l>>)[i] = s[i] /\ i \in 1 .. Len(s) + 1
    OBVIOUS
  <2> QED BY <1>1, <2>1, <2>2 DEF HasField
<1>3. CASE l.field = f
  <2>1. (s \o <<l>>)[Len(s) + 1] = l /\ Len(s) + 1 \in 1 .. Len(s) + 1
    OBVIOUS
  <2> QED BY <1>1, <1>3, <2>1 DEF HasField
<1> QED BY <1>2, <1>3

\* A boot that gets through has no request and no record.
LEMMA FreshLog ==
    ASSUME IndInv, ~Booted, step' = step, windows \subseteq windows',
           info' \in {info, 0}, fpc = "start" => fpc' \notin {"done", "failed"}
    PROVE  LogInv'
<1> SUFFICES ASSUME Booted', Calm' PROVE Live' = {} /\ info' = 0
  BY DEF LogInv, WorkedOn
<1>1. Quiet /\ fpc # "start"
  BY DEF Calm, Quiet, Booted
<1>2. Live = {} /\ info = 0
  BY <1>1 DEF IndInv, LiveInv, InfoInv
<1> QED BY <1>2 DEF Live

\* Every step keeps the invariant on what the log holds.
LEMMA LogStep ==
    ASSUME IndInv, [Next]_vars
    PROVE  LogInv'
<1> USE DEF IndInv
<1>1. CASE Request
  <2> SUFFICES ASSUME Booted', Calm' PROVE
                 /\ WorkedOn'
                 /\ info' # 0 => HasLog' /\ By(files["log"], Unseen)'
                 /\ info' # 0 /\ "infoLost" \notin windows' => Whole(files["log"], info)'
    BY DEF LogInv
  <2>1. /\ UNCHANGED <<files, info, fpc, backed, seen>> /\ windows \subseteq windows'
        /\ Live = {} /\ Live' = {made'} /\ step'[made'] = Truncating
    BY <1>1, RequestFacts DEF Calm
  <2>2. Booted /\ Calm /\ Idle
    BY <2>1 DEF Booted, Calm, Idle
  <2>3. /\ info # 0 => HasLog /\ By(files["log"], Unseen)
        /\ info # 0 /\ "infoLost" \notin windows => Whole(files["log"], info)
    BY <2>2 DEF LogInv
  <2>4. WorkedOn'
    BY <2>1 DEF WorkedOn
  <2>5. HasLog' = HasLog /\ Unseen' = Unseen
    BY <2>1 DEF HasLog, Unseen
  <2> QED BY <2>1, <2>3, <2>4, <2>5
<1>2. ASSUME NEW r \in Requests, Working(r) PROVE LogInv'
  <2> SUFFICES ASSUME Booted', Calm' PROVE
                 /\ WorkedOn'
                 /\ info' # 0 => HasLog' /\ By(files["log"], Unseen)'
                 /\ info' # 0 /\ "infoLost" \notin windows' /\ Idle' =>
                      Whole(files["log"], info)'
    BY DEF LogInv
  <2>1. /\ r \in Live /\ Live' \subseteq Live /\ UNCHANGED <<fpc, backed, seen>>
        /\ windows \subseteq windows' \cup {"pending"}
    BY <1>2, WorkFacts
  <2>2. Booted /\ Calm /\ Quiet /\ \A q \in Live : q = r
    BY <2>1 DEF Booted, Calm, Quiet, LiveInv
  <2>3. /\ WorkedOn
        /\ info # 0 => HasLog /\ By(files["log"], Unseen)
        /\ info # 0 /\ "infoLost" \notin windows /\ Idle => Whole(files["log"], info)
    BY <2>2 DEF LogInv
  <2>4. r \in Unseen /\ Unseen' = Unseen
    BY <2>1, <2>2 DEF SeenInv, Unseen
  <2>5. step \in [Requests -> Truncating .. Over]
    BY DEF RequestTypes
  <2>6. step[r] # Truncating =>
          /\ HasLog /\ By(files["log"], {r})
          /\ \A k \in 1 .. 5 : k < step[r] => HasField(files["log"], Order[k])
    BY <2>1, <2>3, FieldFacts DEF WorkedOn
  <2>7. \A q \in Live' : q = r
    BY <2>1, <2>2
  <2>8. \A s : By(s, {r}) => By(s, Unseen)
    BY <2>4 DEF By
  <2>9. CASE Truncate(r)
    <3>1. files' = Put("log", <<>>) /\ info' = info /\ step'[r] = 1
      BY <2>5, <2>9, StepFacts DEF Truncate, Note, Calm
    <3>2. HasLog' /\ files'["log"] = <<>>
      BY <3>1, PutFacts DEF HasLog
    <3>3. \A R : By(<<>>, R)
      BY DEF By
    <3>4. WorkedOn'
      BY <2>7, <3>1, <3>2, <3>3, FieldFacts DEF WorkedOn
    <3>5. ~Idle'
      BY <2>1, <3>1, StepFacts DEF Idle, Live
    <3> QED BY <3>1, <3>2, <3>3, <3>4, <3>5
  <2>10. CASE AppendLine(r)
    <3> DEFINE k0   == step[r]
               line == Raw(Order[k0], r)
    <3>1. k0 \in 1 .. 5 /\ step'[r] = k0 + 1 /\ info' = info
      BY <2>5, <2>10, FieldFacts DEF AppendLine
    <3>2. HasLog /\ By(files["log"], {r})
          /\ \A k \in 1 .. 5 : k < k0 => HasField(files["log"], Order[k])
      BY <2>6, <3>1, StepFacts
    <3>3. files' = Put("log", files["log"] \o <<line>>)
      BY <2>10, <3>2 DEF AppendLine, Note, Calm, HasLog
    <3>4. HasLog' /\ files'["log"] = files["log"] \o <<line>>
      BY <3>3, PutFacts DEF HasLog
    <3>5. files["log"] \in Seq(Line)
      BY <3>2 DEF FileTypes, HasLog
    <3>6. line \in Line /\ ~line.prev /\ line.of = r /\ line.field = Order[k0]
      BY <3>1, FieldFacts, ValueFacts DEF Raw, Line
    <3> HIDE DEF line, k0
    <3>7. By(files'["log"], {r})
      BY <3>2, <3>4, <3>5, <3>6, AppendedBy
    <3>8. ASSUME NEW k \in 1 .. 5, k < k0 + 1 PROVE HasField(files'["log"], Order[k])
      <4>1. k < k0 \/ k = k0
        BY <3>1, <3>8
      <4>2. HasField(files["log"], Order[k]) \/ line.field = Order[k]
        BY <3>2, <3>6, <4>1
      <4> QED BY <3>4, <3>5, <3>6, <4>2, AppendedField
    <3>9. WorkedOn'
      <4>1. \A k \in 1 .. Len(Order) : k < step'[r] => HasField(files'["log"], Order[k])
        BY <3>1, <3>8, FieldFacts
      <4>2. HasLog' /\ By(files'["log"], {r})
        BY <3>4, <3>7
      <4> QED BY <2>7, <4>1, <4>2 DEF WorkedOn
    <3>10. ~Idle'
      BY <2>1, <3>1, StepFacts DEF Idle, Live
    <3> QED BY <2>4, <2>8, <3>4, <3>7, <3>9, <3>10
  <2>11. CASE WriteInfo(r)
    <3>1. step[r] = 6 /\ step'[r] = 7 /\ files' = files
      BY <2>5, <2>11, StepFacts DEF WriteInfo
    <3>2. HasLog /\ By(files["log"], {r})
          /\ \A k \in 1 .. 5 : HasField(files["log"], Order[k])
      BY <2>6, <3>1, StepFacts
    <3>3. HasLog' /\ files'["log"] = files["log"]
      BY <3>1, <3>2 DEF HasLog
    <3>4. WorkedOn'
      BY <2>7, <3>2, <3>3, FieldFacts DEF WorkedOn
    <3>5. Whole(files["log"], r)
      BY <3>2, FieldFacts DEF Whole
    <3>6. info' = r \/ "infoLost" \in windows'
      BY <2>11 DEF WriteInfo, Note
    <3> QED BY <2>4, <2>8, <3>2, <3>3, <3>4, <3>5, <3>6
  <2>12. CASE NoReboot(r)
    <3>1. step[r] = Deciding /\ step'[r] = Over /\ UNCHANGED <<files, info>>
      BY <2>5, <2>12 DEF NoReboot
    <3>2. Live' = {}
      BY <2>7, <3>1 DEF Live
    <3>3. WorkedOn' /\ Idle /\ HasLog' = HasLog
      BY <2>2, <3>1, <3>2 DEF WorkedOn, Idle, HasLog
    <3> QED BY <2>1, <2>3, <2>4, <3>1, <3>3
  <2>13. CASE FallBack(r)
    <3>0. step[r] # Truncating
      <4>1. SUFFICES ASSUME step[r] = Truncating PROVE "badLog" \in windows'
        BY DEF Calm
      <4>2. (CASE step[r] = Truncating -> {"badLog"} [] step[r] = Deciding -> {"pending"}
               [] OTHER -> {}) = {"badLog"}
        BY <4>1, StepFacts
      <4> QED BY <2>13, <4>2 DEF FallBack
    <3>1. step[r] # Truncating /\ step'[r] = 1 /\ UNCHANGED <<files, info>>
      BY <2>5, <2>13, <3>0 DEF FallBack
    <3>2. HasLog' = HasLog /\ files'["log"] = files["log"]
      BY <3>1 DEF HasLog
    <3>3. WorkedOn'
      BY <2>6, <2>7, <3>1, <3>2, FieldFacts DEF WorkedOn
    <3>4. ~Idle'
      BY <2>1, <3>1, StepFacts DEF Idle, Live
    <3> QED BY <2>3, <2>4, <3>1, <3>2, <3>3, <3>4
  <2> QED BY <1>2, <2>9, <2>10, <2>11, <2>12, <2>13 DEF Working
<1>3. ASSUME NEW c, NEW news, Shutdown(c, news) PROVE LogInv'
  <2>1. ~Booted'
    BY <1>3, BootFacts DEF Booted
  <2> QED BY <2>1 DEF LogInv
<1>4. CASE BackupLogs
  <2>1. ~Booted /\ step' = step /\ windows \subseteq windows' /\ info' \in {info, 0}
        /\ (fpc = "start" => fpc' \notin {"done", "failed"})
    BY <1>4, BackupFacts DEF Booted
  <2> QED BY <2>1, FreshLog
<1>5. CASE RotateLogs
  <2>1. /\ UNCHANGED <<fpc, backed, windows, info, step, seen>>
        /\ files' = [f \in DOMAIN files \cap {"log"} |-> files[f]]
    BY <1>5 DEF RotateLogs, fetcher, runs, past
  <2>2. HasLog' = HasLog /\ (HasLog => files'["log"] = files["log"])
    BY <2>1 DEF HasLog
  <2>3. Live' = Live /\ Unseen' = Unseen /\ Booted' = Booted /\ Calm' = Calm
    BY <2>1 DEF Live, Unseen, Booted, Calm
  <2>4. Idle' = Idle /\ (WorkedOn => WorkedOn')
    BY <2>1, <2>2, <2>3 DEF Idle, WorkedOn
  <2> QED BY <2>1, <2>2, <2>3, <2>4 DEF LogInv
<1>6. CASE FetchRecord
  <2>1. ~Booted /\ step' = step /\ windows \subseteq windows' /\ info' \in {info, 0}
        /\ (fpc = "start" => fpc' \notin {"done", "failed"})
    BY <1>6 DEF FetchRecord, runs, Booted
  <2> QED BY <2>1, FreshLog
<1>7. CASE LoadFields
  <2>1. ~Booted /\ step' = step /\ windows \subseteq windows' /\ info' \in {info, 0}
        /\ (fpc = "start" => fpc' \notin {"done", "failed"})
    BY <1>7, LoadFacts DEF Booted
  <2> QED BY <2>1, FreshLog
<1>8. CASE LoadReason
  <2>1. ~Booted /\ step' = step /\ windows \subseteq windows' /\ info' \in {info, 0}
        /\ (fpc = "start" => fpc' \notin {"done", "failed"})
    BY <1>8, ReasonFacts DEF Booted
  <2> QED BY <2>1, FreshLog
<1>9. CASE OpenFields
  <2>1. ~Booted /\ step' = step /\ windows \subseteq windows' /\ info' \in {info, 0}
        /\ (fpc = "start" => fpc' \notin {"done", "failed"})
    BY <1>9, OpenFacts DEF Booted
  <2> QED BY <2>1, FreshLog
<1>10. ASSUME fpc = "write", NEW j \in 1 .. Len(files[out]) + 1, WriteFields(j)
       PROVE  LogInv'
  <2>1. ~Booted /\ step' = step /\ windows \subseteq windows' /\ info' \in {info, 0}
        /\ (fpc = "start" => fpc' \notin {"done", "failed"})
    BY <1>10 DEF WriteFields, runs, Booted
  <2> QED BY <2>1, FreshLog
<1>11. CASE UNCHANGED vars
  <2>1. UNCHANGED <<fpc, backed, windows, info, step, seen, files>>
    BY <1>11 DEF vars, fetcher, runs, past
  <2>2. HasLog' = HasLog /\ Live' = Live /\ Unseen' = Unseen /\ Booted' = Booted /\ Calm' = Calm
    BY <2>1 DEF HasLog, Live, Unseen, Booted, Calm
  <2>3. Idle' = Idle /\ WorkedOn' = WorkedOn
    BY <2>1, <2>2 DEF Idle, WorkedOn
  <2> QED BY <2>1, <2>2, <2>3 DEF LogInv
<1> QED
  BY <1>1, <1>2, <1>3, <1>4, <1>5, <1>6, <1>7, <1>8, <1>9, <1>10, <1>11, NextCases

(***************************************************************************)
(* From the record and its log to what the fetcher tells.                  *)
(***************************************************************************)
\* Where find_previous_reboot_log finds the log after a backup.
LEMMA FoundAfter ==
    /\ marker' /\ "marked" \in DOMAIN files' => Found' = "marked"
    /\ ~marker' /\ "flat" \in DOMAIN files'
         /\ DOMAIN files' \cap {"bak1", "bak2", "bak3"} = {} => Found' = "flat"
    /\ ~marker' /\ {"flat", "bak1"} \subseteq DOMAIN files' => Found' = "bak1"
<1> DEFINE baks == {i \in 1 .. Len(Baks) : Baks[i] \in DOMAIN files'}
<1>1. Len(Baks) = 3 /\ Baks[1] = "bak1" /\ Baks[2] = "bak2" /\ Baks[3] = "bak3"
  BY DEF Baks
<1>2. Found' = IF marker' /\ "marked" \in DOMAIN files' THEN "marked"
               ELSE IF "flat" \notin DOMAIN files' THEN "none"
               ELSE IF baks = {} THEN "flat" ELSE Baks[Min(baks)]
  BY Zenon DEF Found, FindPreviousLog
<1>3. \A i \in 1..3 : i \in Nat /\ (i = 1 \/ i = 2 \/ i = 3)
  OBVIOUS
<1>4. \A i \in baks : i \in 1..3 /\ Baks[i] \in DOMAIN files'
  BY <1>1
<1>5. "bak1" \in DOMAIN files' => 1 \in baks
  BY <1>1
<1> HIDE DEF baks
<1>6. DOMAIN files' \cap {"bak1", "bak2", "bak3"} = {} => baks = {}
  BY <1>1, <1>3, <1>4
<1>7. "bak1" \in DOMAIN files' => baks # {} /\ Min(baks) = 1
  <2> SUFFICES ASSUME "bak1" \in DOMAIN files' PROVE Min(baks) = 1
    BY <1>5
  <2>1. baks \in SUBSET Nat /\ baks # {}
    BY <1>3, <1>4, <1>5
  <2>2. Min(baks) \in baks /\ Min(baks) <= 1
    BY <1>5, <2>1, SmallestPlace
  <2>3. \A i \in 1..3 : i <= 1 => i = 1
    OBVIOUS
  <2> QED BY <1>4, <2>2, <2>3
<1> QED BY <1>1, <1>2, <1>6, <1>7

LEMMA KeptSame ==
    ASSUME UNCHANGED <<files, marker>>
    PROVE  Kept' = Kept /\ HasLog' = HasLog
BY DEF Kept, HasLog, Found

\* backup_logs takes the log to where the fetcher will find it.
LEMMA BackupKeeps ==
    ASSUME IndInv, BackupLogs, "fast" \notin windows'
    PROVE  Kept' = Kept \/ (~HasLog /\ Kept' = <<>>)
<1> USE DEF IndInv
<1>1. /\ hdd => DOMAIN files \subseteq {"log", "marked"}
      /\ ~hdd => DOMAIN files \subseteq {"log", "flat", "bak1", "bak2", "bak3"} /\ ~marker
      /\ DOMAIN files \cap {"bak1", "bak2", "bak3"} # {} => "flat" \in DOMAIN files
  BY DEF SlotInv
<1>2. marker' <=> hdd
  BY BackupFacts
<1>3. CASE /\ ~HasLog /\ DOMAIN files' = DOMAIN files \ {"marked"}
           /\ \A f \in DOMAIN files' : files'[f] = files[f]
  <2>1. ~HasLog'
    BY <1>3 DEF HasLog
  <2>2. CASE hdd
    <3>1. "flat" \notin DOMAIN files' /\ "marked" \notin DOMAIN files'
      BY <1>1, <1>3, <2>2
    <3>2. Found' = "none"
      BY <3>1, Zenon DEF Found, FindPreviousLog
    <3> QED BY <1>3, <2>1, <3>2 DEF Kept
  <2>3. CASE ~hdd
    <3>1. DOMAIN files' = DOMAIN files
      BY <1>1, <1>3, <2>3
    <3>2. marker' = marker
      <4>1. marker' = hdd
        BY DEF BackupLogs
      <4> QED BY <1>1, <2>3, <4>1 DEF FlagTypes
    <3>3. Found' = Found
      BY <3>1, <3>2, Zenon DEF Found
    <3>4. Found # "none" => files'[Found] = files[Found]
      BY <1>3, <3>1, FoundExists
    <3> QED BY <1>3, <2>1, <3>3, <3>4 DEF Kept
  <2> QED BY <2>2, <2>3
<1>4. CASE HasLog /\ hdd /\ MoveTo("marked")
  <2>1. DOMAIN files' = (DOMAIN files \ {"log"}) \cup {"marked"} /\ files'["marked"] = files["log"]
    BY <1>4, MoveFacts
  <2>2. Found' = "marked" /\ ~HasLog'
    BY <1>2, <1>4, <2>1, FoundAfter DEF HasLog
  <2> QED BY <1>4, <2>1, <2>2 DEF Kept
<1>5. CASE HasLog /\ ~hdd /\ MoveTo(FreeSlot) /\ FreeSlot \notin {"bak2", "bak3"}
  <2>1. /\ DOMAIN files' = (DOMAIN files \ {"log"}) \cup {FreeSlot}
        /\ files'[FreeSlot] = files["log"]
    BY <1>5, MoveFacts
  <2>2. FreeSlot = "flat" \/ (FreeSlot = "bak1" /\ "flat" \in DOMAIN files)
    BY <1>5, FreeSlotFacts
  <2>3. ~HasLog' /\ ~marker'
    BY <1>2, <1>5, <2>1, <2>2 DEF HasLog
  <2>4. CASE FreeSlot = "flat"
    <3>1. "flat" \in DOMAIN files' /\ DOMAIN files' \cap {"bak1", "bak2", "bak3"} = {}
      BY <1>1, <2>1, <2>4, FreeSlotFacts
    <3>2. Found' = "flat"
      BY <2>3, <3>1, FoundAfter
    <3> QED BY <1>5, <2>1, <2>3, <2>4, <3>2 DEF Kept
  <2>5. CASE FreeSlot = "bak1" /\ "flat" \in DOMAIN files
    <3>1. {"flat", "bak1"} \subseteq DOMAIN files'
      BY <2>1, <2>5
    <3>2. Found' = "bak1"
      BY <2>3, <3>1, FoundAfter
    <3> QED BY <1>5, <2>1, <2>3, <2>5, <3>2 DEF Kept
  <2> QED BY <2>2, <2>4, <2>5
<1> QED BY <1>3, <1>4, <1>5, BackupCases

\* Every step keeps the invariant on the log that belongs to the record.
LEMMA KeptStep ==
    ASSUME IndInv, [Next]_vars
    PROVE  KeptInv'
<1> USE DEF IndInv
<1>1. CASE Request
  <2>1. ~Before' \/ "raced" \in windows'
    BY <1>1, RequestFacts DEF LiveInv, Quiet, Booted, Before
  <2> QED BY <2>1 DEF KeptInv
<1>2. ASSUME NEW r \in Requests, Working(r) PROVE KeptInv'
  <2>1. ~Before' \/ "raced" \in windows'
    BY <1>2, WorkFacts DEF Quiet, Booted, Before
  <2> QED BY <2>1 DEF KeptInv
<1>3. ASSUME NEW c, NEW news, Shutdown(c, news) PROVE KeptInv'
  <2> SUFFICES ASSUME info # 0
               PROVE  /\ NewLog' => By(Kept, Unseen)'
                      /\ WholeLog' => Whole(Kept, info)' /\ HasLog'
    BY <1>3, BootFacts DEF KeptInv, Awaited, Before
  <2>1. Kept' = Kept /\ HasLog' = HasLog /\ Unseen' = Unseen /\ info' = info
    BY <1>3, BootFacts, KeptSame DEF Unseen
  <2>2. carried' = windows \cup news \cup (IF Booted THEN {} ELSE carried \cup {"unfetched"})
    BY <1>3, BootFacts
  <2>3. ASSUME NewLog' PROVE By(Kept, Unseen)
    <3>1. Calm /\ Quiet /\ windows \cap {"raced", "fast"} = {}
      BY <2>2, <2>3 DEF NewLog, Calm, Quiet
    <3>2. CASE Booted
      BY <3>1, <3>2 DEF LogInv, Kept
    <3>3. CASE ~Booted
      <4>1. fpc = "start"
        BY <3>1, <3>3 DEF InfoInv
      <4>2. NewLog
        BY <2>2, <2>3, <3>3 DEF NewLog
      <4> QED BY <3>1, <4>1, <4>2 DEF KeptInv, Before, Awaited
    <3> QED BY <3>2, <3>3
  <2>4. ASSUME WholeLog' PROVE Whole(Kept, info) /\ HasLog
    <3>1. Booted /\ Calm /\ "infoLost" \notin windows /\ "halfway" \notin news
          /\ "concurrent" \notin windows
      BY <2>2, <2>4 DEF WholeLog, Calm
    <3>2. ASSUME NEW q \in Live PROVE step[q] = Deciding
      <4>1. CASE c \in Live /\ step[c] = Deciding
        BY <3>1, <3>2, <4>1 DEF LiveInv
      <4>2. CASE (\E r \in Live : step[r] < Deciding) => "halfway" \in news
        <5>1. ~(step[q] < Deciding)
          BY <3>1, <3>2, <4>2
        <5>2. step[q] \in Truncating .. Over /\ step[q] # Over
          BY <3>2 DEF Live, RequestTypes
        <5> QED BY <5>1, <5>2, StepFacts
      <4> QED BY <1>3, <4>1, <4>2 DEF Shutdown
    <3>3. Idle
      BY <3>2 DEF Idle
    <3> QED BY <3>1, <3>3 DEF LogInv, Kept
  <2> QED BY <2>1, <2>3, <2>4
<1>4. CASE BackupLogs
  <2> SUFFICES ASSUME Before, Awaited # 0, windows' \cap {"raced", "fast"} = {}
               PROVE  /\ NewLog => By(Kept, Unseen)'
                      /\ WholeLog => Whole(Kept, Awaited)'
    <3>1. UNCHANGED <<fpc, info, record, carried>> /\ backed'
      BY <1>4, BackupFacts
    <3>2. Before' = Before /\ Awaited' = Awaited /\ NewLog' = NewLog /\ WholeLog' = WholeLog
      BY <3>1 DEF Before, Awaited, NewLog, WholeLog
    <3> QED BY <3>1, <3>2 DEF KeptInv
  <2>1. /\ UNCHANGED <<fpc, info, record, carried, seen>> /\ ~backed
        /\ windows \subseteq windows'
    BY <1>4, BackupFacts
  <2>2. Awaited' = Awaited /\ Unseen' = Unseen
    BY <2>1 DEF Awaited, Unseen
  <2>3. /\ NewLog => By(Kept, Unseen)
        /\ WholeLog => Whole(Kept, Awaited) /\ HasLog
    BY <2>1 DEF KeptInv
  <2>4. Kept' = Kept \/ (~HasLog /\ Kept' = <<>>)
    BY <1>4, BackupKeeps
  <2>5. \A R : By(<<>>, R)
    BY DEF By
  <2> QED BY <2>2, <2>3, <2>4, <2>5
<1>5. CASE RotateLogs
  <2>1. ~Before' \/ "raced" \in windows'
    BY <1>5 DEF RotateLogs, fetcher, Booted, Before
  <2> QED BY <2>1 DEF KeptInv
<1>6. CASE FetchRecord
  <2>1. /\ UNCHANGED <<files, marker, backed, carried, seen>> /\ windows \subseteq windows'
        /\ fpc = "start" /\ record' = info /\ fpc' # "start"
    BY <1>6 DEF FetchRecord, past
  <2>2. Kept' = Kept /\ HasLog' = HasLog /\ Unseen' = Unseen
    BY <2>1, KeptSame DEF Unseen
  <2>3. NewLog' = NewLog /\ WholeLog' = WholeLog
    BY <2>1 DEF NewLog, WholeLog
  <2>4. Before' => Before /\ Awaited' = Awaited
    BY <2>1 DEF Before, Awaited
  <2> QED BY <2>1, <2>2, <2>3, <2>4 DEF KeptInv
<1>7. CASE LoadFields
  <2>1. /\ UNCHANGED <<files, marker, backed, carried, seen>> /\ windows \subseteq windows'
        /\ fpc = "load" /\ record' = record /\ fpc' = "reason"
    BY <1>7, LoadFacts
  <2>2. Kept' = Kept /\ HasLog' = HasLog /\ Unseen' = Unseen
    BY <2>1, KeptSame DEF Unseen
  <2>3. NewLog' = NewLog /\ WholeLog' = WholeLog
    BY <2>1 DEF NewLog, WholeLog
  <2>4. Before' => Before /\ Awaited' = Awaited
    BY <2>1 DEF Before, Awaited
  <2> QED BY <2>1, <2>2, <2>3, <2>4 DEF KeptInv
<1>8. CASE LoadReason
  <2>1. ~Before' \/ "raced" \in windows'
    BY <1>8, ReasonFacts DEF Before
  <2> QED BY <2>1 DEF KeptInv
<1>9. CASE OpenFields
  <2>1. ~Before' \/ "raced" \in windows'
    BY <1>9, OpenFacts DEF Before
  <2> QED BY <2>1 DEF KeptInv
<1>10. ASSUME fpc = "write", NEW j \in 1 .. Len(files[out]) + 1, WriteFields(j)
       PROVE  KeptInv'
  <2>1. ~Before' \/ "raced" \in windows'
    BY <1>10 DEF WriteFields, Before
  <2> QED BY <2>1 DEF KeptInv
<1>11. CASE UNCHANGED vars
  <2>1. /\ UNCHANGED <<files, marker, backed, carried, seen>> /\ windows \subseteq windows'
        /\ UNCHANGED <<fpc, info, record>>
    BY <1>11 DEF vars, fetcher, past
  <2>2. Kept' = Kept /\ HasLog' = HasLog /\ Unseen' = Unseen
    BY <2>1, KeptSame DEF Unseen
  <2>3. NewLog' = NewLog /\ WholeLog' = WholeLog
    BY <2>1 DEF NewLog, WholeLog
  <2>4. Before' => Before /\ Awaited' = Awaited
    BY <2>1 DEF Before, Awaited
  <2> QED BY <2>1, <2>2, <2>3, <2>4 DEF KeptInv
<1> QED
  BY <1>1, <1>2, <1>3, <1>4, <1>5, <1>6, <1>7, <1>8, <1>9, <1>10, <1>11, NextCases

\* Every step keeps the invariant on what the boot is about.
LEMMA CauseStep ==
    ASSUME IndInv, [Next]_vars
    PROVE  CauseInv'
<1> USE DEF IndInv
<1>1. CASE Request
  BY <1>1, RequestFacts
     DEF CauseInv, Quiet, OneCause, Before, Awaited
<1>2. ASSUME NEW r \in Requests, Working(r) PROVE CauseInv'
  <2>1. (Quiet => Booted) /\ (Quiet' => Quiet) /\ UNCHANGED <<fpc, cause, carried>>
    BY <1>2, WorkFacts DEF Quiet
  <2>2. Quiet => ~Before'
    BY <2>1 DEF Booted, Before
  <2> QED BY <2>1, <2>2 DEF CauseInv, OneCause
<1>3. ASSUME NEW c, NEW news, Shutdown(c, news) PROVE CauseInv'
  <2> SUFFICES ASSUME OneCause' PROVE info = c /\ ("halfway" \in carried' => c = 0)
    BY <1>3, BootFacts DEF CauseInv, Awaited
  <2>1. carried' = windows \cup news \cup (IF Booted THEN {} ELSE carried \cup {"unfetched"})
    BY <1>3, BootFacts
  <2>2. Booted /\ Quiet /\ windows \cap {"concurrent", "pending", "infoLost"} = {}
        /\ "pending" \notin news
    BY <2>1 DEF OneCause, Quiet
  <2>3. "halfway" \in carried' => "halfway" \in news
    BY <2>1, <2>2 DEF LiveInv
  <2>4. CASE c \in Live /\ step[c] = Deciding /\ news = {}
    BY <2>2, <2>3, <2>4 DEF InfoInv
  <2>5. CASE c = 0 /\ ((\E r \in Live : step[r] = Deciding) => "pending" \in news)
    BY <2>2, <2>5 DEF InfoInv
  <2> QED BY <1>3, <2>4, <2>5 DEF Shutdown
<1>4. CASE BackupLogs
  BY <1>4, BackupFacts
     DEF BackupLogs, runs, past, CauseInv, Quiet, OneCause, Before, Awaited
<1>5. CASE RotateLogs
  BY <1>5
     DEF RotateLogs, fetcher, runs, past, CauseInv, Quiet, OneCause, Before, Awaited
<1>6. CASE FetchRecord
  BY <1>6
     DEF FetchRecord, runs, past, CauseInv, Quiet, OneCause, Before, Awaited
<1>7. CASE LoadFields
  BY <1>7, LoadFacts
     DEF CauseInv, Quiet, OneCause, Before, Awaited
<1>8. CASE LoadReason
  BY <1>8, ReasonFacts
     DEF CauseInv, Quiet, OneCause, Before, Awaited
<1>9. CASE OpenFields
  BY <1>9, OpenFacts
     DEF CauseInv, Quiet, OneCause, Before, Awaited
<1>10. ASSUME fpc = "write", NEW j \in 1 .. Len(files[out]) + 1, WriteFields(j)
       PROVE  CauseInv'
  BY <1>10
     DEF WriteFields, runs, CauseInv, Quiet, OneCause, Before, Awaited
<1>11. CASE UNCHANGED vars
  BY <1>11
     DEF vars, fetcher, runs, past, CauseInv, Quiet, OneCause, Before, Awaited
<1> QED
  BY <1>1, <1>2, <1>3, <1>4, <1>5, <1>6, <1>7, <1>8, <1>9, <1>10, <1>11, NextCases

LEMMA GotFrame ==
    ASSUME IndInv, UNCHANGED <<fpc, record, got, unread, cause, carried, seen, again>>,
           windows \subseteq windows' \cup {"pending"}
    PROVE  GotInv'
<1>1. (Quiet' => Quiet) /\ (InOrder' => InOrder)
  BY DEF Quiet, InOrder
<1>2. OneCause' = OneCause /\ NewLog' = NewLog /\ WholeLog' = WholeLog
  BY DEF OneCause, NewLog, WholeLog
<1> QED BY <1>1, <1>2 DEF IndInv, GotInv

\* What stands in for the record, when the fetcher comes after backup_logs.
LEMMA KeptRead ==
    ASSUME IndInv, fpc \in {"load", "reason"}, backed, Quiet, InOrder
    PROVE  /\ record \in Requests
           /\ WholeLog => /\ Found # "none" /\ files[Found] \in Seq(Line)
                          /\ Whole(files[Found], record)
           /\ NewLog => Found = "none" \/ (/\ files[Found] \in Seq(Line)
                                           /\ By(files[Found], Unseen))
<1> USE DEF IndInv
<1>1. record \in Requests
  BY ValueFacts DEF GotInv, Fetched
<1>2. ~HasLog
  BY DEF SlotInv
<1>3. record # 0 /\ Awaited = record /\ Before /\ windows \cap {"raced", "fast"} = {}
  BY DEF GotInv, Awaited, Before, Quiet, InOrder
<1>4. Kept = IF Found = "none" THEN <<>> ELSE files[Found]
  BY <1>2 DEF Kept
<1>5. Found # "none" => files[Found] \in Seq(Line)
  BY FoundExists DEF FileTypes
<1>6. ~Whole(<<>>, record)
  <2>1. ~HasField(<<>>, "RebootReason")
    BY DEF HasField
  <2>2. "RebootReason" \in Fields
    BY FieldFacts
  <2> QED BY <2>1, <2>2 DEF Whole
<1>7. (NewLog => By(Kept, Unseen)) /\ (WholeLog => Whole(Kept, record))
  BY <1>3 DEF KeptInv
<1> QED BY <1>1, <1>4, <1>5, <1>6, <1>7

\* Every step keeps the invariant on what the fetcher has found.
LEMMA GotStep ==
    ASSUME IndInv, [Next]_vars
    PROVE  GotInv'
<1> USE DEF IndInv
<1>1. CASE Request
  <2>1. /\ UNCHANGED <<fpc, record, got, unread, cause, carried, seen, again>>
        /\ windows \subseteq windows' \cup {"pending"}
    BY <1>1, RequestFacts
  <2> QED BY <2>1, GotFrame
<1>2. ASSUME NEW r \in Requests, Working(r) PROVE GotInv'
  <2>1. /\ UNCHANGED <<fpc, record, got, unread, cause, carried, seen, again>>
        /\ windows \subseteq windows' \cup {"pending"}
    BY <1>2, WorkFacts
  <2> QED BY <2>1, GotFrame
<1>3. ASSUME NEW c, NEW news, Shutdown(c, news) PROVE GotInv'
  <2>1. fpc' = "start" /\ got' = Blank /\ ~unread'
    BY <1>3, BootFacts
  <2> QED BY <2>1 DEF GotInv
<1>4. CASE BackupLogs
  <2>1. /\ UNCHANGED <<fpc, record, got, unread, cause, carried, seen, again>>
        /\ windows \subseteq windows' \cup {"pending"}
    BY <1>4, BackupFacts
  <2> QED BY <2>1, GotFrame
<1>5. CASE RotateLogs
  <2>1. /\ UNCHANGED <<fpc, record, got, unread, cause, carried, seen, again>>
        /\ windows \subseteq windows' \cup {"pending"}
    BY <1>5 DEF RotateLogs, fetcher, past
  <2> QED BY <2>1, GotFrame
<1>6. CASE FetchRecord
  <2>1. /\ fpc = "start" /\ fpc' = (IF info = 0 THEN "open" ELSE "load") /\ record' = info
        /\ UNCHANGED <<got, unread, cause, carried, seen, again, windows>>
    BY <1>6 DEF FetchRecord, past
  <2>2. got = Blank /\ ~unread
    BY <2>1 DEF GotInv
  <2>3. CASE info # 0
    BY <2>1, <2>2, <2>3 DEF GotInv
  <2>4. CASE info = 0
    <3>1. \A f \in Fields : got'[f] = 0
      BY <2>1, <2>2 DEF Blank
    <3>2. Quiet' /\ OneCause' => cause' = 0
      BY <2>1, <2>4 DEF CauseInv, Quiet, OneCause, Before, Awaited
    <3>3. 0 \notin seen'
      BY <2>1, ValueFacts DEF Causes
    <3>4. fpc' = "open"
      BY <2>1, <2>4
    <3>5. Record \subseteq Fields /\ "RebootInitiatedBy" \in Fields
      BY FieldFacts
    <3> QED BY <3>1, <3>2, <3>3, <3>4, <3>5 DEF GotInv
  <2> QED BY <2>3, <2>4
<1>7. CASE LoadFields
  <2>1. /\ fpc = "load" /\ fpc' = "reason" /\ windows \subseteq windows'
        /\ ~backed => "early" \in windows'
        /\ UNCHANGED <<record, cause, carried, seen, again>>
    BY <1>7, LoadFacts
  <2>2. record # 0 /\ ~unread
    BY <2>1 DEF GotInv
  <2>3. /\ OneCause' = OneCause /\ NewLog' = NewLog /\ WholeLog' = WholeLog
        /\ (Quiet' => Quiet) /\ (InOrder' => InOrder /\ backed)
    BY <2>1 DEF OneCause, NewLog, WholeLog, Quiet, InOrder
  <2>4. Quiet /\ OneCause => record = cause /\ "halfway" \notin carried
    BY <2>1, <2>2 DEF CauseInv, Before, Awaited
  <2>5. Record \subseteq Fields /\ "RebootInitiatedBy" \in Record
    BY FieldFacts
  <2>6. SUFFICES ASSUME Quiet
        PROVE  /\ OneCause /\ (unread' => carried \cap {"badLog", "fast"} = {} /\ InOrder')
                    => \A f \in Record : got'[f] = cause
               /\ WholeLog /\ InOrder' => \A f \in Record : got'[f] = record
               /\ "raced" \notin carried /\ (unread' => NewLog /\ InOrder')
                    => got'["RebootInitiatedBy"] \notin seen
    BY <2>1, <2>2, <2>3 DEF GotInv
  <2>7. CASE got' = FromRecord(record) /\ unread' = unread
    <3>1. \A f \in Record : got'[f] = record
      BY <2>5, <2>7 DEF FromRecord
    <3>2. "raced" \notin carried => record \notin seen
      BY <2>1, <2>6 DEF SeenInv
    <3> QED BY <2>4, <2>5, <2>6, <3>1, <3>2
  <2>8. CASE got' = FromLog(Found, files) /\ unread'
    <3>1. CASE ~InOrder'
      <4>1. ~(unread' => InOrder')
        BY <2>8, <3>1
      <4> QED BY <3>1, <4>1
    <3>2. CASE InOrder'
      <4>1. /\ record \in Requests
            /\ WholeLog => /\ Found # "none" /\ files[Found] \in Seq(Line)
                           /\ Whole(files[Found], record)
            /\ NewLog => Found = "none" \/ (/\ files[Found] \in Seq(Line)
                                            /\ By(files[Found], Unseen))
        BY <2>1, <2>3, <2>6, <3>2, KeptRead
      <4>2. ASSUME WholeLog PROVE \A f \in Record : got'[f] = record
        <5>1. got' = ParseLegacyLog(files[Found])
          BY <2>8, <4>1, <4>2 DEF FromLog
        <5>2. \A f \in Record : ParseLegacyLog(files[Found])[f] = record
          BY <4>1, <4>2, ParseWhole
        <5> QED BY <5>1, <5>2
      <4>3. OneCause /\ carried \cap {"badLog", "fast"} = {} => WholeLog
        BY <2>4, <2>6 DEF OneCause, WholeLog
      <4>4. ASSUME NewLog PROVE got'["RebootInitiatedBy"] \notin seen
        <5>1. CASE Found = "none"
          <6>1. got'["RebootInitiatedBy"] = 0
            BY <2>5, <2>8, <5>1 DEF FromLog, Blank
          <6> QED BY <6>1, ValueFacts DEF Causes
        <5>2. CASE Found # "none"
          <6>1. got' = ParseLegacyLog(files[Found])
            BY <2>8, <5>2 DEF FromLog
          <6>2. \A f \in Fields : ParseLegacyLog(files[Found])[f] \in Unseen \cup {0}
            BY <4>1, <4>4, <5>2, ParseBy
          <6>3. got'["RebootInitiatedBy"] \in Unseen \cup {0}
            BY <2>5, <6>1, <6>2
          <6> QED BY <6>3, ValueFacts DEF Causes, Unseen
        <5> QED BY <5>1, <5>2
      <4> QED BY <2>4, <2>6, <2>8, <4>2, <4>3, <4>4
    <3> QED BY <3>1, <3>2
  <2> QED BY <1>7, <2>7, <2>8, LoadFacts
<1>8. CASE LoadReason
  <2>1. /\ fpc = "reason" /\ fpc' = "open" /\ windows \subseteq windows'
        /\ ~backed => "early" \in windows'
        /\ got' = WithReason(got, Found, files)
        /\ UNCHANGED <<record, unread, cause, carried, seen, again>>
    BY <1>8, ReasonFacts
  <2>2. /\ OneCause' = OneCause /\ NewLog' = NewLog /\ WholeLog' = WholeLog
        /\ (Quiet' => Quiet) /\ (InOrder' => InOrder /\ backed)
    BY <2>1 DEF OneCause, NewLog, WholeLog, Quiet, InOrder
  <2> DEFINE line == IF Found = "none" THEN 0 ELSE ReasonLine(files[Found])
  <2>3. got' = [got EXCEPT !["RebootReason"] = line]
    BY <2>1, Zenon DEF WithReason
  <2>4. /\ Record \subseteq Fields /\ "RebootInitiatedBy" \in Record
        /\ "RebootReason" \in Fields /\ "RebootReason" \notin Record
        /\ \A f \in Fields : f \in Record \/ f = "RebootReason"
    BY FieldFacts
  <2>5. Quiet /\ WholeLog /\ InOrder' => line = record
    BY <2>1, <2>2, KeptRead, ReasonWhole
  <2> HIDE DEF line
  <2>6. (\A f \in Record : got'[f] = got[f]) /\ got'["RebootReason"] = line
    BY <2>3, <2>4 DEF Fetched
  <2>7. SUFFICES ASSUME Quiet
        PROVE  /\ OneCause /\ (unread => carried \cap {"badLog", "fast"} = {} /\ InOrder')
                    => \A f \in Record : got'[f] = cause
               /\ WholeLog /\ InOrder' => \A f, g \in Fields : got'[f] = got'[g]
               /\ "raced" \notin carried /\ (unread => NewLog /\ InOrder')
                    => got'["RebootInitiatedBy"] \notin seen
    BY <2>1, <2>2 DEF GotInv
  <2>8. /\ OneCause /\ (unread => carried \cap {"badLog", "fast"} = {} /\ InOrder)
             => \A f \in Record : got[f] = cause
        /\ WholeLog /\ InOrder => \A f \in Record : got[f] = record
        /\ "raced" \notin carried /\ (unread => NewLog /\ InOrder)
             => got["RebootInitiatedBy"] \notin seen
    BY <2>1, <2>7 DEF GotInv
  <2>9. ASSUME WholeLog, InOrder' PROVE \A f \in Fields : got'[f] = record
    BY <2>2, <2>4, <2>5, <2>6, <2>7, <2>8, <2>9
  <2> QED BY <2>2, <2>4, <2>6, <2>8, <2>9
<1>9. CASE OpenFields
  <2>1. /\ fpc = "open" /\ fpc' \in {"write", "failed"} /\ windows \subseteq windows'
        /\ UNCHANGED <<record, got, unread, cause, carried, seen, again>>
    BY <1>9, OpenFacts
  <2>2. /\ OneCause' = OneCause /\ NewLog' = NewLog /\ WholeLog' = WholeLog
        /\ (Quiet' => Quiet) /\ (InOrder' => InOrder)
    BY <2>1 DEF OneCause, NewLog, WholeLog, Quiet, InOrder
  <2> QED BY <2>1, <2>2 DEF GotInv
<1>10. ASSUME fpc = "write", NEW j \in 1 .. Len(files[out]) + 1, WriteFields(j)
       PROVE  GotInv'
  <2>1. /\ fpc = "write" /\ fpc' = "done" /\ again' = (got["RebootInitiatedBy"] \in seen)
        /\ UNCHANGED <<windows, record, got, unread, cause, carried>>
    BY <1>10 DEF WriteFields
  <2>2. /\ OneCause' = OneCause /\ NewLog' = NewLog /\ WholeLog' = WholeLog
        /\ Quiet' = Quiet /\ InOrder' = InOrder
    BY <2>1 DEF OneCause, NewLog, WholeLog, Quiet, InOrder
  <2> QED BY <2>1, <2>2 DEF GotInv
<1>11. CASE UNCHANGED vars
  <2>1. /\ UNCHANGED <<fpc, record, got, unread, cause, carried, seen, again>>
        /\ windows \subseteq windows' \cup {"pending"}
    BY <1>11 DEF vars, fetcher, past
  <2> QED BY <2>1, GotFrame
<1> QED
  BY <1>1, <1>2, <1>3, <1>4, <1>5, <1>6, <1>7, <1>8, <1>9, <1>10, <1>11, NextCases

-----------------------------------------------------------------------------
LEMMA InitHolds == ASSUME Init PROVE IndInv
<1> USE DEF Init
<1>1. DOMAIN files = {} /\ Live = {} /\ fpc = "start" /\ info = 0 /\ windows = {}
  BY DEF Live
<1>2. FlagTypes /\ FileTypes /\ WindowSets /\ Causes /\ Stage /\ StreamInv
  BY <1>1, ValueFacts DEF FlagTypes, FileTypes, WindowSets, Causes, Stage, StreamInv
<1>3. RequestTypes /\ Counters /\ Fetched
  BY BoundsAssumption, ValueFacts, StepFacts DEF RequestTypes, Counters, Fetched, Blank
<1>4. 0 \in Sofar
  BY DEF Sofar
<1>5. MadeInv
  BY <1>1, <1>4 DEF MadeInv, Blank
<1>6. SlotInv /\ LiveInv /\ InfoInv /\ SeenInv
  BY <1>1 DEF SlotInv, LiveInv, InfoInv, SeenInv, Booted, HasLog
<1>7. LogInv /\ KeptInv /\ CauseInv
  BY <1>1 DEF LogInv, Booted, KeptInv, CauseInv, Awaited
<1>8. GotInv
  BY DEF GotInv
<1> QED BY <1>2, <1>3, <1>5, <1>6, <1>7, <1>8 DEF IndInv

LEMMA NextHolds == ASSUME IndInv, [Next]_vars PROVE IndInv'
<1>1. FlagTypes' /\ FileTypes' /\ RequestTypes' /\ Counters' /\ WindowSets' /\ Causes'
  BY FlagStep, FileStep, RequestStep, CounterStep, WindowStep, CausesStep
<1>2. Fetched' /\ Stage' /\ StreamInv' /\ MadeInv' /\ SlotInv' /\ LiveInv'
  BY FetchedStep, StageStep, StreamStep, MadeStep, SlotStep, LiveStep
<1>3. InfoInv' /\ SeenInv' /\ LogInv' /\ KeptInv' /\ CauseInv' /\ GotInv'
  BY InfoStep, SeenStep, LogStep, KeptStep, CauseStep, GotStep
<1> QED BY <1>1, <1>2, <1>3 DEF IndInv

\* What holds at every step of requests, backup_logs and fetcher over any number
\* of boots: where the log is, who works on it, what is recorded and what of it
\* has been told.
THEOREM ProtocolHolds == Spec => []IndInv
<1>1. Init => IndInv
  BY InitHolds
<1>2. IndInv /\ [Next]_vars => IndInv'
  BY NextHolds
<1> QED BY <1>1, <1>2, PTL DEF Spec

\* The state is well formed; in particular the stream that
\* update_previous_reboot_log_fields has open writes to a log that exists, also
\* when backup_logs moves it in between.
THEOREM TypeCorrect == Spec => []TypeOK
<1>1. IndInv => TypeOK
  BY TypesFollow DEF TypeOK
<1> QED BY <1>1, ProtocolHolds, PTL

\* For any number of requests, boots and mishaps: the fetcher names the request
\* that took the device down, from the record or, when that does not open, from
\* what find_previous_reboot_log and parse_legacy_log get out of the old log.
THEOREM CauseNamed == Spec => []ToldCause
<1>1. IndInv => ToldCause
  <2> SUFFICES ASSUME IndInv, fpc = "done",
                      (carried \cup windows) \cap
                        ({"raced", "early", "concurrent", "pending", "infoLost", "unfetched"}
                           \cup (IF unread THEN {"badLog", "fast"} ELSE {})) = {}
               PROVE  \A f \in Record : got[f] = cause
    BY DEF ToldCause, Told
  <2>1. Quiet /\ OneCause
    BY DEF Quiet, OneCause
  <2>2. unread => carried \cap {"badLog", "fast"} = {} /\ InOrder
    BY DEF InOrder
  <2> QED BY <2>1, <2>2 DEF IndInv, GotInv
<1> QED BY <1>1, ProtocolHolds, PTL

\* The PreviousRebootReason line, which load_previous_reboot_reason_line takes
\* from the old log, is about the request of the record that the other four
\* lines come from.
THEOREM FieldsConsistent == Spec => []FieldsAgree
<1>1. IndInv => FieldsAgree
  <2> SUFFICES ASSUME IndInv, fpc = "done",
                      (carried \cup windows) \cap
                        {"raced", "early", "concurrent", "halfway", "infoLost", "unfetched",
                         "badLog", "fast"} = {}
               PROVE  \A f, g \in Fields : got[f] = got[g]
    BY DEF FieldsAgree, Told
  <2>1. Quiet /\ WholeLog /\ InOrder
    BY DEF Quiet, WholeLog, InOrder
  <2> QED BY <2>1 DEF IndInv, GotInv
<1> QED BY <1>1, ProtocolHolds, PTL

\* No request is named as the initiator of two boots: the rename of the record
\* and the truncation of the log forget what has been told.
THEOREM NamedOnce == Spec => []ToldOnce
<1>1. IndInv => ToldOnce
  <2> SUFFICES ASSUME IndInv, fpc = "done",
                      (carried \cup windows) \cap
                        ({"raced", "early"} \cup
                           (IF unread THEN {"fast", "badLog", "concurrent"} ELSE {})) = {}
               PROVE  ~again
    BY DEF ToldOnce, Told
  <2>1. Quiet /\ "raced" \notin carried
    BY DEF Quiet
  <2>2. unread => NewLog /\ InOrder
    BY DEF NewLog, InOrder
  <2> QED BY <2>1, <2>2 DEF IndInv, GotInv
<1> QED BY <1>1, ProtocolHolds, PTL
=============================================================================
