--------------------------- MODULE RebootClassify ---------------------------
(***************************************************************************)
(* How the fetcher derives a reason when rebootnow has left no record:     *)
(* look for a kernel panic and a firmware failure in the logs, read the    *)
(* hardware register, and let the strongest evidence decide.               *)
(*                                                                         *)
(* A name such as SCPU_EJTAG_RESET is the sequence of its parts, cut fine  *)
(* enough for one pattern to be found inside another, as strstr finds it.  *)
(* classify_reboot_reason also has a branch for a customReason that is     *)
(* already set; main clears the record first, so it is never taken.        *)
(***************************************************************************)
EXTENDS Text, FiniteSetsExt

CONSTANTS
    Registers,  \* first lines of the register file: the names between commas
    Sources,    \* ways the properties of the device are found, see Properties
    MaxRuns     \* bound: derivations in one boot

NoRegister == <<>>  \* no register file, or one that is empty or not readable

ASSUME BoundsAssumption ==
    /\ Registers \subseteq Seq(Seq(STRING))
    /\ MaxRuns \in Nat \ {0}

\* Keys of /etc/device.properties.  A source says for which of them the
\* library has a value, and in which order the file lists them.
Properties == {"SOC", "RDK_PROFILE", "DEVICE_TYPE"}
Keys       == Properties \cup {"DEVICE_NAME"}

ASSUME SourcesAssumption ==
    \A s \in Sources : /\ s.given \subseteq Properties /\ s.file \in Seq(Keys)
                       /\ \A k \in Properties : \E i \in DOMAIN s.file : s.file[i] = k

(***************************************************************************)
(* Names.                                                                  *)
(***************************************************************************)
Software   == <<"SOFTWARE", "MASTER", "RESET">>
PowerOn    == <<"POWER", "ON", "RESET">>
HardPower  == <<"HARD", "POWER">>
Panic      == <<"KERNEL", "PANIC">>
FwFailure  == <<"FIRMWARE", "FAILURE">>
Unknown    == <<"UNKNOWN">>
NoName     == <<>>

Row(patterns, source, reason) ==
    [patterns |-> patterns, source |-> source, reason |-> reason]

\* The branches of map_hardware_reason, in their order.
HardwareRows ==
  <<Row({Software, <<"SOFTWARE", "RESET">>, <<"SOFTWARE", "REBOOT">>,
         <<"SW", "RESET">>, <<"SOFTWARE">>}, "SoftwareReboot", Software),
    Row({<<"WATCHDOG">>}, "WatchDog", <<"WATCHDOG", "TIMER", "RESET">>),
    Row({Panic, <<"KERNEL", "PANIC", "RESET">>}, "Kernel", Panic),
    Row({<<"POWER", "ON">>, <<"HARDWARE">>}, "PowerOn", PowerOn),
    Row({<<"MAIN", "CHIP", "INPUT", "RESET">>}, "Main Chip",
        <<"MAIN", "CHIP", "INPUT", "RESET">>),
    Row({<<"MAIN", "CHIP", "RESET", "INPUT">>}, "Main Chip",
        <<"MAIN", "CHIP", "RESET", "INPUT">>),
    Row({<<"TAP", "IN", "SYSTEM", "RESET">>}, "Tap-In System",
        <<"TAP", "IN", "SYSTEM", "RESET">>),
    Row({<<"FRONT", "PANEL", "4SEC", "RESET">>, <<"FRONT", "PANEL", "RESET">>},
        "FrontPanel Button", <<"FRONT", "PANEL", "RESET">>),
    Row({<<"S3", "WAKEUP", "RESET">>}, "Standby Wakeup", <<"S3", "WAKEUP", "RESET">>),
    Row({<<"SMARTCARD", "INSERT", "RESET">>}, "SmartCard Insert",
        <<"SMARTCARD", "INSERT", "RESET">>),
    Row({<<"OVERTEMP">>, <<"OVERHEAT">>}, "OverTemperature", <<"OVERTEMP", "RESET">>),
    Row({<<"OVERVOLTAGE">>}, "OverVoltage", <<"OVERVOLTAGE", "RESET">>),
    Row({<<"UNDERVOLTAGE">>, <<"UNDERVOLTAGE", "0", "RESET">>,
         <<"UNDERVOLTAGE", "1", "RESET">>}, "LowVoltage", <<"UNDERVOLTAGE", "RESET">>),
    Row({<<"PCIE", "0", "HOT", "BOOT", "RESET">>, <<"PCIE", "1", "HOT", "BOOT", "RESET">>,
         <<"PCIE", "HOT", "BOOT", "RESET">>}, "PCIE Boot",
        <<"PCIE", "HOT", "BOOT", "RESET">>),
    Row({<<"SECURITY", "MASTER", "RESET">>}, "SecurityReboot",
        <<"SECURITY", "MASTER", "RESET">>),
    Row({<<"CPU", "EJTAG", "RESET">>}, "CPU EJTAG", <<"CPU", "EJTAG", "RESET">>),
    Row({<<"S", "CPU", "EJTAG", "RESET">>}, "SCPU EJTAG", <<"S", "CPU", "EJTAG", "RESET">>),
    Row({<<"GEN", "WATCHDOG", "1", "RESET">>, <<"GEN", "WATCHDOG", "RESET">>},
        "GEN WatchDog", <<"GEN", "WATCHDOG", "RESET">>),
    Row({<<"AUX", "CHIP", "EDGE", "RESET", "0">>, <<"AUX", "CHIP", "EDGE", "RESET", "1">>,
         <<"AUX", "CHIP", "EDGE", "RESET">>}, "Aux Chip Edge",
        <<"AUX", "CHIP", "EDGE", "RESET">>),
    Row({<<"AUX", "CHIP", "LEVEL", "RESET", "0">>, <<"AUX", "CHIP", "LEVEL", "RESET", "1">>,
         <<"AUX", "CHIP", "LEVEL", "RESET">>}, "Aux Chip Level",
        <<"AUX", "CHIP", "LEVEL", "RESET">>),
    Row({<<"MPM", "RESET">>}, "MPM", <<"MPM", "RESET">>)>>

\* The first branch that has a pattern inside the name, or the name itself.
map_hardware_reason(name) ==
    LET hits == {i \in DOMAIN HardwareRows :
                   \E p \in HardwareRows[i].patterns : Contains(name, p)}
    IN  IF hits = {} THEN [source |-> "Unknown", reason |-> name]
        ELSE [source |-> HardwareRows[Min(hits)].source,
              reason |-> HardwareRows[Min(hits)].reason]

(***************************************************************************)
(* setRebootReason of update_previous_reboot_info.sh, which the program    *)
(* replaces: a case over whole names.                                      *)
(***************************************************************************)
SelfNamed ==
    {Software, <<"WATCHDOG", "TIMER", "RESET">>, PowerOn,
     <<"MAIN", "CHIP", "INPUT", "RESET">>, <<"MAIN", "CHIP", "RESET", "INPUT">>,
     <<"TAP", "IN", "SYSTEM", "RESET">>, <<"S3", "WAKEUP", "RESET">>,
     <<"SMARTCARD", "INSERT", "RESET">>, <<"OVERTEMP", "RESET">>,
     <<"OVERVOLTAGE", "RESET">>, <<"UNDERVOLTAGE", "RESET">>,
     <<"SECURITY", "MASTER", "RESET">>, <<"CPU", "EJTAG", "RESET">>,
     <<"S", "CPU", "EJTAG", "RESET">>, <<"MPM", "RESET">>}

Renamed ==
    {<<<<"SOFTWARE">>, Software>>,
     <<<<"WATCHDOG">>, <<"WATCHDOG", "TIMER", "RESET">>>>,
     <<<<"KERNEL", "PANIC", "RESET">>, Panic>>,
     <<<<"HARDWARE">>, PowerOn>>,
     <<<<"FRONT", "PANEL", "4SEC", "RESET">>, <<"FRONT", "PANEL", "RESET">>>>,
     <<<<"OVERHEAT">>, <<"OVERTEMP", "RESET">>>>,
     <<<<"OVERVOLTAGE", "1", "RESET">>, <<"OVERVOLTAGE", "RESET">>>>,
     <<<<"PCIE", "1", "HOT", "BOOT", "RESET">>, <<"PCIE", "HOT", "BOOT", "RESET">>>>,
     <<<<"PCIE", "0", "HOT", "BOOT", "RESET">>, <<"PCIE", "HOT", "BOOT", "RESET">>>>,
     <<<<"UNDERVOLTAGE", "1", "RESET">>, <<"UNDERVOLTAGE", "RESET">>>>,
     <<<<"UNDERVOLTAGE", "0", "RESET">>, <<"UNDERVOLTAGE", "RESET">>>>,
     <<<<"GEN", "WATCHDOG", "1", "RESET">>, <<"GEN", "WATCHDOG", "RESET">>>>,
     <<<<"AUX", "CHIP", "EDGE", "RESET", "0">>, <<"AUX", "CHIP", "EDGE", "RESET">>>>,
     <<<<"AUX", "CHIP", "EDGE", "RESET", "1">>, <<"AUX", "CHIP", "EDGE", "RESET">>>>,
     <<<<"AUX", "CHIP", "LEVEL", "RESET", "0">>, <<"AUX", "CHIP", "LEVEL", "RESET">>>>,
     <<<<"AUX", "CHIP", "LEVEL", "RESET", "1">>, <<"AUX", "CHIP", "LEVEL", "RESET">>>>}

setRebootReason(name) ==
    IF \E r \in Renamed : r[1] = name
    THEN (CHOOSE r \in Renamed : r[1] = name)[2]
    ELSE name

\* The names that setRebootReason has a case for.
KnownNames == SelfNamed \cup {r[1] : r \in Renamed}

\* Names that an earlier branch of map_hardware_reason takes from their own row.
Shadowed == {<<"S", "CPU", "EJTAG", "RESET">>, <<"GEN", "WATCHDOG", "1", "RESET">>}

-----------------------------------------------------------------------------
VARIABLES
    soc, tv, mediaclient,  \* what the device is
    source,    \* how its properties are found
    ctx,       \* what parse_device_properties has found
    register,  \* /proc/brcm/previous_reboot_reason
    logs,      \* which marks the log files hold, see Marks
    pc,
    panicInfo, fwFailure, hwReason, info,  \* the structs of main
    first,     \* history: what the first derivation of the boot found
    runs       \* derivations begun in this boot

device == <<soc, tv, mediaclient, source, register>>
vars   == <<device, ctx, logs, pc, panicInfo, fwFailure, hwReason, info, first, runs>>

Socs  == {"BRCM", "BROADCOM", "RTK", "AMLOGIC"}
Marks == {"oops",     \* PREVIOUS_KERNEL_OOPS_DUMP in messages.txt
          "panic",    \* a panic signature in messages.txt
          "ramoops",  \* a panic signature in console-ramoops-0
          "uimgr", "ocapri",  \* MAX_REBOOT_STRING in uimgr_log.txt, ocapri_log.txt
          "ecm"}      \* ECM_CRASH_STRING in messages-ecm.txt

NoContext == [soc |-> "", tv |-> FALSE, mediaclient |-> FALSE]
NoFailure == [detected |-> FALSE, initiator |-> "", details |-> ""]
NoReason  == [raw |-> <<NoName>>, mapped |-> NoName]
NoInfo    == [source |-> "", reason |-> NoName, custom |-> <<>>]

DeviceTypes ==
    /\ soc \in Socs /\ source \in Sources /\ register \in Registers
    /\ logs \subseteq Marks \cup {"annotated"}
    /\ pc \in {"properties", "panic", "firmware", "hardware", "classify", "log", "end"}
    /\ runs \in 1..MaxRuns

FlagTypes == tv \in BOOLEAN /\ mediaclient \in BOOLEAN /\ panicInfo \in BOOLEAN

StructTypes ==
    /\ ctx = NoContext \/ ctx.soc = soc
    /\ fwFailure.detected <=> fwFailure.initiator # "" /\ fwFailure.details # ""
    /\ \/ hwReason \in {NoReason, [raw |-> <<NoName>>, mapped |-> Unknown]}
       \/ hwReason = [raw |-> register, mapped |-> register[1]]
    /\ info = NoInfo \/ info.source # ""

\* The type invariant; a detected failure always has an initiator and details.
TypeOK == DeviceTypes /\ FlagTypes /\ StructTypes

Init ==
    /\ soc \in Socs /\ tv \in BOOLEAN /\ mediaclient \in BOOLEAN
    /\ source \in Sources /\ register \in Registers
    /\ logs \in SUBSET Marks
    /\ pc = "properties" /\ ctx = NoContext /\ panicInfo = FALSE /\ fwFailure = NoFailure
    /\ hwReason = NoReason /\ info = NoInfo /\ first = NoInfo /\ runs = 1

Goto(from, to) == pc = from /\ pc' = to

\* The value that counts as the device's type: the library's, or that of the
\* first line of the file whose key is DEVICE_TYPE or DEVICE_NAME.  A name does
\* not begin with mediaclient.
TypeIsMediaclient ==
    LET lines == {i \in DOMAIN source.file : source.file[i] \in {"DEVICE_TYPE", "DEVICE_NAME"}}
    IN  mediaclient /\ ("DEVICE_TYPE" \in source.given
                          \/ source.file[Min(lines)] = "DEVICE_TYPE")

\* What the library does not have is taken from the file, if that opens; main
\* gives up otherwise (see Fetcher).
parse_device_properties ==
    /\ Goto("properties", "panic")
    /\ ctx' = [soc |-> soc, tv |-> tv, mediaclient |-> TypeIsMediaclient]
    /\ UNCHANGED <<device, logs, panicInfo, fwFailure, hwReason, info, first, runs>>

\* Mutant: the annotation of an earlier run counts as a signature.
PanicOrAnnotation(c, marks) ==
    IF c.soc = "BRCM" THEN {"oops", "panic"} \subseteq marks
    ELSE c.tv /\ marks \cap {"ramoops", "annotated"} # {}

\* BRCM: a signature anywhere in messages.txt, if the marker is there.  TV: the
\* console log of pstore.
PanicIn(c, marks) ==
    IF c.soc = "BRCM" THEN {"oops", "panic"} \subseteq marks ELSE c.tv /\ "ramoops" \in marks

\* A TV adds a line to messages.txt that no signature matches.
detect_kernel_panic ==
    /\ Goto("panic", "firmware")
    /\ panicInfo' = PanicIn(ctx, logs)
    /\ logs' = IF ctx.soc # "BRCM" /\ panicInfo' THEN logs \cup {"annotated"} ELSE logs
    /\ UNCHANGED <<device, ctx, fwFailure, hwReason, info, first, runs>>

LimitReached(c, marks) == (IF c.mediaclient THEN "uimgr" ELSE "ocapri") \in marks
EcmCrashed(c, marks)   == ~c.mediaclient /\ "ecm" \in marks

Initiator(c, marks) ==
    IF EcmCrashed(c, marks) THEN "EcmLogger"
    ELSE IF ~LimitReached(c, marks) THEN ""
    ELSE IF c.mediaclient THEN "UiMgr" ELSE "OcapRI"

\* Mutant: the details of an ECM crash are forgotten.
FailureWithoutEcm(c, marks) ==
    [detected  |-> LimitReached(c, marks) \/ EcmCrashed(c, marks),
     initiator |-> Initiator(c, marks),
     details   |-> IF LimitReached(c, marks) THEN "maximum reboots" ELSE ""]

\* The reboot limit, and the ECM crash of a device that is no mediaclient: the
\* crash gives the initiator, the limit gives the details.
FailureIn(c, marks) ==
    [detected  |-> LimitReached(c, marks) \/ EcmCrashed(c, marks),
     initiator |-> Initiator(c, marks),
     details   |-> IF LimitReached(c, marks) THEN "maximum reboots"
                   ELSE IF EcmCrashed(c, marks) THEN "ECM crash" ELSE ""]

check_firmware_failure ==
    /\ Goto("firmware", "hardware")
    /\ fwFailure' = FailureIn(ctx, logs)
    /\ UNCHANGED <<device, ctx, logs, panicInfo, hwReason, info, first, runs>>

\* The first line of the register, on BRCM; UNKNOWN without one.
RegisterReason(c, line) ==
    IF c.soc = "BRCM" /\ line # NoRegister THEN [raw |-> line, mapped |-> line[1]]
    ELSE [raw |-> <<NoName>>, mapped |-> Unknown]

get_hardware_reason ==
    /\ Goto("hardware", "classify")
    /\ hwReason' = RegisterReason(ctx, register)
    /\ UNCHANGED <<device, ctx, logs, panicInfo, fwFailure, info, first, runs>>

(***************************************************************************)
(* What classify_reboot_reason makes of the evidence.                      *)
(***************************************************************************)
Verdict(src, reason, custom) == [source |-> src, reason |-> reason, custom |-> custom]

ByFirmware(fw) ==
    Verdict(IF fw.initiator = "" THEN "FirmwareFailure" ELSE fw.initiator, FwFailure, <<>>)

ByPanic    == Verdict("Kernel", Panic, <<Panic>>)
ByDefault  == Verdict("SoftwareReboot", Software, <<Software>>)

\* Mutant: BRCM keeps the name of the register as the reason.
ByRegisterName(c, hw) ==
    LET brcm   == c.soc \in {"BRCM", "BROADCOM"}
        mapped == map_hardware_reason(hw.mapped)
    IN  IF brcm /\ hw.raw # <<NoName>> THEN Verdict(mapped.source, hw.mapped, hw.raw)
        ELSE IF hw.mapped = Unknown THEN Verdict("Hard Power Reset", HardPower, <<<<"NULL">>>>)
        ELSE Verdict(mapped.source, mapped.reason,
                     <<IF brcm THEN hw.mapped ELSE mapped.reason>>)

\* The register decides: its names stay in customReason.
ByRegister(c, hw) ==
    LET brcm   == c.soc \in {"BRCM", "BROADCOM"}
        mapped == map_hardware_reason(hw.mapped)
    IN  IF brcm /\ hw.raw # <<NoName>> THEN Verdict(mapped.source, mapped.reason, hw.raw)
        ELSE IF hw.mapped = Unknown THEN Verdict("Hard Power Reset", HardPower, <<<<"NULL">>>>)
        ELSE Verdict(mapped.source, mapped.reason,
                     <<IF brcm THEN hw.mapped ELSE mapped.reason>>)

\* Mutant: a register is trusted to have a name.
NoFallback(c, fw, panic, hw) ==
    IF fw.detected THEN ByFirmware(fw)
    ELSE IF panic THEN ByPanic
    ELSE IF hw.mapped # NoName THEN ByRegister(c, hw)
    ELSE IF c.soc = "BRCM" THEN NoInfo ELSE ByDefault

\* Mutant: a kernel panic counts for less than the register.
RegisterFirst(c, fw, panic, hw) ==
    IF fw.detected THEN ByFirmware(fw)
    ELSE IF hw.mapped # NoName THEN ByRegister(c, hw)
    ELSE IF panic THEN ByPanic ELSE ByDefault

Classified(c, fw, panic, hw) ==
    IF fw.detected THEN ByFirmware(fw)
    ELSE IF panic THEN ByPanic
    ELSE IF hw.mapped # NoName THEN ByRegister(c, hw) ELSE ByDefault

classify_reboot_reason ==
    /\ Goto("classify", "log")
    /\ info' = Classified(ctx, fwFailure, panicInfo, hwReason)
    /\ UNCHANGED <<device, ctx, logs, panicInfo, fwFailure, hwReason, first, runs>>

\* Realtek: the reason, in lower case, goes to messages.txt.
Annotates(c, reason) == c.soc \in {"RTK", "REALTEK"} /\ reason # NoName

update_kernel_log ==
    /\ Goto("log", "end")
    /\ logs' = IF Annotates(ctx, info.reason) THEN logs \cup {"annotated"} ELSE logs
    /\ first' = IF runs = 1 THEN info ELSE first
    /\ UNCHANGED <<device, ctx, panicInfo, fwFailure, hwReason, info, runs>>

\* The path unit starts the fetcher once more; main clears its structs.
Rederive ==
    /\ runs < MaxRuns /\ runs' = runs + 1
    /\ Goto("end", "properties")
    /\ ctx' = NoContext /\ panicInfo' = FALSE /\ fwFailure' = NoFailure
    /\ hwReason' = NoReason /\ info' = NoInfo
    /\ UNCHANGED <<device, logs, first>>

Terminated == runs = MaxRuns /\ pc = "end" /\ UNCHANGED vars

Next ==
    \/ parse_device_properties
    \/ detect_kernel_panic \/ check_firmware_failure \/ get_hardware_reason
    \/ classify_reboot_reason \/ update_kernel_log \/ Rederive \/ Terminated

Spec == Init /\ [][Next]_vars

\* Mutant: only a reset that the register reports counts.
StampedReset(reason) ==
    \E p \in {<<"POWER", "ON">>, <<"UNKNOWN", "RESET">>} : Contains(reason, p)

\* main stamps hardpower.info.
Stamped(reason) ==
    \E p \in {<<"POWER", "ON">>, HardPower, <<"UNKNOWN", "RESET">>} : Contains(reason, p)

-----------------------------------------------------------------------------
(***************************************************************************)
(* The evidence, as the files have it.                                     *)
(***************************************************************************)
FirmwareEvidence ==
    IF mediaclient THEN "uimgr" \in logs ELSE logs \cap {"ocapri", "ecm"} # {}

PanicEvidence ==
    IF soc = "BRCM" THEN {"oops", "panic"} \subseteq logs ELSE tv /\ "ramoops" \in logs

\* DEVICE_NAME hides the type of a mediaclient.
Misnamed == mediaclient /\ ~TypeIsMediaclient

RegisterRead == soc = "BRCM" /\ register # NoRegister

\* The derived record is complete whatever the files hold: parodus always gets a
\* reason, and previousreboot.info never an empty one.
NeverBlank ==
    pc \in {"log", "end"} => info.source # "" /\ info.reason # NoName

\* A firmware failure, then a kernel panic, then the register decide; a failure
\* or a panic that neither a log nor the register shows is never reported.  Which
\* logs count depends on the device: only a name that stands in for its type gets
\* that wrong.
StrongestEvidence ==
    pc = "end" /\ ~Misnamed =>
        /\ FirmwareEvidence => info.reason = FwFailure
        /\ info.reason = FwFailure =>
             FirmwareEvidence \/ (RegisterRead /\ register[1] = FwFailure)
        /\ ~FirmwareEvidence /\ PanicEvidence => info.reason = Panic
        /\ info.reason = Panic =>
             PanicEvidence \/ (RegisterRead /\ Contains(register[1], Panic))

\* Names for which the script stamps hardpower.info.
PowerLosses == {HardPower, PowerOn, <<"UNKNOWN", "RESET">>}

\* The script compares whole names, the program looks for parts: of a name that is
\* new to the script it may know a part.
MappedByPart(name) ==
    /\ name \notin KnownNames
    /\ \E i \in DOMAIN HardwareRows :
          /\ HardwareRows[i].reason # name
          /\ \E p \in HardwareRows[i].patterns : Contains(name, p)

PowerByPart(name) ==
    \/ name \notin PowerLosses /\ Stamped(name)
    \/ name \notin KnownNames /\ \E p \in HardwareRows[4].patterns : Contains(name, p)

\* Where the register decides, the reason is the one that the script it replaces
\* would give, but for these names and no others: a blank one, the two that
\* are shadowed, and those new to the script of which the program knows a part.
AgreesWithScript ==
    pc = "end" /\ ~Misnamed /\ RegisterRead /\ ~FirmwareEvidence /\ ~PanicEvidence =>
        (info.reason = setRebootReason(register[1]) <=>
            register[1] \notin Shadowed \cup {NoName} /\ ~MappedByPart(register[1]))

\* The hard power stamp is written exactly when nothing but a loss of power
\* explains the boot: there is no register, or it has a name for which the script
\* writes the stamp too.
StampsPowerLoss ==
    pc = "end" /\ ~Misnamed /\ (RegisterRead => ~PowerByPart(register[1])) =>
        (Stamped(info.reason) <=>
            /\ ~FirmwareEvidence /\ ~PanicEvidence
            /\ RegisterRead => setRebootReason(register[1]) \in PowerLosses)

\* A second derivation in the same boot, after the first one has written to the
\* logs it reads, finds the same reason.
Rederived == pc = "end" => info = first
=============================================================================
