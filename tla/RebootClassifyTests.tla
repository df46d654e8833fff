------------------------- MODULE RebootClassifyTests -------------------------
(***************************************************************************)
(* What unittest/reboot_classify_gtest.cpp expects of the evidence that is *)
(* found and of the reason that is derived from it, said of the operators  *)
(* of RebootClassify.                                                      *)
(***************************************************************************)
EXTENDS RebootClassify

Device(name)  == [NoContext EXCEPT !.soc = name]
Television    == [NoContext EXCEPT !.tv = TRUE]
MediaClient   == [NoContext EXCEPT !.mediaclient = TRUE]
Register(name) == [NoReason EXCEPT !.mapped = name]

FirmwareTests ==
    /\ FailureIn(NoContext, {}) = NoFailure
    /\ FailureIn(NoContext, {"ocapri"}).detected
    /\ FailureIn(NoContext, {"ocapri"}).initiator = "OcapRI"
    /\ FailureIn(MediaClient, {"uimgr"}).initiator = "UiMgr"
    /\ FailureIn(NoContext, {"ecm"}).detected
    /\ FailureIn(NoContext, {"ecm"}).initiator = "EcmLogger"
    /\ FailureIn(NoContext, {"ocapri", "ecm"}).initiator = "EcmLogger"
    /\ FailureIn(NoContext, {"ocapri", "ecm"}).details = "maximum reboots"

EcmTests ==
    /\ ~FailureIn(MediaClient, {"ecm"}).detected
    /\ ~FailureIn(NoContext, {}).detected

PanicTests ==
    /\ PanicIn(Device("BRCM"), {"oops", "panic"})
    /\ ~PanicIn(Device("RTK"), {})

TelevisionTests ==
    /\ ~PanicIn(Device("BRCM"), {"panic"})
    /\ ~PanicIn(Television, {})
    /\ PanicIn(Television, {"ramoops"})

\* Derivations from one kind of evidence, or from none.
Derived(c, hw) == Classified(c, NoFailure, FALSE, hw)

EvidenceTests ==
    /\ Classified(NoContext, [NoFailure EXCEPT !.detected = TRUE], FALSE, NoReason)
         = Verdict("FirmwareFailure", FwFailure, <<>>)
    /\ Classified(NoContext, NoFailure, TRUE, NoReason) = Verdict("Kernel", Panic, <<Panic>>)

InitiatorTests ==
    Classified(NoContext, FailureIn(NoContext, {"ecm"}), FALSE, NoReason)
        = Verdict("EcmLogger", FwFailure, <<>>)

FallbackTests == Derived(NoContext, NoReason) = Verdict("SoftwareReboot", Software, <<Software>>)

NameTests ==
    /\ Derived(NoContext, Register(Software)).source = "SoftwareReboot"
    /\ Derived(NoContext, Register(<<"WATCHDOG">>)).reason = <<"WATCHDOG", "TIMER", "RESET">>
    /\ Derived(NoContext, Register(<<"POWER", "ON">>)).reason = PowerOn

\* An unknown reason is a loss of power; the names of a BRCM register are kept.
UnknownTests ==
    /\ Derived(NoContext, Register(Unknown)).reason = HardPower
    /\ Derived(Device("BRCM"), [raw |-> <<<<"WATCHDOG", "RESET">>>>, mapped |-> Software]).custom
         = <<<<"WATCHDOG", "RESET">>>>

RegisterTests ==
    /\ Derived(Device("BRCM"), Register(<<"POWER", "ON">>)).custom = <<<<"POWER", "ON">>>>
    /\ \A c \in {Device("BRCM"), Device("RTK")} :
         Derived(c, Register(Unknown)) = Verdict("Hard Power Reset", HardPower, <<<<"NULL">>>>)
    /\ Derived(NoContext, Register(<<"UNCLASSIFIED", "REASON">>)).source = "Unknown"

BroadcomTests ==
    Derived(Device("BROADCOM"), [raw |-> <<<<"MPM", "RESET">>>>, mapped |-> <<"MPM", "RESET">>]).custom
        = <<<<"MPM", "RESET">>>>

KernelLogTests ==
    /\ ~Annotates(Device("BRCM"), Panic)
    /\ ~Annotates(Device("RTK"), NoName)
    /\ Annotates(Device("RTK"), Panic)
    /\ Annotates(Device("REALTEK"), Software)

\* unittest/reboot_log_parser_gtest.cpp: only BRCM has a register, whose first
\* name counts.
ReadTests ==
    RegisterReason(Device("BRCM"), <<<<"WATCHDOG", "RESET">>, <<"EXTRA">>>>)
        = [raw |-> <<<<"WATCHDOG", "RESET">>, <<"EXTRA">>>>, mapped |-> <<"WATCHDOG", "RESET">>]

DispatchTests ==
    /\ \A name \in {"AMLOGIC", "REALTEK", "MTK", "BROADCOM", "MEDIATEK", ""} :
         \A line \in {NoRegister, <<<<"12">>>>} :
             RegisterReason(Device(name), line).mapped = Unknown
    /\ RegisterReason(Device("BRCM"), NoRegister).mapped # NoName
    /\ RegisterReason(Device("BRCM"), <<<<"WATCHDOG", "RESET">>>>)
         = [raw |-> <<<<"WATCHDOG", "RESET">>>>, mapped |-> <<"WATCHDOG", "RESET">>]

\* The cases of the mapping: a name, then source and reason.
MappingCases ==
    {<<<<"SECURITY", "MASTER", "RESET">>, "SecurityReboot", <<"SECURITY", "MASTER", "RESET">>>>,
     <<<<"CPU", "EJTAG", "RESET">>, "CPU EJTAG", <<"CPU", "EJTAG", "RESET">>>>,
     <<<<"S", "CPU", "EJTAG", "RESET">>, "CPU EJTAG", <<"CPU", "EJTAG", "RESET">>>>,
     <<<<"GEN", "WATCHDOG", "1", "RESET">>, "WatchDog", <<"WATCHDOG", "TIMER", "RESET">>>>,
     <<<<"AUX", "CHIP", "EDGE", "RESET", "0">>, "Aux Chip Edge", <<"AUX", "CHIP", "EDGE", "RESET">>>>,
     <<<<"AUX", "CHIP", "LEVEL", "RESET", "1">>, "Aux Chip Level", <<"AUX", "CHIP", "LEVEL", "RESET">>>>,
     <<<<"MPM", "RESET">>, "MPM", <<"MPM", "RESET">>>>,
     <<<<"OVERVOLTAGE">>, "OverVoltage", <<"OVERVOLTAGE", "RESET">>>>,
     <<<<"UNDERVOLTAGE", "0", "RESET">>, "LowVoltage", <<"UNDERVOLTAGE", "RESET">>>>}

MoreMappingCases ==
    {<<<<"MAIN", "CHIP", "INPUT", "RESET">>, "Main Chip", <<"MAIN", "CHIP", "INPUT", "RESET">>>>,
     <<<<"MAIN", "CHIP", "RESET", "INPUT">>, "Main Chip", <<"MAIN", "CHIP", "RESET", "INPUT">>>>,
     <<<<"TAP", "IN", "SYSTEM", "RESET">>, "Tap-In System", <<"TAP", "IN", "SYSTEM", "RESET">>>>,
     <<<<"FRONT", "PANEL", "4SEC", "RESET">>, "FrontPanel Button", <<"FRONT", "PANEL", "RESET">>>>,
     <<<<"S3", "WAKEUP", "RESET">>, "Standby Wakeup", <<"S3", "WAKEUP", "RESET">>>>,
     <<<<"SMARTCARD", "INSERT", "RESET">>, "SmartCard Insert", <<"SMARTCARD", "INSERT", "RESET">>>>,
     <<<<"OVERTEMP">>, "OverTemperature", <<"OVERTEMP", "RESET">>>>,
     <<<<"PCIE", "0", "HOT", "BOOT", "RESET">>, "PCIE Boot", <<"PCIE", "HOT", "BOOT", "RESET">>>>}

AliasCases ==
    {<<<<"KERNEL", "PANIC", "RESET">>, "Kernel", Panic>>,
     <<<<"SOFTWARE", "RESET">>, "SoftwareReboot", Software>>,
     <<<<"HARDWARE">>, "PowerOn", PowerOn>>,
     <<<<"OVERHEAT">>, "OverTemperature", <<"OVERTEMP", "RESET">>>>,
     <<<<"UNDERVOLTAGE", "1", "RESET">>, "LowVoltage", <<"UNDERVOLTAGE", "RESET">>>>,
     <<<<"PCIE", "1", "HOT", "BOOT", "RESET">>, "PCIE Boot", <<"PCIE", "HOT", "BOOT", "RESET">>>>,
     <<<<"AUX", "CHIP", "EDGE", "RESET">>, "Aux Chip Edge", <<"AUX", "CHIP", "EDGE", "RESET">>>>,
     <<<<"AUX", "CHIP", "LEVEL", "RESET">>, "Aux Chip Level", <<"AUX", "CHIP", "LEVEL", "RESET">>>>}

\* Those that the other lists do not have.
RemainingCases ==
    {<<<<"FRONT", "PANEL", "RESET">>, "FrontPanel Button", <<"FRONT", "PANEL", "RESET">>>>,
     <<<<"AUX", "CHIP", "EDGE", "RESET", "1">>, "Aux Chip Edge", <<"AUX", "CHIP", "EDGE", "RESET">>>>,
     <<<<"AUX", "CHIP", "LEVEL", "RESET", "0">>, "Aux Chip Level", <<"AUX", "CHIP", "LEVEL", "RESET">>>>,
     <<<<"NOT", "A", "KNOWN", "REGISTER">>, "Unknown", <<"NOT", "A", "KNOWN", "REGISTER">>>>}

MappingTests ==
    \A case \in MappingCases \cup MoreMappingCases \cup AliasCases \cup RemainingCases :
        Derived(NoContext, Register(case[1])) = Verdict(case[2], case[3], <<case[3]>>)

ASSUME ModelPassesUnitTests ==
    /\ FirmwareTests /\ EcmTests /\ PanicTests /\ TelevisionTests
    /\ EvidenceTests /\ InitiatorTests /\ FallbackTests
    /\ NameTests /\ UnknownTests /\ RegisterTests /\ BroadcomTests
    /\ KernelLogTests /\ ReadTests /\ DispatchTests /\ MappingTests
=============================================================================
