--------------------------- MODULE RebootLogTests ---------------------------
(***************************************************************************)
(* What unittest/reboot_log_parser_gtest.cpp expects of the search for the *)
(* old log, of its parser and of the Previous* fields, said of             *)
(* FindPreviousLog, ParseLegacyLog, FromRecord, FromLog and WithReason.    *)
(***************************************************************************)
EXTENDS RebootLog, TLC

Plain == Requests \ HalRequests

Fill(r, fields) == [f \in Fields |-> IF f \in fields THEN r ELSE 0]

\* Previous* lines, all of them or some, among others.
PrefixedTests ==
    /\ ParseLegacyLog(<<>>) = Blank
    /\ \A r, q \in Requests :
         /\ ParseLegacyLog(<<Previous("RebootInitiatedBy", r), Previous("RebootTime", r),
                             Previous("CustomReason", r), Previous("OtherReason", r)>>)
              = Fill(r, Record)
         /\ ParseLegacyLog(<<Previous("RebootInitiatedBy", r), Raw("RebootReason", q),
                             Previous("CustomReason", r)>>)
              = Fill(r, {"RebootInitiatedBy", "CustomReason"})
         /\ ParseLegacyLog(<<Raw("RebootReason", q), Previous("OtherReason", r)>>)
              = Fill(r, {"OtherReason"})

\* The lines as rebootnow writes them; a HAL_SYS_Reboot that another request
\* stands behind, and one that nothing explains.
RawTests ==
    \A r, q \in Plain : \A h \in HalRequests :
        /\ ParseLegacyLog([i \in 1 .. Len(Order) |-> Raw(Order[i], r)]) = Fill(r, Record)
        /\ ParseLegacyLog(<<Raw("RebootReason", r), Raw("RebootInitiatedBy", h),
                            Raw("RebootTime", q), Raw("CustomReason", r)>>)
             = [Fill(r, Record) EXCEPT !["RebootTime"] = q]
        /\ ParseLegacyLog(<<Raw("RebootInitiatedBy", h), Raw("CustomReason", q)>>)
             = [Fill(h, {"RebootInitiatedBy"}) EXCEPT !["CustomReason"] = q]
        /\ ParseLegacyLog(<<Raw("RebootInitiatedBy", r), Previous("RebootInitiatedBy", q),
                            Raw("RebootTime", r), Previous("RebootTime", q),
                            Raw("CustomReason", r), Previous("CustomReason", q),
                            Previous("OtherReason", q)>>)
             = Fill(q, Record)

SearchTests ==
    /\ FindPreviousLog(FALSE, {}) = "none"
    /\ FindPreviousLog(TRUE, {"marked"}) = "marked"
    /\ FindPreviousLog(FALSE, {"flat"}) = "flat"
    /\ FindPreviousLog(FALSE, {"flat", "bak1"}) = "bak1"
    /\ FindPreviousLog(FALSE, {"flat", "bak2"}) = "bak2"

\* The fields from the record and the reason from the flat log; all from the
\* log, if the record does not open; nothing, if there is no log or none of
\* their lines in it.
FieldsTests ==
    \A r \in Plain :
        LET whole == [i \in 1 .. Len(Order) |-> Raw(Order[i], r)]
            some  == <<Raw("RebootReason", r), Raw("RebootInitiatedBy", r)>>
            With(rec, text) == WithReason(rec, "flat", "flat" :> text)
        IN  /\ With(FromRecord(r), <<Raw("RebootReason", r)>>) = Fill(r, Fields)
            /\ With(FromLog("flat", "flat" :> whole), whole) = Fill(r, Fields)
            /\ WithReason(FromLog("none", <<>>), "none", <<>>) = Blank
            /\ With(FromLog("flat", "flat" :> <<>>), <<>>) = Blank
            /\ With(FromLog("flat", "flat" :> some), some)
                 = Fill(r, {"RebootReason", "RebootInitiatedBy"})

ASSUME ModelPassesUnitTests == PrefixedTests /\ RawTests /\ SearchTests /\ FieldsTests
=============================================================================
