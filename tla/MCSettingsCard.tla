--------------------------- MODULE MCSettingsCard ---------------------------
(* A page with a timer card, whose reset leaves one of its two keys, the   *)
(* model card with one optional key, one row that saves on change and one  *)
(* host-only key.                                                          *)
EXTENDS SettingsCard

MCCards == {"timers", "review"}
MCCardKeys == [c \in MCCards |-> IF c = "timers" THEN {"lowRisk", "panelDelay"} ELSE {"provider"}]
MCTop == {"timeout"}
MCKept == {"panelDelay"}
MCHostOnly == {"antiHijack"}
MCOptional == {"provider"}
MCLegacy == [k \in {"lowRisk"} |-> "retired"]

Untidy == [[k \in Keys |-> "base"] EXCEPT !["provider"] = "other", !["timeout"] = "invalid",
                                          !["antiHijack"] = "invalid"]
MCInitialDocs == {Untidy}
=============================================================================
