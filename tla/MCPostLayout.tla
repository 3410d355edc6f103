---------------------------- MODULE MCPostLayout ----------------------------
EXTENDS PostLayout

Both == {"slow", "strict"}
Option(modes, rtl, strictCounts, cases) ==
  [modes |-> modes, rtl |-> rtl, strictCounts |-> strictCounts, cases |-> cases]
MCCases == <<"alu", "uart">>
MCClasses == <<"reg_to_reg">>
MCOptions == {Option(Both, TRUE, FALSE, {}), Option({"strict"}, FALSE, FALSE, {"uart"}),
              Option(Both, FALSE, TRUE, {"alu"}), Option({"slow"}, TRUE, FALSE, {"nobody"})}
MCFaults == "alu" :> {"none", "missing", "clock"} @@ "uart" :> {"none", "missing", "sdf", "loops", "rtl key"}
MCMaxRev == "alu" :> 1 @@ "uart" :> 2
=============================================================================
