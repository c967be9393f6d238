------------------------------ MODULE MCPipeline ------------------------------
(* Small instances of Pipeline: three of the program's reads, two of them      *)
(* through the same local and one of another length; or only those two.        *)
EXTENDS Pipeline, RegisterPlan

MixedPlan == << Unchecked(37612, 1, "bms.uval", "bms.soc"),
                Unchecked(37624, 1, "bms.uval", "bms.soh"),
                Checked(39134, 2, "energy.ac_raw", "ac_active_power_w") >>
EqualPlan == << Unchecked(37612, 1, "bms.uval", "bms.soc"),
                Unchecked(37624, 1, "bms.uval", "bms.soh") >>
MCHosts == {"192.168.1.10"}
===============================================================================
