----------------------------- MODULE RegisterPlan -----------------------------
(***************************************************************************)
(* The reads of one fetch_snapshot (src/solakon_device.cpp), in program    *)
(* order, with the addresses of include/solakon_device.h.  A local is      *)
(* named function.variable; a read that goes straight into its member is a *)
(* checked one through a local of its own, as a failed read_* assigns      *)
(* nothing.                                                                *)
(***************************************************************************)
EXTENDS Integers, Sequences, SequencesExt

\* read_*(reg, member)
Direct(reg, count, field) ==
  [reg |-> reg, count |-> count, local |-> field, checked |-> TRUE, field |-> field]

\* if (!read_*(reg, local)) member = local
Checked(reg, count, local, field) ==
  [reg |-> reg, count |-> count, local |-> local, checked |-> TRUE, field |-> field]

\* read_*(reg, local); member = local
Unchecked(reg, count, local, field) ==
  [reg |-> reg, count |-> count, local |-> local, checked |-> FALSE, field |-> field]

\* A table of <<reg, field>> read one after the other in the same way.
EachChecked(count, local, table) ==
  [i \in DOMAIN table |-> Checked(table[i][1], count, local, table[i][2])]
EachUnchecked(count, local, table) ==
  [i \in DOMAIN table |-> Unchecked(table[i][1], count, local, table[i][2])]

InverterInfo ==
  << Checked(39000, 2, "info.val", "protocol_version"),
     Direct(39002, 16, "model_name"),
     Direct(39018, 16, "serial_number"),
     Direct(39050, 1, "model_id"),
     Direct(39051, 1, "num_strings"),
     Direct(39052, 1, "num_mppt") >>
  \o EachChecked(2, "info.ival",
       << <<39053, "rated_power_kw">>, <<39055, "max_active_kw">>,
          <<39057, "max_apparent_kva">>, <<39059, "max_reactive_neg_kvar">> >>)
  \o << Direct(39063, 1, "status1"),
        Unchecked(39065, 2, "info.s3", "status3"),
        Direct(39066, 1, "alarm1"),
        Direct(39067, 1, "alarm2") >>

MeterData ==
  << Unchecked(38801, 1, "meter.uval", "m1.connected") >>
  \o EachUnchecked(2, "meter.ival",
       << <<38802, "m1.r_voltage">>, <<38804, "m1.s_voltage">>,
          <<38806, "m1.t_voltage">>, <<38808, "m1.r_current">>,
          <<38810, "m1.s_current">>, <<38812, "m1.t_current">>,
          <<38814, "m1.r_active_power">>, <<38816, "m1.s_active_power">>,
          <<38818, "m1.t_active_power">>, <<38838, "m1.combined_active_power">>,
          <<38844, "m1.frequency">> >>)
  \o << Unchecked(38901, 1, "meter.uval", "m2.connected") >>
  \o EachUnchecked(2, "meter.ival",
       << <<38902, "m2.r_voltage">>, <<38904, "m2.s_voltage">>,
          <<38906, "m2.t_voltage">>, <<38908, "m2.r_current">>,
          <<38910, "m2.s_current">>, <<38912, "m2.t_current">>,
          <<38938, "m2.combined_active_power">>, <<38946, "m2.frequency">> >>)

BatteryData ==
  EachUnchecked(1, "bms.uval", << <<37002, "bms.online">>, <<37003, "bms.main_control">> >>)
  \o << Direct(37005, 16, "bms.sn") >>
  \o EachUnchecked(1, "bms.uval", << <<37032, "bms.slave_count">>, <<37609, "bms.voltage">> >>)
  \o EachUnchecked(1, "bms.ival", << <<37610, "bms.current">>, <<37611, "bms.temperature">> >>)
  \o << Unchecked(37612, 1, "bms.uval", "bms.soc") >>
  \o EachUnchecked(1, "bms.ival",
       << <<37617, "bms.max_temperature">>, <<37618, "bms.min_temperature">> >>)
  \o EachUnchecked(1, "bms.uval",
       << <<37619, "bms.max_cell_voltage">>, <<37620, "bms.min_cell_voltage">>,
          <<37624, "bms.soh">>, <<37632, "bms.remain_energy_wh">> >>)

EnergyData ==
  << Checked(39118, 2, "energy.pv_raw", "pv_total_power_w"),
     Checked(39134, 2, "energy.ac_raw", "ac_active_power_w"),
     Checked(39168, 2, "energy.smart_raw", "smart_meter_power_w"),
     Checked(39230, 2, "energy.bat_raw", "battery_power_w") >>
  \o EachChecked(2, "energy.uval",
       << <<39605, "total_charge_kwh">>, <<39603, "total_charge_today_kwh">>,
          <<39609, "total_discharge_kwh">>, <<39607, "total_discharge_today_kwh">>,
          <<39613, "total_feeder_kwh">>, <<39611, "total_feeder_today_kwh">>,
          <<39617, "total_consumption_kwh">>, <<39615, "total_consumption_today_kwh">>,
          <<39621, "total_output_kwh">>, <<39619, "total_output_today_kwh">>,
          <<39625, "total_load_kwh">>, <<39623, "total_load_today_kwh">> >>)

SolakonPlan == InverterInfo \o MeterData \o BatteryData \o EnergyData

\* Locals declared without an initializer (val and s3).
UninitialisedLocals == {"info.val", "info.s3"}
===============================================================================
