---------------------------- MODULE MCSpiDriver ----------------------------
(***************************************************************************)
(* Configurations for the SPI driver: each protocol and place of the       *)
(* switch, a protocol the driver does not know, and stages that are empty. *)
(***************************************************************************)
EXTENDS SpiDriver

SpiConfig(protocol, multi_wire, cmd, addr, dummy, len) ==
  [protocol |-> protocol, multi_wire |-> multi_wire, cmd |-> cmd,
   addr |-> addr, dummy |-> dummy, len |-> len]

MCSpiConfigs ==
  { SpiConfig("quad", "addr_data", 1, 1, 0, 3),
    SpiConfig("dual", "data_only", 1, 0, 1, 3),
    SpiConfig("quad", "all", 0, 1, 0, 2),
    SpiConfig("octal", "all", 0, 0, 0, 1),
    SpiConfig("single", "data_only", 0, 0, 0, 2) }

\* A command of one byte with an answer of one byte.
CommandConfigs == { SpiConfig("single", "all", 1, 0, 0, 2) }
============================================================================
