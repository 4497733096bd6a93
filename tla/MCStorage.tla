----------------------------- MODULE MCStorage -----------------------------
(* Two games; every scene exercises one path from the processor to a save   *)
(* memory.                                                                  *)
EXTENDS Storage

CONSTANTS g1, g2

MCGames == {g1, g2}

Scene(ops, areas, n) ==
    [ops |-> ops, areas |-> areas, ports |-> {}, blocks |-> {}, steps |-> n, first |-> {g1},
     unlock |-> 0]
BusScene(ops, ports, blocks, n) ==
    [Scene(ops \cup {"si", "SW"}, {"rdram"}, n) EXCEPT !.ports = ports, !.blocks = blocks]

MCFiles == [g \in MCGames |->
    [eeprom |-> IF g = g1 THEN <<>> ELSE <<91, 92, 93, 94, 95, 96, 97, 98>>,
     sram |-> <<>>, fram |-> <<>>, mpak |-> <<>>]]

MCScenes ==
    {Scene(Loads \cup Stores, {area}, 2) : area \in Loadable}
    \cup {Scene(FpuOps \cup {"MTC0"}, {"rdram"}, 3),
          Scene({"LW", "SD", "sp"}, {"rdram", "rsp_mem"}, 3),
          Scene({"sram", "start", "wipe", "SW"}, {"rdram"}, 5),
          BusScene({"start"}, {0, 1}, {0}, 5),
          BusScene({"wipe"}, {1, 2}, {1, 2}, 3),
          BusScene({"start", "wipe"}, {0, Eeprom}, {0, 1}, 3),
          Scene({"flash"}, {}, 7),
          Scene({"cart", "key"}, {}, 4),
          [Scene({"cart"}, {}, 5) EXCEPT !.unlock = 1]}

\* A game with a controller pack whose save data is reset.
WipeScenes == {BusScene({"wipe"}, {1, Eeprom}, {0, 1}, 3)}
=============================================================================
