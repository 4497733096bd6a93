------------------------------ MODULE MCDevices ------------------------------
EXTENDS Devices

AllMasks == {{}, Sources}

\* Not in the last frame before Recent, nor in the last frame before the wrap.
UsualSaves == Counts \ (((Recent - ViDelay) .. Recent) \cup ((CountLimit - ViDelay) .. CountLimit))

MCScenes ==
    {{"AI", "Mask"}, {"PI", "Idle", "VI"}, {"SI", "Save"}, {"SP", "DP"}, {"Timer"}, {"Count"},
     {"Status", "SP"}, {"Status", "Slot", "TLB", "Mask"}}

=============================================================================
