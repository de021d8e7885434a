------------------------------ MODULE MCWeave ------------------------------
EXTENDS Weave
Config(threads, core, cores, moves, records) ==
    [threads |-> threads, core |-> core, cores |-> cores, moves |-> moves, records |-> records]
MCConfigs ==
    {Config(1, "timing", 2, 4, {"GET", "WB+GET"}),
     Config(2, "timing", 2, 4, {"GET"}),
     Config(2, "ooo", 1, 3, {"GET", "WB+GET"})}
=============================================================================
