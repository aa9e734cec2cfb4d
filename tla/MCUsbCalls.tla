----------------------------- MODULE MCUsbCalls -----------------------------
EXTENDS UsbCalls

CONSTANTS d1, d2

MCProgrammers ==
  {[kind |-> k, driver |-> d] : k \in {"demon", "lpc"}, d \in BOOLEAN}

Simple(op) == [op |-> op, verify |-> FALSE, cuts |-> FALSE, file |-> << >>]
Write(file, verify, cuts) == [op |-> "write", verify |-> verify, cuts |-> cuts, file |-> file]

MCJobs ==
  {Simple(op) : op \in {"info", "read", "bad_blocks", "detect", "xsvf"}}
    \cup {[Simple("xsvf") EXCEPT !.cuts = TRUE]}
    \cup {Write(<<d1, d2>>, TRUE, TRUE), Write(<<d2, d2>>, FALSE, TRUE), Write(<< >>, TRUE, FALSE)}

MCInfo == {Simple("info")}
=============================================================================
