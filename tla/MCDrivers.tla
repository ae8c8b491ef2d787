------------------------------- MODULE MCDrivers -------------------------------
EXTENDS Drivers

Setup(p, n, cap, idle) == [driver |-> p, ops |-> n, REG_CAP |-> cap, MaxGiveUps |-> idle]

MCSetups ==
  { Setup("jepsen", <<2, 2>>, 0, 0), Setup("app", <<4, 4>>, 4, 0),
    Setup("app", <<4, 2>>, 2, 2), Setup("session", <<2, 1>>, 0, 1),
    Setup("lincheck", <<3, 2>>, 0, 0), Setup("direct", <<>>, 0, 0) }

\* Three operations on two values with every overlap and tie of their intervals.
MCLinOps ==
  {op \in [kind : {"write", "read"}, v : 0..1, inv : 1..3, res : 1..3] : op.inv <= op.res}
MCHistories == [1..3 -> MCLinOps]
================================================================================
