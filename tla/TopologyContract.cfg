SPECIFICATION TopologySpec
CONSTANTS
  Component = {"work", "join"}
  Registered = {"s", "t"}
  Boundary = "region"
  Ports <- MCPorts
  Document <- MCDocument
CHECK_DEADLOCK FALSE
INVARIANTS
  JoinsFill
