SPECIFICATION MCSpec
CONSTANTS
  Parts = {"promise"}
  Listener = {l1, l2, l3}
  Value = {v1, v2}
  Nothing = nothing
  MaxRef = 2
  Setups <- MCSetups
  MaxUse = 2
  Objects = {1, 2}
  BusSetups <- MCBusSetups
PROPERTY UserDataOfListener
CHECK_DEADLOCK FALSE
