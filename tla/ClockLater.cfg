SPECIFICATION ClockFairSpec
CONSTANTS
  uart0 = uart0
  uart1 = uart1
  i2c0 = i2c0
  BaudRate = 4
  NULL = NULL
  Clients = {uart0, uart1, i2c0}
  Reregister = {i2c0}
  ClockRates = {16, 160}
  ClockScripts <- LaterChangeScripts
PROPERTY EveryDeviceIsTold
CHECK_DEADLOCK FALSE
