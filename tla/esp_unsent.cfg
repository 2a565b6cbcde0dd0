SPECIFICATION Spec
CONSTANTS
  None = None
  Temperature = {200}
  Delta = 5
  Protocol = "echod"
  Lossy = FALSE
  Timeouts = FALSE
  MaxQueue = 2
PROPERTY TemperatureIsReported
