SPECIFICATION LiveSpec
CONSTANTS
    MaxQueue = 2
PROPERTIES
    StopIsReported
