SPECIFICATION Spec
CONSTANTS
  MaxVersion = 2
  MaxLaunch = 2
  MaxFlips = 1
  Room = 2
PROPERTIES
  MenuSettles
