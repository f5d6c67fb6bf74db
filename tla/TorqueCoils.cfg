SPECIFICATION Spec
CONSTANTS
  DETUMBLE_TIME_STEP = 100000
  MEASURE_TIME = 20000
  SUNPOINT_DUTY_CYCLE = 20000
  MAX_DETUMBLE_FIRING_TIME = 80000
  MIN_DETUMBLE_FIRING_TIME = 10000
  FiringTimes = {9999, 10000, 45000, 90000}
  PulseTimes = {0, 2499, 4999, 15000, 640000}
  ReadTimes = {0, 5000, 19999, 20000, 25000}
  SetOn = {0, 700, 1000000, 2147483647}
  SetBack = {1, 3000, 1800000000, 2147470000}
  MaxLost = 4
INVARIANTS TypeOK FiredAsCommanded CycleTakesItsTime CoilsOffForMeasurement
