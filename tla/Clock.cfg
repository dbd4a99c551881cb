SPECIFICATION Spec
CONSTANTS
  Alarms = {a, b, c}
  Width = 5
  Intervals = {0, 1, 3}
PROPERTIES OnTime AlarmComes
