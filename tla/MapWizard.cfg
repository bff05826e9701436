SPECIFICATION Spec
CONSTANTS
  Pads <- UsualPad
  Steps <- MCSteps
  BTN_JOYSTICK = 20
  ABS_HAT0X = 16
INVARIANTS WizardMappingWorks
