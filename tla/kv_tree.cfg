SPECIFICATION TreeSpec
CONSTANTS
  Increment = 1
  MaxLabels = 6
INVARIANT TreeTypeOK
INVARIANT TreeInv
INVARIANT ReadsAgree
INVARIANT FreedOnce
INVARIANT MovedOnce
PROPERTY SolidIsReadOnly
