SPECIFICATION Spec
CONSTANTS
    MaxDate = 1
PROPERTIES
    KillRefusesResume
