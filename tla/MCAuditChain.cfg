CONSTANTS
    EnvIds = {e1, e2}
    Bodies = {narrow, wide}
    Drafts = {wide}
    None = None
    Times = {1}
    MaxEvents = 3
    MaxDamage = 2
SPECIFICATION Spec
SYMMETRY Interchangeable
INVARIANTS
    NoFalseAlarm
    ValidLogsAreGenuine
    ValidEnvelopesAreIssued
    CheckpointPinsThePast
CHECK_DEADLOCK FALSE
