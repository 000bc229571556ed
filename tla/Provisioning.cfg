SPECIFICATION Spec
CONSTANTS
    MaxWrites = 2
    MaxResets = 1
INVARIANTS LastWriteIsTaken WizardMeansStored
