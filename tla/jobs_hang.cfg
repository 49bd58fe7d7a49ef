\* A thread that cannot be created keeps main polling for ever.
SPECIFICATION Spec
CONSTANTS
    Jobs = 2
    Stride = 2
    MaxFiles = 2
    Sizes <- OneSize
    Faults = {"create"}
PROPERTY MainGoesOn
