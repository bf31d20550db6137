SPECIFICATION Spec
CONSTANTS
    boot = boot
    ui = ui
    log = log
    Callers <- MCCallers
    Boot = boot
    MaxChars = 2
    I2cFails = TRUE
    MaxResets = 1
SYMMETRY CallerSymmetry
INVARIANT TypeOK
INVARIANT InStep
INVARIANT WholeBytes
INVARIANT TextContiguous
INVARIANT SuccessMeansLatched
