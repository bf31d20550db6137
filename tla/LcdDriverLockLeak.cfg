SPECIFICATION FairSpec
CONSTANTS
    boot = boot
    ui = ui
    log = log
    Callers <- MCCallers
    Boot = boot
    MaxChars = 1
    I2cFails = TRUE
    MaxResets = 0
PROPERTY CallsReturn
