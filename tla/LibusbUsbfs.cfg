SPECIFICATION FairSpec
CONSTANTS
    UrbLength = 2
    MaxLength = 5
INVARIANTS UsbfsInv ReportIsTrue
PROPERTIES CancelledIsReported ImplementsTransfer
CHECK_DEADLOCK FALSE
