SPECIFICATION DevicesSpec
CONSTANTS
    Hub = Hub
    Device = Device
    MaxObjects = 3
    MaxCallbacks = 1
    MaxNetlink = 2
    MaxChanges = 2
    MaxReferences = 1
INVARIANTS DevicesInv
PROPERTIES AnnouncedInOrder UnpluggedIsFreed
CHECK_DEADLOCK FALSE
