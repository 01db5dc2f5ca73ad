SPECIFICATION Spec
CONSTANTS
    Page = {0, 1}
    StoragePages = {0}
    Value = {v0, v1}
    Zero = v0
    HeaderUnits = 2
    PageUnits = 3
    UpRoom = 4
    DownRoom = 2
    BatchMax = 3
INVARIANTS TypeOK Framed
PROPERTIES Implements 
CHECK_DEADLOCK FALSE
