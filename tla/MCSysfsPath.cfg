SPECIFICATION Spec
CONSTANTS
    Names = {"a", "b"}
    MaxInode = 3
PROPERTY RenameMovesTheFile
PROPERTY UnlinkOfDirectoryIsEISDIR
