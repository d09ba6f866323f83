\* The report count of a main item with a usage list that does not divide it.
CONSTANTS
    Descriptors <- MCDescriptors
    Blobs <- MCBlobs
    FieldSizes <- MCFieldSizes
    Layouts <- MCLayouts
    Reports <- MCReports
SPECIFICATION Spec
CHECK_DEADLOCK FALSE
INVARIANT FieldsCounted
