\* parse_report over every descriptor of MC_HidReport.
CONSTANTS
    Descriptors <- MCDescriptors
    Blobs <- MCBlobs
    FieldSizes <- MCFieldSizes
    Layouts <- MCLayouts
    Reports <- MCReports
SPECIFICATION Spec
\* The parser stops after Ok or Err.
CHECK_DEADLOCK FALSE
INVARIANT ParseErrorsExact
INVARIANT ItemsKept
INVARIANT ReadBitsExact
INVARIANT LedBitsExact
INVARIANT ReportDecoded
INVARIANT GlyphTableExact
INVARIANT StrokesDrawn
