CONSTANTS
  Packets <- MCPackets
  MaxPackets <- MCMaxPackets
  HeaderSize <- MCHeaderSize
  MaxChunk <- MCMaxChunk
  None = None
  Missing = Missing
  WidgetFiles <- MCWidgetFiles
SPECIFICATION Spec
CHECK_DEADLOCK FALSE
INVARIANTS TypeOK ByteAccounting ResponsesMatch WidgetLookupExact
PROPERTIES AllAnswered
