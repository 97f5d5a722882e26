SPECIFICATION Spec
\* The goroutines stop when the stream has ended, and a blocked one for good.
CHECK_DEADLOCK FALSE
CONSTANTS
  Cap = 1
  MaxChunks = 3
INVARIANTS TypeOK StreamWellFormed OpenAIIntact AnthropicIntact
PROPERTIES StreamEnds
