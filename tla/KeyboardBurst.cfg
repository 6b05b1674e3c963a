\* Two keys typed between two iterations are a burst.
SPECIFICATION Spec
CONSTANTS
  BufferSize = 3
  MaxTyped = 2
PROPERTY KeyIsHandled
