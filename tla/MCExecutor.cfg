\* Two images and four commands: enough for a fetch and a store of each image
\* on both sides of a barrier.
SPECIFICATION ClientSpec
CONSTANTS
  a = a
  b = b
  Image <- MCImage
  MaxCommands = 4
SYMMETRY MCSymmetry
INVARIANTS
  IInv
