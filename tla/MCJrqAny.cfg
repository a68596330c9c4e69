SPECIFICATION Spec
CONSTANTS
  Undefined = Undefined
  Malformed <- AnyMalformed
  Sessions <- AnySessions
INVARIANTS TypeOK Acyclic KeyStackIsPath
