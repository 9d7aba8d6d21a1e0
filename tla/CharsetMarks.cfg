SPECIFICATION Spec
CONSTANTS
  Octets <- SomeOctets
  MaxLength = 4

  
PROPERTIES
  MarkDecides
