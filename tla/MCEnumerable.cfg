SPECIFICATION Spec
CONSTANTS
  MaxBytes32 = 2
  MaxAddress = 1
  keyType = "uint256"
  valueType = "address"
  type = "uint256"
INVARIANTS MapTypeOK MapConsistent ReadersAgree ListingsAgree
PROPERTIES IsDictionary IsCollection
