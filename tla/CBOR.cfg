CONSTANT Values <- AllValues
CHECK_DEADLOCK FALSE
SPECIFICATION Spec
INVARIANT DecodesWhatWasEncoded
