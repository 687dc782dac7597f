CONSTANTS
  KeyOrder <- MCKeyOrder
  NumberOf <- MCNumberOf
  Written <- MCWritten
  Integral <- MCIntegral
  NoName = NoName
  CompileSchema <- CompileRoot
  SchemaCompatible <- ShapeMatches
  PythonFromSot <- ReadModel
  ModelToOrdered <- ToOrdered
  ApplySchema <- Normalize
  DiffValues <- DiffRoot
  TryPatch <- ApplyPatch
  ServerOps <- ServerApply
  IsInstance <- InstanceOf
  Documents <- DocumentsOf
  Setups <- MCSetups
  MaxParts = 2
  Titles = {"1.0"}
SPECIFICATION TypedSpec
CHECK_DEADLOCK FALSE
INVARIANTS TypedTypeOK EditSurvives LandsAsMerge RefusedOnlyOverReplacement
  FieldsKept WritesFit
