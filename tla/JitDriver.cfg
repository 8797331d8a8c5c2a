CONSTANTS
  Scale = 1
  ParserOpen <- parser_open
  NoTree <- NULL
  CodeOf <- generate_with_sigmoid
  IsC <- Compiles
  Value <- evaluate
  Arguments <- SomeArguments
  Again <- OneArgument
  Memories = {2, 9}
  MaxRuns = 2
SPECIFICATION Spec
INVARIANTS
  PrintsTheValue
  NothingLeft
