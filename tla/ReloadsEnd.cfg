SPECIFICATION Spec
CONSTANTS
  Root = "R"
  Primitive = {"xsd:int", "xsd:string", "xsd:date"}
  Supported = {"xsd:int", "xsd:string"}
  Document <- MCDocument
  MaxLoads = 2
  Main = "main"
INVARIANT ReloadsEnd
