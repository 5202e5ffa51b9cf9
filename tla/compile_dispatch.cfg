CONSTANTS
  Modules       <- MCModules
  Parent        <- MCParent
  Methods       <- MCMethods
  Overridable   <- MCOverridable
  Bodies        <- MCBodies
  StaticRules   <- MCStaticRules
  Exports       <- MCExports
  InlineChoices <- MCInlineChoices
  FieldChoices  <- MCFieldChoices
  Constructions = {{"C"}, {"A", "C"}, {"B", "C"}, {"C", "D"}}
  Inner         = {}
SPECIFICATION Spec
\* the program may have no call to make
CHECK_DEADLOCK FALSE
INVARIANTS
  SelectsByClass
  SlotsFilled
  ReceiverCovers
  SlotsFit
PROPERTIES
  CalledIsGenerated
