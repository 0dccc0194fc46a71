SPECIFICATION Spec
CONSTANTS
  Marks = {"cpe", "plain", "unsafe", "hidden", "short", "onlyNew", "empty"}
  lineOf <- MCLines
  Impressions <- MCImpressions
  Behaviours <- MCBehaviours
  Modulus = 65536
  MaxMessages = 2
INVARIANTS
  ToolsAgree
  PositiveHasImpression
  FieldsAreOwn
