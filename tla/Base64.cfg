\* Texts of up to four bytes and codes of up to five characters.
SPECIFICATION Spec
CONSTANTS
  Texts <- SomeTexts
  Codes <- SomeCodes
  Width = 16
  Asserts = TRUE
INVARIANTS
  EncodesText
  DecodesOrThrows
  SlashInName
CHECK_DEADLOCK FALSE
