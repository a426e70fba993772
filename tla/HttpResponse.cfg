CONSTANTS
  html = html
  text = text
  Name <- MCName
  Value <- MCValue
  MimeType = html
  Lengths = {0, 7}
  Lists <- MCLists
  MaxAsked = 4
SPECIFICATION Spec
CHECK_DEADLOCK FALSE
INVARIANTS
  TypeOK
  AnswerAsAsked
