SPECIFICATION Spec
CONSTANTS
  a = a
  b = b
  p = p
  q = q
  Vocab = {a, b}
  Images = {p, q}
  Rows = 2
  Context = 8
  Buckets = {1, 3}
  Costs <- MCCosts
  Blank = blank
  Prompts <- MCPrompts
  Chunk = 2
  Nil = nil
INVARIANTS LogitsOfConversation NothingForgotten NothingRefused
PROPERTIES SplitIsLeast AnswerReturns
