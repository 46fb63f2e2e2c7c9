SPECIFICATION FairSpec
CONSTANTS
  MaxRequests = 3
  Name <- Names
  Password = {"p"}
  Existing <- OneOld
  None = None
  Origins <- TwoOrigins
INVARIANTS
  TypeOK
  AccountsWhole
  TokensAreUsers
  AnswersTrue
  SignUpSticks
  KeyOpensOwnStream
PROPERTIES
  RequestsAnswered
