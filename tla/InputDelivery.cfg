SPECIFICATION Spec
CONSTANTS
  Calls = { c1, c2, c3 }
  Inputs = { { c1, c2 }, { c3 } }
  NoCall = NoCall
  NoInput = NoInput
INVARIANT ActiveFlagHasOwner
INVARIANT RecordsAgree
PROPERTY OutcomesAreFinal
PROPERTY WorkersReturn
