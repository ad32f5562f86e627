CONSTANTS
  Objects = {o1, o2}
  Character <- MCCharacter
  Params <- MCParams
  Methods <- MCMethods
  Payloads <- MCPayloads
  Statuses <- MCStatuses
  PreambleWidth = 3
  FirstId = 10
  LastId = 10
  MaxParams = 2
  MaxText = 10
SYMMETRY MCSymmetry
CONSTRAINT FewParameters
SPECIFICATION Spec
INVARIANTS TypeOK RoundTrip AcceptedParses BuffersFit ResponseRoundTrip
