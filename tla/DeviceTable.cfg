CONSTANTS
  key1 = key1
  key2 = key2
  key3 = key3
  Key = {key1, key2, key3}
  Nobody = Nobody
SYMMETRY Symmetry
SPECIFICATION Spec
INVARIANT TypeOK
INVARIANT EnrollmentSurvives
INVARIANT RevokedBeforeLoadRejected
