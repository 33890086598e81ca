CONSTANT Requests <- MCRequests
SPECIFICATION Spec
CHECK_DEADLOCK FALSE
INVARIANTS
  FashionStaysFashion
  PromoStaysSubjectless
  ProfileMatchesIntent
