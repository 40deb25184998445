SPECIFICATION Spec
CONSTANTS
  w1 = w1
  w2 = w2
  m1 = m1
  m2 = m2
  Workers <- TwoWorkers
  Members <- OneMember
  Values = {0, 1, 2}
  TTL = 2
  HoursPerDay = 2
  DaysPerMonth = 2
  MaxHour = 4
SYMMETRY Symmetry
INVARIANTS
  TypeOK
  TopOfUndisturbed
  TopsExpire
  TodaysTops
