CONSTANTS
  Objs = {o1}
  StringFields = {user_id}
  NumberFields = {level}
  Strings = {s1, s2}
  Addrs = {a1}
  MaxNumber = 1
  Nil = Nil
SPECIFICATION Spec
INVARIANT GetReturnsSet
CHECK_DEADLOCK FALSE
