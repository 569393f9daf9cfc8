\* Every source of up to three records, measured rightly or not, or a pipe.
SPECIFICATION Spec
CONSTANTS
  MaxPlain = 2
  Lengths = {0, 1, 2, 4, 5}
  NoPassword = ""
  Passwords = {"", "a", "b"}
  MaxDamages = 1
INVARIANTS DeclaredExactly LinkOpens PrefixOnly SavedWhole
CHECK_DEADLOCK FALSE
